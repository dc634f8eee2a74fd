SPECIFICATION Spec
CONSTANTS
  gluxi = gluxi
  other = other
  guest = guest
  owner = owner
  Nick = {gluxi, other}
  registeredNick = gluxi
  PersonNick = {gluxi, other}
  Fold <- Distinct
  Person = {guest, owner}
  BotJid = bot
  Owner = owner
  NoNick = NoNick
  NoJid = NoJid
  LazySettings = {TRUE, FALSE}
  Anonymous = FALSE
  RenameRaces = FALSE
  MaxInFlight = 3
  MaxStops = 2
INVARIANTS Mirror SeatsMatchNicks RolesAreCurrent AutoJoinFollowsRoom
PROPERTIES ErrorMeansNotJoined
