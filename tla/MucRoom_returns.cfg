SPECIFICATION FairSpec
CONSTANTS
  gluxi = gluxi
  other = other
  guest = guest
  owner = owner
  Nick = {gluxi, other}
  registeredNick = gluxi
  PersonNick = {gluxi, other}
  Fold <- CaseTwins
  Person = {guest}
  BotJid = bot
  Owner = owner
  NoNick = NoNick
  NoJid = NoJid
  LazySettings = {TRUE}
  Anonymous = TRUE
  RenameRaces = TRUE
  MaxInFlight = 2
  MaxStops = 1
PROPERTIES ReturnsToRoom
INVARIANTS NicksAreUnique
