SPECIFICATION Spec
CONSTANTS
  nick = nick
  notNick = notNick
  client = client
  word = word
  somebody = somebody
  Cond <- SmallCond
  Test <- SmallTest
  Kind <- SmallKind
  Fits <- SmallFits
  Person = {somebody}
  Affiliation <- Outsiders
  FitsBlank = {}
  UsedList = {"ban", "kick"}
  SharedTails = TRUE
  ApplyToMembers = FALSE
  EveryPresence = TRUE
  BotIsOwner = FALSE
  UsedChain <- TwinTails
  MaxId = 4
PROPERTY AddedIsThere
