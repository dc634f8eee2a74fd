SPECIFICATION Spec
CONSTANTS
  nick = nick
  notNick = notNick
  client = client
  word = word
  somebody = somebody
  Cond <- SmallCond
  Test <- SmallTest
  Kind <- SmallKind
  Fits <- SmallFits
  Person = {somebody}
  Affiliation <- Outsiders
  FitsBlank = {}
  UsedList = {"ban", "kick"}
  SharedTails = FALSE
  ApplyToMembers = FALSE
  EveryPresence = TRUE
  BotIsOwner = FALSE
  UsedChain <- SmallChain
  MaxId = 3
INVARIANTS CacheIsFaithful LinksHold Enforced
PROPERTIES ImplementsRuleBook NobodyWithoutRule AddedIsThere
