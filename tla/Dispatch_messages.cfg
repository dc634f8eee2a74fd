SPECIFICATION Spec
CONSTANTS
  Order <- SortedOrder
  People = {"ann", "joe"}
  Bot = "bot"
  Room = "room"
  Outsider = {"boss"}
  Server = "server"
  Nobody = "nobody"
  Role <- SmallRole
  Keys <- SmallKeys
  Said <- SmallSaid
  Alias <- SmallAlias
  Rule <- SmallRule
INVARIANTS NestingIsBounded NoBorrowedAuthority EchoStopsAtMuc CountedOnce QuietForOthers
PROPERTIES WalkIsStable DroppedIsSilent EveryMessageEnds
