SPECIFICATION Spec
CONSTANTS
  Order <- SortedOrder
  People = {"ann", "joe"}
  Bot = "bot"
  Room = "room"
  Outsider = {"boss"}
  Server = "server"
  Nobody = "nobody"
  Role <- SmallRole
  Keys <- SmallKeys
  Said <- SmallSaid
  Alias <- EditingAlias
  Rule <- SmallRule
PROPERTY RulesDoNotEdit
