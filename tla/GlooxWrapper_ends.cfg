SPECIFICATION FairSpec
CONSTANTS
  KeepAlive = TRUE
  MaxStanzas = 2
  MaxSignals = 2
INVARIANTS ClientIsShared AnswerFindsRequest ClientOutlivesRun
PROPERTIES EndsWithStream
CHECK_DEADLOCK FALSE
