SPECIFICATION FairSpec
CONSTANTS
  a1 = a1
  a2 = a2
  Slot = {a1, a2}
  AddressReuse = TRUE
  MainMayStall = TRUE
  MaxEvents = 3
INVARIANT OwnedByList
INVARIANT OwnEventNeverWaits
PROPERTY RunBodyKeepsRequest
PROPERTY TimeoutIsNotified
PROPERTY ImplementsPool
PROPERTY Reaped
CHECK_DEADLOCK FALSE
