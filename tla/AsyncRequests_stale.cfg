SPECIFICATION Spec
CONSTANTS
  a1 = a1
  a2 = a2
  Slot = {a1, a2}
  AddressReuse = TRUE
  MainMayStall = FALSE
  MaxEvents = 2
SYMMETRY Symmetry
PROPERTY StaleFinishedIsDropped
CHECK_DEADLOCK FALSE
