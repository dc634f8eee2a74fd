SPECIFICATION Spec
CONSTANTS
  Nick = {n1, n2}
  Person = {p}
  Nobody = Nobody
  reportArray <- SmallReports
  MaxSecond = 4
  LazySettings <- BothSettings
  StartTime = 3
  MaxTime = 1
  MaxIds = 2
  MaxSays = 1
  MaxCrashes = 1
INVARIANTS PresentIsRecorded OneRowPerJid ReportsAgree NoFalseTime
PROPERTY KnownIsKept
