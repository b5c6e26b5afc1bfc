SPECIFICATION Spec
CONSTANTS
  None = None
  Ids = {h1, h2}
  Jobs = {j1, j2}
  Interval = 2
  KeepAll = 1
  MaxTime = 2
  MaxFaults = 2
CHECK_DEADLOCK FALSE
INVARIANTS
  HomeInv
  OfferedIsDurable
  Spaced
  NoDeletionUnderReader
PROPERTIES
  ImplementsRestorePoints
