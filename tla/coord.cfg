SPECIFICATION Spec
CONSTANTS
  d1 = d1  d2 = d2  d3 = d3
  j1 = j1  j2 = j2
  None = None
  Ids = {d1, d2, d3}
  Jobs = {j1, j2}
  Legacy = {}
  MaxFaults = 2
SYMMETRY Symmetry
CHECK_DEADLOCK FALSE
INVARIANTS
  IInv
  BoundaryHasOneOwner
  RestorableIsDurable
  RemovedIsNotOffered
PROPERTIES
  AutomaticKeepsRestorable
  PendingReferencesKept
