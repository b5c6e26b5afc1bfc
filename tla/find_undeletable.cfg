SPECIFICATION FairSpec
CONSTANTS
  d1 = d1  d2 = d2  d3 = d3
  j1 = j1  j2 = j2
  None = None
  Ids = {d1}
  Jobs = {j1}
  Legacy = {}
  MaxFaults = 1
CHECK_DEADLOCK FALSE
PROPERTIES
  DeletionEnds
