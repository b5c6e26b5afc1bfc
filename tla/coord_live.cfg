SPECIFICATION FairSpec
CONSTANTS
  d1 = d1  d2 = d2  d3 = d3
  j1 = j1  j2 = j2
  None = None
  Ids = {d1, d2}
  Jobs = {j1, j2}
  Legacy = {d1}
  MaxFaults = 1
CHECK_DEADLOCK FALSE
PROPERTIES
  JobsEnd
  ListedDeletionEnds
