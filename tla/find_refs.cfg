SPECIFICATION Spec
CONSTANTS
  Domains = {"git"}
  Places = {p, q}
  Capacity = 1
  Lasting = {"git"}
  MostObserved = 2
  LastTick = 1
CHECK_DEADLOCK FALSE
INVARIANTS
  RefsStayInRepository
