SPECIFICATION FairSpec
CONSTANTS
  i1 = i1  i2 = i2
  b1 = b1  b2 = b2  b3 = b3  b4 = b4
  c1 = c1  c2 = c2
  s1 = s1  installed = installed
  None = None
  TxIds = {i1}
  BootIds = {b1, b2, b3, b4}
  Targets = {s1}
  TargetOf <- MCTargetOf
  Installed = installed
  Calls = {c1}
  MaxAttempts = 2
  MaxFaults = 3
\* The machine may be left alone in userspace for ever.
CHECK_DEADLOCK FALSE
PROPERTIES
  EnteredRollbackEnds
  AppliedRollbackIsArchived
  MachineComesUp
