SPECIFICATION Spec
CONSTANTS
  a1 = a1
  a2 = a2
  Approvals = {a1}
  LastTime = 3
  StepsBack = TRUE
  None = None
  NoWrite = NoWrite
INVARIANTS
  SpendIsKept
CHECK_DEADLOCK FALSE
