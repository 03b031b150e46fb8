SPECIFICATION Spec
CONSTANTS
  a1 = a1
  a2 = a2
  Approvals = {a1, a2}
  LastTime = 3
  StepsBack = FALSE
  None = None
  NoWrite = NoWrite
SYMMETRY Interchangeable
INVARIANTS
  SpendIsKept
  StoresAgree
  ReadsTheLastWord
PROPERTIES
  FallBackIsRepaired
CHECK_DEADLOCK FALSE
