SPECIFICATION Spec
CONSTANTS
  r1 = r1
  r2 = r2
  r3 = r3
  r4 = r4
  l1 = l1
  Receipts = {r1, r2, r3, r4}
  Legacy = {l1}
  CrashesMax = 2
SYMMETRY AnyReceipt
INVARIANTS
  PassMeansWhole
PROPERTIES
  AckedVerifies
  OnlyGrows
CHECK_DEADLOCK FALSE
