SPECIFICATION Spec
CONSTANTS
  Sessions = {s1, s2}
  Subnets = {n1, n2}
  CrashesMax = 2
SYMMETRY AnySession
INVARIANT CancelledLeavesNothing
CHECK_DEADLOCK FALSE
