SPECIFICATION Spec
CONSTANTS
  j1 = j1
  j2 = j2
  j3 = j3
  Jobs = {j1, j2}
  Hosted = {j1, j2}
  Workers = 1
  QueueMax = 1
  CancelsMax = 0
  Faults = {}
INVARIANTS
  GivenUpNeverRuns
