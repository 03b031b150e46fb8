SPECIFICATION FairSpec
CONSTANTS
  j1 = j1
  j2 = j2
  j3 = j3
  Jobs = {j1}
  Hosted = {j1}
  Workers = 1
  QueueMax = 1
  CancelsMax = 1
  Faults = {}
PROPERTIES
  CancellingSettles
