SPECIFICATION CronFairSpec
CONSTANTS
  j1 = j1
  j2 = j2
  j3 = j3
  c1 = c1
  Jobs = {j1, j2}
  Hosted = {j1, j2}
  Workers = 2
  QueueMax = 1
  CancelsMax = 1
  Faults = {"started", "ending", "failing", "stopping"}
  CronJobs = {c1}
  CronOf <- OneCron
  NoRun = NoRun
INVARIANTS
  OpenIsHeld
PROPERTIES
  ClosedAfterRun
  SlotIsFreed
