SPECIFICATION FairSpec
CONSTANTS
  j1 = j1
  j2 = j2
  j3 = j3
  Jobs = {j1, j2}
  Hosted = {j1, j2}
  Workers = 2
  QueueMax = 1
  CancelsMax = 1
  Faults = {"withdrawing", "starting", "ending"}
INVARIANTS
  StartedOnce
PROPERTIES
  CallbackSettles
  ShutdownSettles
  ImplementsLives
  CancelIsNotInterruption
