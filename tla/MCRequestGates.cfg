SPECIFICATION FairSpec
CONSTANTS
  Sessions = {s1, s2}
  GatesMax = 2
  BrowsersMax = 2
  LossWhileEnding = FALSE
INVARIANTS
  LostIsWatched
  OpenIsOwned
PROPERTIES
  SwapEndsNoSession
  LossIsContained
CHECK_DEADLOCK FALSE
