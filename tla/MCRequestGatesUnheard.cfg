SPECIFICATION FairSpec
CONSTANTS
  Sessions = {s1, s2}
  GatesMax = 2
  BrowsersMax = 2
  LossWhileEnding = TRUE
PROPERTIES
  LossIsContained
CHECK_DEADLOCK FALSE
