SPECIFICATION FairSpec
CONSTANTS
  s1 = s1
  s2 = s2
  s3 = s3
  c1 = c1
  c2 = c2
  k1 = k1
  Sessions = {s1, s2}
  Tunnelled = {s1}
  Busy = {s1}
  Gated = TRUE
  Closers = {c1, c2}
  Savers = {k1}
  MaxSessions = 1
  Nobody = Nobody
INVARIANTS
  LimitHolds
  FailedLeavesNothing
  CloseIsRecorded
PROPERTIES
  CloseSettles
