SPECIFICATION Spec
CONSTANTS
  s1 = s1
  s2 = s2
  s3 = s3
  c1 = c1
  c2 = c2
  k1 = k1
  Sessions = {s1}
  Tunnelled = {s1}
  Busy = {s1}
  Gated = TRUE
  Closers = {c1}
  Savers = {}
  MaxSessions = 1
  Nobody = Nobody
INVARIANT
  NoTunnelLeft
