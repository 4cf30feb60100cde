SPECIFICATION FairSpec
CONSTANTS
  Conns = {c1, c2}
  Addrs = {a1, a2}
  Sessions = {s1, s2}
  None = None
  Timeout = 2
  Streaming = FALSE
INVARIANTS SessionTable AuthBeforeDial
PROPERTIES SessionsReclaimed StopEndsTunnel ConnsReleased
CHECK_DEADLOCK FALSE
