SPECIFICATION FairSpec
CONSTANTS
  Conns = {c1, c2}
  Addrs = {a1}
  Sessions = {s1, s2}
  None = None
  Timeout = 2
  Streaming = TRUE
CHECK_DEADLOCK FALSE
PROPERTY SessionsReclaimed
