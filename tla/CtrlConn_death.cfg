SPECIFICATION FairSpec
CONSTANTS
  Opened = {c1, c2}
  Incoming = {c3, c4, c5}
  QueueCap = 1
INVARIANT NoneLost
PROPERTIES DeathEnds CloseReachesSocket AcceptedAreWoken
CHECK_DEADLOCK FALSE
