SPECIFICATION FairSpec
CONSTANTS
  Opened = {c1, c2}
  Incoming = {c3, c4, c5}
  QueueCap = 1
PROPERTY OpenedAreWoken
CHECK_DEADLOCK FALSE
