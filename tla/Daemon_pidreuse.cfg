SPECIFICATION FairSpec
CONSTANTS
  Pids = {p1, p2}
  Clients = {c1, c2}
  NoPid = NoPid
  InTurn = TRUE
  MayCrash = TRUE
  MayFail = TRUE
  PidReuse = TRUE
CHECK_DEADLOCK FALSE
PROPERTIES RefusedOnlyWhenRunning
