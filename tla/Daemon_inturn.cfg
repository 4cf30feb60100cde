SPECIFICATION FairSpec
CONSTANTS
  Pids = {p1, p2, p3}
  Clients = {c1, c2}
  NoPid = NoPid
  InTurn = TRUE
  MayCrash = TRUE
  MayFail = TRUE
  PidReuse = FALSE
INVARIANTS Reachable
PROPERTIES RefusedOnlyWhenRunning NoLimbo CommandsReturn
