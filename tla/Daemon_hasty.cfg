SPECIFICATION FairSpec
CONSTANTS
  Pids = {p1, p2}
  Clients = {c1, c2}
  NoPid = NoPid
  InTurn = FALSE
  MayCrash = FALSE
  MayFail = FALSE
  PidReuse = FALSE
CHECK_DEADLOCK FALSE
INVARIANTS Reachable
