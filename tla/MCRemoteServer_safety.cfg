SPECIFICATION Spec
CONSTANTS
  Conns = {c1, c2, c3}
  Keys = {k1}
  Tunnels = {t1}
  KeyOf <- MCKeyOf
  Registers <- MCRegisters
  MaxDials = 3
  PeerMayStall = FALSE
  AcceptMayFail = TRUE
  HandshakeMayHang = TRUE
SYMMETRY ConnSymmetry
CHECK_DEADLOCK FALSE
INVARIANTS OrderConsistent RoundRobin NoOrphanListener
PROPERTY TurnKept
