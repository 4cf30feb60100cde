SPECIFICATION Spec
CONSTANTS
  Conns = {c1, c2, c3}
  Keys = {k1}
  Tunnels = {t1}
  KeyOf <- MCKeyOf
  Registers <- MCRegisters
  MaxDials = 3
  PeerMayStall = FALSE
  AcceptMayFail = FALSE
  HandshakeMayHang = TRUE
SYMMETRY ConnSymmetry
CHECK_DEADLOCK FALSE
INVARIANT StaysOpenWhileRegistered
