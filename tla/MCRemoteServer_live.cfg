SPECIFICATION FairSpec
CONSTANTS
  Conns = {c1, c2}
  Keys = {k1}
  Tunnels = {t1, t2}
  KeyOf <- MCKeyOf
  Registers <- MCRegisters
  MaxDials = 1
  PeerMayStall = TRUE
  AcceptMayFail = FALSE
  HandshakeMayHang = FALSE
CHECK_DEADLOCK FALSE
PROPERTY ShutdownDrains
