SPECIFICATION FairSpec
CONSTANTS
  Conns = {c1, c2}
  Keys = {k1}
  Tunnels = {t1}
  KeyOf <- MCKeyOf
  Registers <- MCRegisters
  MaxDials = 1
  PeerMayStall = FALSE
  AcceptMayFail = FALSE
  HandshakeMayHang = TRUE
CHECK_DEADLOCK FALSE
PROPERTY AlwaysDrains
