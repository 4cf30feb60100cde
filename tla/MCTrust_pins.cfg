SPECIFICATION Spec
CONSTANTS
  Servers = {p1, p2}
  Keys = {k1, k2}
  NoKey = NoKey
  MaxTime = 2
  Due = 1
  Life = 2
  Clients = {q1}
  Tunnels = {t1, t2}
  Hosts = {h1}
  NoFp = NoFp
  Of <- MCOf
  Home = h1
  Others = {}
  Scenarios <- SomeFaults
INVARIANTS HonestFingerprint OneFingerprint PinsKept
PROPERTY NeverTurnedAway
SYMMETRY TrustSymmetry
CHECK_DEADLOCK FALSE
