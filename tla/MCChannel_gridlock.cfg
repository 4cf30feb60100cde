SPECIFICATION Spec
CONSTANTS
  Chans = {c1, c2}
  DefaultSendWindow <- MCWindow
  MaxBytes <- MCBytes
  ServerWindow = 1
  ClientWindow = 1
  ServerBytes = 2
  ClientBytes = 2
  MaxReceiveBuffer = 2
  BufferSize = 1
  WireCap = 1
  SinkMayFail = FALSE
  DialMayFail = FALSE
CHECK_DEADLOCK FALSE
INVARIANT NoGridlock
SYMMETRY ChanSymmetry
