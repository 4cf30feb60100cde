SPECIFICATION FairSpec
CONSTANTS
  Chans = {c1}
  DefaultSendWindow <- MCWindow
  MaxBytes <- MCBytes
  ServerWindow = 2
  ClientWindow = 1
  ServerBytes = 3
  ClientBytes = 2
  MaxReceiveBuffer = 1
  BufferSize = 1
  WireCap = 1
  SinkMayFail = TRUE
  DialMayFail = TRUE
CHECK_DEADLOCK FALSE
PROPERTY Reclaimed
