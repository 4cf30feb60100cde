SPECIFICATION FairSpec
CONSTANTS
  Chans = {c1}
  DefaultSendWindow <- MCWindow
  MaxBytes <- MCBytes
  ServerWindow = 1
  ClientWindow = 1
  ServerBytes = 2
  ClientBytes = 0
  MaxReceiveBuffer = 2
  BufferSize = 2
  WireCap = 3
  SinkMayFail = FALSE
  DialMayFail = TRUE
CHECK_DEADLOCK FALSE
PROPERTY PeerCloseReleases
