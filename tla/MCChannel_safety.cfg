SPECIFICATION Spec
CONSTANTS
  Chans = {c1}
  DefaultSendWindow <- MCWindow
  MaxBytes <- MCBytes
  ServerWindow = 2
  ClientWindow = 1
  ServerBytes = 3
  ClientBytes = 2
  MaxReceiveBuffer = 2
  BufferSize = 2
  WireCap = 2
  SinkMayFail = TRUE
  DialMayFail = TRUE
CHECK_DEADLOCK FALSE
INVARIANTS FlowControl NoOverflow InOrder LosslessEOF CreditConserved
PROPERTIES ImplementsStream
