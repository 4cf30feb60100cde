SPECIFICATION FairSpec
CONSTANTS
  Timeout = 3
  MaxAttempt = 3
  NeedsReply = TRUE
  Silences = TRUE
  SendMayBlock = TRUE
PROPERTY DeadPeerDetected
CHECK_DEADLOCK FALSE
