SPECIFICATION FairSpec
CONSTANTS
  Timeout = 3
  MaxAttempt = 3
  NeedsReply = TRUE
  Silences = FALSE
  SendMayBlock = FALSE
PROPERTY CloseEnds
CHECK_DEADLOCK FALSE
