SPECIFICATION FairSpec
CONSTANTS
  Timeout = 3
  MaxAttempt = 3
  NeedsReply = TRUE
  Silences = TRUE
  SendMayBlock = FALSE
PROPERTY AlwaysReconnects
CHECK_DEADLOCK FALSE
