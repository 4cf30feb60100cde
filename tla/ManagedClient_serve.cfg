SPECIFICATION FairMSpec
CONSTANTS
  Timeout = 3
  MaxAttempt = 3
  NeedsReply = TRUE
  Silences = TRUE
  SendMayBlock = TRUE
  Racy = FALSE
PROPERTIES NeverGivesUp SilenceDetected NoFalseAlarm CloseEndsServing StopReturns
CHECK_DEADLOCK FALSE
