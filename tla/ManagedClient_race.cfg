SPECIFICATION FairMSpec
CONSTANTS
  Timeout = 3
  MaxAttempt = 3
  NeedsReply = TRUE
  Silences = FALSE
  SendMayBlock = FALSE
  Racy = TRUE
INVARIANT NoPanic
CHECK_DEADLOCK FALSE
