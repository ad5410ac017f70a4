CONSTANTS
  NumSessions = 1
  MaxPackets = 1
  MaxSignals = 1
  MaxReplies = 1
  EmptyPopIsTrue = TRUE
  CallbacksShutDown = FALSE
SPECIFICATION Spec
INVARIANT GotIsSent
CHECK_DEADLOCK FALSE
