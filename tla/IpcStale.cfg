CONSTANTS
  NumSessions = 1
  MaxPackets = 1
  MaxSignals = 1
  MaxReplies = 1
  EmptyPopIsTrue = FALSE
  CallbacksShutDown = FALSE
SPECIFICATION Spec
INVARIANT NoUseAfterFree
CHECK_DEADLOCK FALSE
