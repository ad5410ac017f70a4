CONSTANTS
  NumSessions = 2
  MaxPackets = 1
  MaxSignals = 0
  MaxReplies = 0
  EmptyPopIsTrue = FALSE
  CallbacksShutDown = FALSE
SPECIFICATION UpdatingSpec
PROPERTIES WaitReturns EndedIsDropped
CHECK_DEADLOCK FALSE
