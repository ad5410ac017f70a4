CONSTANTS
  NumSessions = 2
  MaxPackets = 1
  MaxSignals = 1
  MaxReplies = 1
  EmptyPopIsTrue = FALSE
  CallbacksShutDown = TRUE
SPECIFICATION Spec
INVARIANTS  DeliveredInOrder
PROPERTY OnlyPathIsLeft
CHECK_DEADLOCK FALSE
