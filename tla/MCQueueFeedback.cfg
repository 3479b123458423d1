SPECIFICATION Spec
CONSTANTS
  MaxEvents = 2
  MaxIterations = 1
  MaxCrashes = 0
  Allowed = FALSE
  Requests = {"publish", "track", "cancel", "continue", "pause"}
CHECK_DEADLOCK FALSE
INVARIANT FifoOrder
PROPERTIES  StopSticks
