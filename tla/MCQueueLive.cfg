SPECIFICATION FairSpec
CONSTANTS
  MaxEvents = 2
  MaxIterations = 1
  MaxCrashes = 1
  Allowed = TRUE
  Requests = {"look", "steer"}
CHECK_DEADLOCK FALSE
PROPERTIES PendingServed ProcessingSettles
PROPERTY ImplementsLedger
