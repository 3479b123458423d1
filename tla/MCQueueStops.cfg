SPECIFICATION Spec
CONSTANTS
  MaxEvents = 2
  MaxIterations = 1
  MaxCrashes = 1
  Allowed = FALSE
  Requests = {"cancel", "disconnect", "kill"}
CHECK_DEADLOCK FALSE
INVARIANTS TypeOK SingleFlight CancelQuiesces ChatAgrees
