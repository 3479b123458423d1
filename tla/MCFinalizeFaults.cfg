SPECIFICATION Spec
CONSTANTS
  Chats = {a, b}
  Nodes = {b}
  Silent = {b}
  Troubles = {"fault", "crash", "cancel"}
  MaxFaults = 1
  MaxStops = 1
CHECK_DEADLOCK FALSE
INVARIANTS TypeOK ExportedIsComplete ResultKept
PROPERTY DurableSticks
