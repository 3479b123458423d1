SPECIFICATION Spec
CONSTANTS
  Chats = {a, b}
  Nodes = {b}
  Silent = {}
  Troubles = {"shutdown"}
  MaxFaults = 0
  MaxStops = 1
CHECK_DEADLOCK FALSE
INVARIANT OneAnswer
