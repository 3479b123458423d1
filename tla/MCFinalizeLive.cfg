SPECIFICATION FairSpec
CONSTANTS
  Chats = {a}
  Nodes = {}
  Silent = {}
  Troubles = {"fault", "crash", "shutdown"}
  MaxFaults = 2
  MaxStops = 2
CHECK_DEADLOCK FALSE
PROPERTY ExportEnds
