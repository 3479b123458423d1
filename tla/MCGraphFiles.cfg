CONSTANTS
  g1 = g1
  g2 = g2
  a = a
  b = b
  c = c
  h1 = h1
  h2 = h2
  x = x
  f = f
  Graph = {g1, g2}
  Plan = {a, b, c}
  Halves = {}
  Fixes = {}
  GraphOf <- FilesGraphOf
  PlanDeps <- FilesPlanDeps
  Files <- FilesFiles
  Idempotent = {a}
  Nobody = Nobody
  Tope = 2
  Attempts = 1
  MaxTurns = 3
  Verifier = FALSE
  Outcomes = {"ok", "ask"}
  MaxDecisions = 2
  MaxStops = 1
  MaxCrashes = 0
SPECIFICATION FairSpec
 
PROPERTIES LoopEnds
CHECK_DEADLOCK FALSE
