CONSTANTS
  g1 = g1
  g2 = g2
  a = a
  b = b
  c = c
  h1 = h1
  h2 = h2
  x = x
  f = f
  Graph = {g1}
  Plan = {a, b}
  Halves = {h1, h2}
  Fixes = {x}
  GraphOf <- LifeGraphOf
  PlanDeps <- LifePlanDeps
  Files <- LifeFiles
  Idempotent = {a}
  Nobody = Nobody
  Tope = 1
  Attempts = 2
  MaxTurns = 4
  Verifier = TRUE
  Outcomes = {"ok","ask"}
  MaxDecisions = 2
  MaxStops = 0
  MaxCrashes = 0
SPECIFICATION Spec
INVARIANTS WaitingIsAsked
CHECK_DEADLOCK FALSE
