CONSTANTS
  g1 = g1
  g2 = g2
  a = a
  b = b
  c = c
  h1 = h1
  h2 = h2
  x = x
  f = f
  Graph = {g1}
  Plan = {a, b}
  Halves = {h1, h2}
  Fixes = {x}
  GraphOf <- LifeGraphOf
  PlanDeps <- LifePlanDeps
  Files <- LifeFiles
  Idempotent = {a}
  Nobody = Nobody
  Tope = 1
  Attempts = 2
  MaxTurns = 3
  Verifier = TRUE
  Outcomes = {"ok", "budget", "split", "broken"}
  MaxDecisions = 2
  MaxStops = 1
  MaxCrashes = 1
SPECIFICATION Spec
INVARIANTS TypeOK AttemptsPaid QuietWhenOff  ClosedVerified
PROPERTIES StoppedAdmitsNone NoBlindRepeat
CHECK_DEADLOCK FALSE
SYMMETRY Alike
