SPECIFICATION FairSpec
CONSTANTS
  h1 = h1
  h2 = h2
  k = k
  none = none
  NoRow = none
  Heads = {h1, h2}
  Evidence = {k}
  Revisions = {0, 1}
  PostLimit = 2
  ReadLimit = 1
  MaxEvents = 2
  MaxStops = 1
INVARIANTS PostedOnce OutcomeTrue
PROPERTIES ImplementsOutbox ReportIsCurrent NoRerunUnasked OutboxSettles
CHECK_DEADLOCK FALSE
