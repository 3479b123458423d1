CONSTANTS
  c1 = c1
  c2 = c2
  w1 = w1
  w2 = w2
  Conv = {c1, c2}
  Worker = {w1, w2}
  Transition = {"started", "review", "merged"}
  Serves <- MCServes
  Later = {c2}
  Merged = {c1}
  Parked = {"parked"}
  Nobody = Nobody
  MaxChanges = 1
  MaxFaults = 1
  MaxCrashes = 1
SPECIFICATION FairSpec
INVARIANTS TypeOK OneInHand
PROPERTIES ClosedWhenResolved DoubtIsRead 
CHECK_DEADLOCK FALSE
