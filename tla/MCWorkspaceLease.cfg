SPECIFICATION FairSpec
CONSTANTS
  Task = {t1, t2, t3}
  Key = {k1, k2}
  NoLease = NoLease
  NoKey = NoKey
INVARIANTS TypeOK OneWorkerTree RefsAreHolders
PROPERTIES NeverRevived WaiterServed
