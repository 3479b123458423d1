----------------------- MODULE WorkspaceLeaseProofs -----------------------
(***************************************************************************)
(* For any finite set of tasks and any set of keys: reference counts are   *)
(* exact, a working tree never has two live reservations, and a finished   *)
(* lease is never taken again.                                             *)
(***************************************************************************)
EXTENDS WorkspaceLease, FiniteSetTheorems, TLAPS

\* What each stage of a task's life says of its reservations.
TaskShape ==
  \A t \in Task :
    /\ pc[t] \in {"new", "waiting"} =>
         keyOf[t] = NoKey /\ ~owns[t] /\ holds[t] = NoLease
    /\ pc[t] = "waiting" => want[t] \in Key
    /\ owns[t] => pc[t] = "running" /\ keyOf[t] # NoKey /\ holds[t] = NoLease
    /\ holds[t] # NoLease =>
         keyOf[holds[t]] # NoKey /\ pc[t] \in {"running", "ended"}
    /\ ctx[t] # NoLease => keyOf[ctx[t]] # NoKey

RegistryNamesKey ==
  \A k \in Key : registry[k] # NoLease => keyOf[registry[k]] = k

IInv == TypeOK /\ TaskShape /\ RegistryNamesKey /\ RefsAreHolders

-----------------------------------------------------------------------------
\* The tasks counting on a lease are finitely many.
LEMMA HoldersFinite ==
  ASSUME NEW l
  PROVE  IsFiniteSet(Holders(l)) /\ Cardinality(Holders(l)) \in Nat
<1>1. Holders(l) \subseteq Task
  BY DEF Holders
<1> QED
  BY <1>1, TaskAssumption, FS_Subset, FS_CardinalityType

\* A finite set grows by one with a new element.
LEMMA CountAdd ==
  ASSUME NEW S, IsFiniteSet(S), NEW x, x \notin S
  PROVE  Cardinality(S \union {x}) = Cardinality(S) + 1
  BY FS_AddElement

\* A finite set shrinks by one without one of its elements.
LEMMA CountRemove ==
  ASSUME NEW S, IsFiniteSet(S), NEW x, x \in S
  PROVE  Cardinality(S \ {x}) = Cardinality(S) - 1
  BY FS_RemoveElement

\* A lease with a holder is in use.
LEMMA HolderMeansLive ==
  ASSUME IInv, NEW l \in Lease, NEW t \in Holders(l)
  PROVE  refs[l] > 0 /\ keyOf[l] \in Key /\ registry[keyOf[l]] = l /\ l \notin over
<1>1. Cardinality(Holders(l)) # 0
  BY HoldersFinite, FS_EmptySet
<1>2. refs[l] = Cardinality(Holders(l)) /\ refs[l] \in Nat
  BY DEF IInv, RefsAreHolders, TypeOK, LeaseTypeOK
<1> QED
  BY <1>1, <1>2 DEF IInv, RefsAreHolders, TypeOK, LeaseTypeOK

-----------------------------------------------------------------------------
\* acquire() by a task that has no lease yet keeps the ledger.
LEMMA AcquireKeeps ==
  ASSUME IInv, NEW t \in Task, NEW k \in Key, Acquire(t, k),
         pc[t] \in {"new", "waiting"},
         owns' = [owns EXCEPT ![t] = TRUE], UNCHANGED holds
  PROVE  LeaseTypeOK' /\ RegistryNamesKey' /\ RefsAreHolders'
<1> USE NoneAssumption DEF Lease
<1>1. LeaseTypeOK /\ keyOf[t] = NoKey /\ registry[k] = NoLease
  BY DEF IInv, TypeOK, Acquire, Busy
<1>2. LeaseTypeOK'
  BY <1>1 DEF Acquire, LeaseTypeOK
<1>3. RegistryNamesKey'
  BY <1>1 DEF Acquire, LeaseTypeOK, RegistryNamesKey, IInv
<1>4. Holders(t) = {} /\ Holders(t)' = {t}
  BY <1>1 DEF Holders, IInv, TaskShape, TypeOK
<1>5. \A l \in Lease \ {t} : Holders(l)' = Holders(l)
  BY DEF Holders, IInv, TypeOK
<1>6. Cardinality(Holders(t)') = 1
  BY <1>4, FS_Singleton
<1>7. refs'[t] = 1 /\ keyOf'[t] = k /\ registry'[k] = t /\ over' = over
  BY <1>1 DEF Acquire, LeaseTypeOK
<1>8. t \notin over
  BY <1>1 DEF IInv, RefsAreHolders
<1>9. ASSUME NEW l \in Lease \ {t}
      PROVE  /\ refs'[l] = Cardinality(Holders(l)')
             /\ refs'[l] > 0 <=> keyOf'[l] # NoKey /\ registry'[keyOf'[l]] = l
             /\ l \in over' <=> keyOf'[l] # NoKey /\ refs'[l] = 0
  <2>1. refs'[l] = refs[l] /\ keyOf'[l] = keyOf[l]
    BY <1>1 DEF Acquire, LeaseTypeOK
  <2>2. keyOf[l] # NoKey => (registry'[keyOf[l]] = l <=> registry[keyOf[l]] = l)
    BY <1>1 DEF Acquire, LeaseTypeOK
  <2> QED
    BY <2>1, <2>2, <1>5, <1>7 DEF IInv, RefsAreHolders
<1>10. RefsAreHolders'
  BY <1>6, <1>7, <1>8, <1>9 DEF RefsAreHolders
<1> QED
  BY <1>2, <1>3, <1>10

\* Lease.hold() on a live lease, for a task that held nothing.
LEMMA HoldKeeps ==
  ASSUME IInv, NEW t \in Task, NEW c \in Lease, Hold(c), Live(c), keyOf[c] # NoKey,
         pc[t] = "new",
         holds' = [holds EXCEPT ![t] = c], UNCHANGED owns
  PROVE  LeaseTypeOK' /\ RegistryNamesKey' /\ RefsAreHolders'
<1> USE NoneAssumption DEF Lease
<1>1. LeaseTypeOK /\ ~owns[t] /\ holds[t] = NoLease /\ keyOf[t] = NoKey
  BY DEF IInv, TypeOK, TaskShape
<1>2. LeaseTypeOK' /\ RegistryNamesKey'
  BY <1>1 DEF Hold, LeaseTypeOK, RegistryNamesKey, IInv
<1>3. Holders(c)' = Holders(c) \union {t} /\ t \notin Holders(c)
  BY <1>1 DEF Holders, IInv, TypeOK
<1>4. \A l \in Lease \ {c} : Holders(l)' = Holders(l)
  BY <1>1 DEF Holders, IInv, TypeOK
<1>5. Cardinality(Holders(c)') = Cardinality(Holders(c)) + 1
  BY <1>3, HoldersFinite, CountAdd
<1>6. refs[c] > 0
  BY <1>1 DEF IInv, RefsAreHolders, Live, LeaseTypeOK
<1>7. refs'[c] = refs[c] + 1 /\ \A l \in Lease \ {c} : refs'[l] = refs[l]
  BY <1>1 DEF Hold, LeaseTypeOK
<1>8. UNCHANGED <<registry, keyOf, over>>
  BY DEF Hold
<1>9. refs \in [Lease -> Nat]
  BY <1>1 DEF LeaseTypeOK
<1> QED
  BY <1>2, <1>4, <1>5, <1>6, <1>7, <1>8, <1>9 DEF IInv, RefsAreHolders

\* Lease.release() by one of the lease's holders.
LEMMA ReleaseKeeps ==
  ASSUME IInv, NEW t \in Task, NEW c \in Lease, Release(c), t \in Holders(c),
         Holders(c)' = Holders(c) \ {t},
         \A l \in Lease \ {c} : Holders(l)' = Holders(l)
  PROVE  LeaseTypeOK' /\ RegistryNamesKey' /\ RefsAreHolders'
<1> USE NoneAssumption DEF Lease
<1>1. refs[c] > 0 /\ keyOf[c] \in Key /\ registry[keyOf[c]] = c /\ c \notin over
  BY HolderMeansLive
<1>2. LeaseTypeOK /\ refs \in [Lease -> Nat]
  BY DEF IInv, TypeOK, LeaseTypeOK
<1>3. refs'[c] = refs[c] - 1 /\ \A l \in Lease \ {c} : refs'[l] = refs[l]
  BY <1>2 DEF Release
<1>4. Cardinality(Holders(c)') = Cardinality(Holders(c)) - 1
  BY HoldersFinite, CountRemove
<1>5. refs'[c] = Cardinality(Holders(c)')
  BY <1>3, <1>4 DEF IInv, RefsAreHolders
<1>6. refs' \in [Lease -> Nat]
  BY <1>1, <1>2 DEF Release
<1>7. LeaseTypeOK' /\ RegistryNamesKey'
  BY <1>1, <1>2, <1>6 DEF Release, LeaseTypeOK, RegistryNamesKey, IInv
<1>8. ASSUME NEW l \in Lease
      PROVE  refs'[l] > 0 <=> keyOf'[l] # NoKey /\ registry'[keyOf'[l]] = l
  <2>1. keyOf' = keyOf /\ (keyOf[l] # NoKey => keyOf[l] \in Key)
    BY <1>2 DEF Release, LeaseTypeOK
  <2>2. CASE l = c
    BY <2>1, <2>2, <1>1, <1>2, <1>3 DEF Release, LeaseTypeOK
  <2>3. CASE l # c
    BY <2>1, <2>3, <1>1, <1>2, <1>3 DEF Release, LeaseTypeOK, IInv, RefsAreHolders
  <2> QED
    BY <2>2, <2>3
<1>9. ASSUME NEW l \in Lease
      PROVE  l \in over' <=> keyOf'[l] # NoKey /\ refs'[l] = 0
  <2>1. CASE l = c
    BY <2>1, <1>1, <1>2, <1>3 DEF Release, LeaseTypeOK
  <2>2. CASE l # c
    BY <2>2, <1>1, <1>2, <1>3 DEF Release, LeaseTypeOK, IInv, RefsAreHolders
  <2> QED
    BY <2>1, <2>2
<1>10. \A l \in Lease : refs'[l] = Cardinality(Holders(l)')
  BY <1>3, <1>5 DEF IInv, RefsAreHolders
<1> QED
  BY <1>7, <1>8, <1>9, <1>10 DEF RefsAreHolders

-----------------------------------------------------------------------------
\* A context in which a task is created names an existing lease or none.
LEMMA ContextExists ==
  ASSUME IInv, NEW c \in Contexts
  PROVE  c \in Lease \union {NoLease} /\ (c # NoLease => keyOf[c] # NoKey)
  BY DEF Contexts, IInv, TypeOK, TaskShape

\* hold_current keeps the invariant whatever the context names.
LEMMA HoldCurrentKeeps ==
  ASSUME IInv, NEW t \in Task, NEW c \in Contexts, HoldCurrent(t, c)
  PROVE  IInv'
<1> USE NoneAssumption DEF Lease
<1>1. c \in Lease \union {NoLease} /\ (c # NoLease => keyOf[c] # NoKey)
  BY ContextExists
<1>2. pc[t] = "new" /\ UNCHANGED <<owns, want, waitOn>>
  BY DEF HoldCurrent
<1>3. CASE Live(c)
  <2>1. Hold(c) /\ holds' = [holds EXCEPT ![t] = c] /\ c \in Lease
    BY <1>1, <1>3 DEF HoldCurrent, Live
  <2>2. LeaseTypeOK' /\ RegistryNamesKey' /\ RefsAreHolders'
    BY <2>1, <1>1, <1>2, <1>3, HoldKeeps DEF Live
  <2>3. TypeOK'
    BY <2>1, <2>2, <1>1, <1>2 DEF HoldCurrent, TypeOK, IInv, PC
  <2>4. TaskShape'
    BY <2>1, <1>1, <1>2 DEF HoldCurrent, Hold, TaskShape, TypeOK, IInv, PC
  <2> QED
    BY <2>2, <2>3, <2>4 DEF IInv
<1>4. CASE ~Live(c)
  BY <1>1, <1>2, <1>4
     DEF HoldCurrent, leaseVars, IInv, TypeOK, LeaseTypeOK, PC, TaskShape,
         RegistryNamesKey, RefsAreHolders, Holders
<1> QED
  BY <1>3, <1>4

\* Every step keeps the invariant.
LEMMA Step == IInv /\ [Next]_vars => IInv'
<1> SUFFICES ASSUME IInv, [Next]_vars PROVE IInv'
  OBVIOUS
<1> USE NoneAssumption DEF Lease
<1>1. ASSUME NEW t \in Task, NEW k \in Key, Handler(t, k) PROVE IInv'
  <2>1. /\ Acquire(t, k) /\ pc[t] = "new" /\ UNCHANGED <<want, waitOn, holds>>
        /\ owns' = [owns EXCEPT ![t] = TRUE]
    BY <1>1 DEF Handler
  <2>2. LeaseTypeOK' /\ RegistryNamesKey' /\ RefsAreHolders'
    BY <2>1, AcquireKeeps
  <2>3. TypeOK'
    BY <1>1, <2>2 DEF Handler, TypeOK, IInv, PC
  <2>4. TaskShape'
    BY <1>1, <2>1 DEF Handler, Acquire, TaskShape, TypeOK, LeaseTypeOK, IInv, PC
  <2> QED
    BY <2>2, <2>3, <2>4 DEF IInv
<1>2. ASSUME NEW t \in Task, NEW k \in Key, HandlerBusy(t, k) PROVE IInv'
  BY <1>2 DEF HandlerBusy, leaseVars, IInv, TypeOK, LeaseTypeOK, PC, TaskShape,
              RegistryNamesKey, RefsAreHolders, Holders
<1>3. ASSUME NEW t \in Task, NEW c \in Contexts, HoldCurrent(t, c) PROVE IInv'
  BY <1>3, HoldCurrentKeeps
<1>4. ASSUME NEW t \in Task, NEW c \in Contexts, SpawnUnheld(t, c) PROVE IInv'
  BY <1>4, ContextExists
     DEF SpawnUnheld, leaseVars, IInv, TypeOK, LeaseTypeOK, PC, TaskShape,
         RegistryNamesKey, RefsAreHolders, Holders
<1>5. ASSUME NEW t \in Task, NEW k \in Key, NEW c \in Contexts, SpawnInherit(t, k, c)
      PROVE IInv'
  BY <1>5, HoldCurrentKeeps DEF SpawnInherit
<1>6. ASSUME NEW t \in Task, NEW k \in Key, NEW c \in Contexts, SpawnWaiting(t, k, c)
      PROVE IInv'
  BY <1>6, ContextExists
     DEF SpawnWaiting, leaseVars, IInv, TypeOK, LeaseTypeOK, PC, TaskShape,
         RegistryNamesKey, RefsAreHolders, Holders
<1>7. ASSUME NEW t \in Task, CancelWaiting(t) PROVE IInv'
  BY <1>7 DEF CancelWaiting, leaseVars, IInv, TypeOK, LeaseTypeOK, PC, TaskShape,
              RegistryNamesKey, RefsAreHolders, Holders
<1>8. ASSUME NEW t \in Task, WaitBusy(t) PROVE IInv'
  BY <1>8 DEF WaitBusy, Awake, leaseVars, IInv, TypeOK, LeaseTypeOK, PC, TaskShape,
              RegistryNamesKey, RefsAreHolders, Holders
<1>9. ASSUME NEW t \in Task, WaitAcquire(t) PROVE IInv'
  <2>1. /\ Acquire(t, want[t]) /\ pc[t] = "waiting" /\ UNCHANGED <<want, holds>>
        /\ owns' = [owns EXCEPT ![t] = TRUE] /\ want[t] \in Key
    BY <1>9 DEF WaitAcquire, Awake, IInv, TaskShape
  <2>2. LeaseTypeOK' /\ RegistryNamesKey' /\ RefsAreHolders'
    BY <2>1, AcquireKeeps
  <2>3. TypeOK'
    BY <1>9, <2>2 DEF WaitAcquire, TypeOK, IInv, PC
  <2>4. TaskShape'
    BY <1>9, <2>1 DEF WaitAcquire, Acquire, TaskShape, TypeOK, LeaseTypeOK, IInv, PC
  <2> QED
    BY <2>2, <2>3, <2>4 DEF IInv
<1>10. ASSUME NEW t \in Task, Finish(t) PROVE IInv'
  <2>1. CASE owns[t]
    <3>1. Release(t) /\ owns' = [owns EXCEPT ![t] = FALSE] /\ UNCHANGED holds
      BY <1>10, <2>1 DEF Finish
    <3>2. t \in Holders(t) /\ holds[t] = NoLease
      BY <2>1 DEF Holders, IInv, TaskShape
    <3>3. Holders(t)' = Holders(t) \ {t}
      BY <3>1, <3>2 DEF Holders, IInv, TypeOK
    <3>4. \A l \in Lease \ {t} : Holders(l)' = Holders(l)
      BY <3>1 DEF Holders, IInv, TypeOK
    <3>5. LeaseTypeOK' /\ RegistryNamesKey' /\ RefsAreHolders'
      BY <3>1, <3>2, <3>3, <3>4, ReleaseKeeps
    <3>6. TypeOK'
      BY <1>10, <3>1, <3>5 DEF Finish, TypeOK, IInv, PC
    <3>7. TaskShape'
      BY <1>10, <3>1 DEF Finish, Release, TaskShape, TypeOK, IInv, PC
    <3> QED
      BY <3>5, <3>6, <3>7 DEF IInv
  <2>2. CASE ~owns[t]
    BY <1>10, <2>2 DEF Finish, leaseVars, IInv, TypeOK, LeaseTypeOK, PC, TaskShape,
                       RegistryNamesKey, RefsAreHolders, Holders
  <2> QED
    BY <2>1, <2>2
<1>11. ASSUME NEW t \in Task, DoneCallback(t) PROVE IInv'
  <2>1. CASE holds[t] # NoLease
    <3>0. PICK c \in Lease : c = holds[t]
      BY <2>1 DEF IInv, TypeOK
    <3>1. Release(c) /\ holds' = [holds EXCEPT ![t] = NoLease] /\ UNCHANGED owns
      BY <1>11, <2>1, <3>0 DEF DoneCallback
    <3>2. c \in Lease /\ t \in Holders(c) /\ ~owns[t]
      BY <1>11, <2>1, <3>0 DEF DoneCallback, Holders, IInv, TaskShape, TypeOK
    <3>3. Holders(c)' = Holders(c) \ {t}
      BY <3>0, <3>1, <3>2 DEF Holders, IInv, TypeOK
    <3>4. \A l \in Lease \ {c} : Holders(l)' = Holders(l)
      BY <3>0, <3>1, <3>2 DEF Holders, IInv, TypeOK
    <3>5. LeaseTypeOK' /\ RegistryNamesKey' /\ RefsAreHolders'
      BY <3>1, <3>2, <3>3, <3>4, ReleaseKeeps
    <3>6. TypeOK'
      BY <1>11, <3>1, <3>5 DEF DoneCallback, TypeOK, IInv, PC
    <3>7. TaskShape'
      BY <1>11, <3>0, <3>1 DEF DoneCallback, Release, TaskShape, TypeOK, IInv, PC
    <3> QED
      BY <3>5, <3>6, <3>7 DEF IInv
  <2>2. CASE holds[t] = NoLease
    BY <1>11, <2>2 DEF DoneCallback, leaseVars, IInv, TypeOK, LeaseTypeOK, PC,
                       TaskShape, RegistryNamesKey, RefsAreHolders, Holders
  <2> QED
    BY <2>1, <2>2
<1>12. CASE UNCHANGED vars
  BY <1>12 DEF vars, IInv, TypeOK, LeaseTypeOK, PC, TaskShape,
               RegistryNamesKey, RefsAreHolders, Holders
<1> QED
  BY <1>1, <1>2, <1>3, <1>4, <1>5, <1>6, <1>7, <1>8, <1>9, <1>10, <1>11, <1>12
     DEF Next, Progress, AllGone

\* The initial state satisfies the invariant.
LEMMA Start == Init => IInv
<1> SUFFICES ASSUME Init PROVE IInv
  OBVIOUS
<1>1. \A l \in Lease : Holders(l) = {}
  BY NoneAssumption DEF Init, Holders, Lease
<1> QED
  BY <1>1, FS_EmptySet
     DEF Init, IInv, TypeOK, LeaseTypeOK, PC, TaskShape, RegistryNamesKey,
         RefsAreHolders, Lease

\* The inductive invariant holds in every reachable state.
THEOREM Invariance == Spec => []IInv
  BY Start, Step, PTL DEF Spec

\* Reservations and task records stay well typed: in particular no reference
\* count ever goes below zero.
THEOREM TypeCorrect == Spec => []TypeOK
<1>1. IInv => TypeOK
  BY DEF IInv
<1> QED
  BY <1>1, Invariance, PTL

\* Lease.refs always equals the number of tasks that still will release it.
THEOREM ExactReferences == Spec => []RefsAreHolders
<1>1. IInv => RefsAreHolders
  BY DEF IInv
<1> QED
  BY <1>1, Invariance, PTL

\* One worker tree per key: coordination.py's mutual exclusion, for any number
\* of tasks and of working trees.
THEOREM Exclusion == Spec => []OneWorkerTree
<1>1. ASSUME IInv PROVE OneWorkerTree
  BY <1>1, HolderMeansLive DEF OneWorkerTree, Works
<1> QED
  BY <1>1, Invariance, PTL

\* No step takes a reference to a lease that is over.
THEOREM NotRevived == Spec => NeverRevived
<1>1. ASSUME IInv, [Next]_vars, IInv'
      PROVE [\A l \in over : refs'[l] = 0 /\ l \in over']_vars
  <2>1. ASSUME NEW l \in over PROVE refs'[l] = 0 /\ l \in over'
    <3>1. over \subseteq over'
      BY <1>1 DEF Next, Progress, AllGone, vars, leaseVars, Handler, HandlerBusy,
                  HoldCurrent, SpawnUnheld, SpawnInherit, SpawnWaiting, WaitBusy,
                  WaitAcquire, CancelWaiting, Finish, DoneCallback, Acquire,
                  Release, Hold
    <3>2. l \in Lease
      BY <1>1 DEF IInv, TypeOK, LeaseTypeOK
    <3> QED
      BY <1>1, <3>1, <3>2 DEF IInv, RefsAreHolders
  <2> QED
    BY <2>1
<1> QED
  BY <1>1, Invariance, PTL DEF Spec, NeverRevived
=============================================================================
