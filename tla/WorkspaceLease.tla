--------------------------- MODULE WorkspaceLease ---------------------------
(***************************************************************************)
(* The in-memory reservation of a working tree (coordination.py): one      *)
(* reference-counted lease per workspace key, taken by the HTTP handlers   *)
(* (409 when busy) and by the durable queue (which waits), inherited by    *)
(* the background tasks a holder starts.                                   *)
(*                                                                         *)
(* A task's `_current` context variable is a copy of its creator's, so it  *)
(* may name a lease that is already over: `ctx` keeps such stale values.   *)
(***************************************************************************)
EXTENDS Naturals, FiniteSets

CONSTANTS Task,     \* asyncio tasks (HTTP handlers and background tasks)
          Key,      \* workspace keys (normalised repository paths)
          NoLease, NoKey

ASSUME NoneAssumption == NoLease \notin Task /\ NoKey \notin Key
ASSUME TaskAssumption == IsFiniteSet(Task)

\* A task acquires at most one lease in its life, so the lease object is named
\* after the task that created it.
Lease == Task

VARIABLES registry, \* db._workspace_leases: Key -> Lease or NoLease
          refs,     \* Lease.refs
          keyOf,    \* Lease.key, NoKey while the object does not exist
          over,     \* leases whose `done` event is set
          pc,       \* life of each task
          ctx,      \* value of the `_current` context variable in each task
          want,     \* key a task of spawn_workspace asked for
          waitOn,   \* lease whose `done` event the task awaits
          owns,     \* whether the task's `finally` still has its lease to release
          holds     \* lease released by the task's done-callback

vars == <<registry, refs, keyOf, over, pc, ctx, want, waitOn, owns, holds>>
leaseVars == <<registry, refs, keyOf, over>>

PC == {"new", "waiting", "running", "ended", "gone"}

LeaseTypeOK ==
  /\ registry \in [Key -> Lease \union {NoLease}]
  /\ refs \in [Lease -> Nat]
  /\ keyOf \in [Lease -> Key \union {NoKey}]
  /\ over \subseteq Lease

TypeOK ==
  /\ LeaseTypeOK
  /\ pc \in [Task -> PC]
  /\ ctx \in [Task -> Lease \union {NoLease}]
  /\ want \in [Task -> Key \union {NoKey}]
  /\ waitOn \in [Task -> Lease \union {NoLease}]
  /\ owns \in [Task -> BOOLEAN]
  /\ holds \in [Task -> Lease \union {NoLease}]

Init ==
  /\ registry = [k \in Key |-> NoLease]
  /\ refs = [l \in Lease |-> 0]
  /\ keyOf = [l \in Lease |-> NoKey]
  /\ over = {}
  /\ pc = [t \in Task |-> "new"]
  /\ ctx = [t \in Task |-> NoLease]
  /\ want = [t \in Task |-> NoKey]
  /\ waitOn = [t \in Task |-> NoLease]
  /\ owns = [t \in Task |-> FALSE]
  /\ holds = [t \in Task |-> NoLease]

-----------------------------------------------------------------------------
Busy(k) == registry[k] # NoLease

\* A context value that still reserves its key.
Live(l) == l # NoLease /\ l \notin over

\* Mutant of Acquire: the key is not looked up before it is overwritten.
AcquireUnchecked(l, k) ==
  /\ keyOf[l] = NoKey
  /\ keyOf' = [keyOf EXCEPT ![l] = k]
  /\ refs' = [refs EXCEPT ![l] = 1]
  /\ registry' = [registry EXCEPT ![k] = l]
  /\ UNCHANGED over

\* acquire(): raises WorkspaceBusy unless the key is free, else a new Lease.
Acquire(l, k) ==
  /\ ~Busy(k)
  /\ keyOf[l] = NoKey
  /\ keyOf' = [keyOf EXCEPT ![l] = k]
  /\ refs' = [refs EXCEPT ![l] = 1]
  /\ registry' = [registry EXCEPT ![k] = l]
  /\ UNCHANGED over

\* Mutant of Release: frees the key with a child's reference outstanding.
ReleaseEarly(l) ==
  /\ refs' = [refs EXCEPT ![l] = @ - 1]
  /\ IF refs[l] <= 2
     THEN /\ registry' = [registry EXCEPT ![keyOf[l]] = NoLease]
          /\ over' = over \union {l}
     ELSE UNCHANGED <<registry, over>>
  /\ UNCHANGED keyOf

\* Lease.release(): the last reference frees the key and wakes the waiters.
Release(l) ==
  /\ refs' = [refs EXCEPT ![l] = @ - 1]
  /\ IF refs[l] = 1
     THEN /\ registry' = [registry EXCEPT ![keyOf[l]] = NoLease]
          /\ over' = over \union {l}
     ELSE UNCHANGED <<registry, over>>
  /\ UNCHANGED keyOf

\* Lease.hold(): one more reference, dropped by the task's done-callback.
Hold(l) ==
  /\ refs' = [refs EXCEPT ![l] = @ + 1]
  /\ UNCHANGED <<registry, keyOf, over>>

\* Contexts from which a task may be created: a running task's or the loop's.
Contexts == {ctx[t] : t \in {u \in Task : pc[u] = "running"}} \union {NoLease}

-----------------------------------------------------------------------------
\* guard_workspace: the handler runs under the lease it acquired at once.
Handler(t, k) ==
  /\ pc[t] = "new"
  /\ Acquire(t, k)
  /\ pc' = [pc EXCEPT ![t] = "running"]
  /\ ctx' = [ctx EXCEPT ![t] = t]
  /\ owns' = [owns EXCEPT ![t] = TRUE]
  /\ UNCHANGED <<want, waitOn, holds>>

\* guard_workspace answers 409 workspace_busy: the handler never runs.
HandlerBusy(t, k) ==
  /\ pc[t] = "new"
  /\ Busy(k)
  /\ pc' = [pc EXCEPT ![t] = "gone"]
  /\ UNCHANGED <<leaseVars, ctx, want, waitOn, owns, holds>>

\* Mutant of HoldCurrent: the context's lease is not checked to be alive.
HoldStale(t, c) ==
  /\ pc[t] = "new"
  /\ pc' = [pc EXCEPT ![t] = "running"]
  /\ ctx' = [ctx EXCEPT ![t] = c]
  /\ IF c # NoLease
     THEN Hold(c) /\ holds' = [holds EXCEPT ![t] = c]
     ELSE UNCHANGED <<leaseVars, holds>>
  /\ UNCHANGED <<want, waitOn, owns>>

\* hold_current(create_task(..)): the child inherits a lease that is alive.
HoldCurrent(t, c) ==
  /\ pc[t] = "new"
  /\ pc' = [pc EXCEPT ![t] = "running"]
  /\ ctx' = [ctx EXCEPT ![t] = c]
  /\ IF Live(c)
     THEN Hold(c) /\ holds' = [holds EXCEPT ![t] = c]
     ELSE UNCHANGED <<leaseVars, holds>>
  /\ UNCHANGED <<want, waitOn, owns>>

\* _spawn_bg(.., hold_workspace=False): context copied, nothing reserved.
SpawnUnheld(t, c) ==
  /\ pc[t] = "new"
  /\ pc' = [pc EXCEPT ![t] = "running"]
  /\ ctx' = [ctx EXCEPT ![t] = c]
  /\ UNCHANGED <<leaseVars, want, waitOn, owns, holds>>

\* spawn_workspace: inherit the creator's live lease on the same key ...
SpawnInherit(t, k, c) ==
  /\ Live(c) /\ keyOf[c] = k
  /\ HoldCurrent(t, c)

\* ... or become a task that waits for the key.
SpawnWaiting(t, k, c) ==
  /\ pc[t] = "new"
  /\ ~(Live(c) /\ keyOf[c] = k)
  /\ pc' = [pc EXCEPT ![t] = "waiting"]
  /\ ctx' = [ctx EXCEPT ![t] = c]
  /\ want' = [want EXCEPT ![t] = k]
  /\ UNCHANGED <<leaseVars, waitOn, owns, holds>>

\* Mutant of Awake: only the first check of the key, no done event to wake it.
AwakeOnce(t) == pc[t] = "waiting" /\ waitOn[t] = NoLease

Awake(t) == pc[t] = "waiting" /\ (waitOn[t] = NoLease \/ waitOn[t] \in over)

\* The loop of run() finds the key busy and awaits that lease's done event.
WaitBusy(t) ==
  /\ Awake(t)
  /\ Busy(want[t])
  /\ waitOn' = [waitOn EXCEPT ![t] = registry[want[t]]]
  /\ UNCHANGED <<leaseVars, pc, ctx, want, owns, holds>>

\* The loop finds it free and acquires it before any other await.
WaitAcquire(t) ==
  /\ Awake(t)
  /\ Acquire(t, want[t])
  /\ pc' = [pc EXCEPT ![t] = "running"]
  /\ ctx' = [ctx EXCEPT ![t] = t]
  /\ owns' = [owns EXCEPT ![t] = TRUE]
  /\ waitOn' = [waitOn EXCEPT ![t] = NoLease]
  /\ UNCHANGED <<want, holds>>

\* A waiter is cancelled: it never started, so it only closes its coroutine.
CancelWaiting(t) ==
  /\ pc[t] = "waiting"
  /\ pc' = [pc EXCEPT ![t] = "gone"]
  /\ UNCHANGED <<leaseVars, ctx, want, waitOn, owns, holds>>

\* The body returns, fails or is cancelled: `finally` releases its own lease.
Finish(t) ==
  /\ pc[t] = "running"
  /\ pc' = [pc EXCEPT ![t] = "ended"]
  /\ IF owns[t]
     THEN Release(t) /\ owns' = [owns EXCEPT ![t] = FALSE]
     ELSE UNCHANGED <<leaseVars, owns>>
  /\ UNCHANGED <<ctx, want, waitOn, holds>>

\* Mutant of DoneCallback: the callback stays registered and runs again.
CallbackAgain(t) ==
  /\ pc[t] = "ended"
  /\ IF holds[t] # NoLease
     THEN Release(holds[t]) /\ UNCHANGED pc
     ELSE pc' = [pc EXCEPT ![t] = "gone"] /\ UNCHANGED leaseVars
  /\ UNCHANGED <<ctx, want, waitOn, owns, holds>>

\* The loop runs the done-callback that hold() added.
DoneCallback(t) ==
  /\ pc[t] = "ended"
  /\ pc' = [pc EXCEPT ![t] = "gone"]
  /\ IF holds[t] # NoLease
     THEN Release(holds[t]) /\ holds' = [holds EXCEPT ![t] = NoLease]
     ELSE UNCHANGED <<leaseVars, holds>>
  /\ UNCHANGED <<ctx, want, waitOn, owns>>

AllGone ==
  /\ \A t \in Task : pc[t] = "gone"
  /\ UNCHANGED vars

Progress(t) ==
  \/ WaitBusy(t)
  \/ WaitAcquire(t)
  \/ Finish(t)
  \/ DoneCallback(t)

Next ==
  \/ \E t \in Task :
       \/ \E k \in Key : Handler(t, k)
       \/ \E k \in Key : HandlerBusy(t, k)
       \/ \E c \in Contexts : HoldCurrent(t, c)
       \/ \E c \in Contexts : SpawnUnheld(t, c)
       \/ \E c \in Contexts, k \in Key : SpawnInherit(t, k, c)
       \/ \E c \in Contexts, k \in Key : SpawnWaiting(t, k, c)
       \/ CancelWaiting(t)
       \/ Progress(t)
  \/ AllGone

\* The event loop runs every ready task and callback, and bodies terminate.
Fairness == \A t \in Task : WF_vars(Progress(t))

Spec == Init /\ [][Next]_vars
FairSpec == Spec /\ Fairness

-----------------------------------------------------------------------------
\* The tasks that count on a lease: owners until `finally`, holders until
\* their callback.
Holders(l) == {t \in Task : (t = l /\ owns[t]) \/ holds[t] = l}

\* A task that does work in a tree under a reservation of its own.
Works(t, l) == pc[t] = "running" /\ t \in Holders(l)

\* coordination.py promises one writer per working tree: two running tasks
\* whose reservations are for the same key share one lease, and that lease is
\* the registered one, so that nobody else can acquire the key meanwhile.
OneWorkerTree ==
  \A t, u \in Task : \A l, m \in Lease :
    Works(t, l) /\ Works(u, m) /\ keyOf[l] = keyOf[m] =>
      l = m /\ registry[keyOf[l]] = l

\* Lease.refs counts exactly the tasks that still will release it: it reaches
\* zero when the last one does, never before (a tree freed under a running
\* child) and never later (a tree reserved for ever).
RefsAreHolders ==
  \A l \in Lease :
    /\ refs[l] = Cardinality(Holders(l))
    /\ refs[l] > 0 <=> keyOf[l] # NoKey /\ registry[keyOf[l]] = l
    /\ l \in over <=> keyOf[l] # NoKey /\ refs[l] = 0

\* A finished lease stays finished: no stale `_current` value, copied into a
\* task created before or after the release, can take a reference to it again.
NeverRevived == [][\A l \in over : refs'[l] = 0 /\ l \in over']_vars

\* A queued task of spawn_workspace gets the tree or is cancelled: a wake-up
\* is never lost, whatever requests overtake it.
WaiterServed == \A t \in Task : pc[t] = "waiting" ~> pc[t] # "waiting"
=============================================================================
