-------------------------- MODULE IssueSyncProofs --------------------------
(***************************************************************************)
(* What holds of IssueSync for every value of its constants: the types, at *)
(* most one effect of the issue in execution and in one pair of hands, no  *)
(* closure that its conversations do not stand for, and no outcome in      *)
(* doubt that is discarded unread.                                         *)
(***************************************************************************)
EXTENDS IssueSync, FiniteSetTheorems, WellFoundedInduction, SequenceTheorems, TLAPS

\* The places where a worker has an event in hand.
Hand == {"guard", "recheck", "send", "patch", "confirm", "reread"}

Holding(w) ==
  /\ wk[w].at \notin Hand => wk[w].id = 0
  /\ wk[w].at \in Hand => wk[w].id \in Ids /\ Mine(w).state = "processing" /\ Mine(w).reads < 3

\* One event in execution, one worker with an event, and each has the other.
Hands ==
  /\ \A i, j \in Ids : event[i].state = "processing" /\ event[j].state = "processing" => i = j
  /\ \A v, w \in Worker : wk[v].at \in Hand /\ wk[w].at \in Hand => v = w
  /\ \A i \in Ids : event[i].state = "processing" => \E w \in Worker : wk[w].id = i

\* Only the stage "merged" asks for the issue to be closed, and the board is to show the stage.
Kind(e) == IF e.target = "issue" THEN e.tr = "merged" /\ e.value = "closed" ELSE e.value = e.tr
Kinds == \A i \in Ids : Kind(event[i])

\* An observation that allows effects has read the board.
Seen(w) ==
  wk[w].at = "record" /\ wk[w].on /\ ~Gated(wk[w].seen, wk[w].issue) => wk[w].board # "none"

\* What the guard read of a closure stands until its worker lets go: a declared conversation and
\* a link are frozen by the event in execution, and a merged pull request stays merged.
Firm(w) ==
  wk[w].at \in {"recheck", "send", "patch", "confirm"} /\ Mine(w).tr = "merged"
    => Resolved(Mine(w).conv \in declared, Dependencies)

\* A refresh is of a conversation.
Called(w) == wk[w].at # "idle" => wk[w].conv \in Conv

Knows(w) == Holding(w) /\ Seen(w) /\ Firm(w) /\ Called(w)
Rest == Hands /\ Kinds /\ \A w \in Worker : Knows(w)
IInv == TypeOK /\ Rest

-----------------------------------------------------------------------------
(* Events and refreshes keep their shape.                                     *)

LEMMA IdsAre ==
  ASSUME TypeOK
  PROVE  /\ Ids = 1..Len(event) /\ Len(event) \in Nat /\ 0 \notin Ids
         /\ \A i \in Ids : event[i] \in Event
<1>1. event \in Seq(Event)
  BY DEF TypeOK
<1>2. Ids = 1..Len(event) /\ Len(event) \in Nat
  BY <1>1, LenProperties DEF Ids
<1>3. \A i \in Ids : event[i] \in Event
  BY <1>1, <1>2, ElementOfSeq
<1>. QED
  BY <1>2, <1>3

\* A function on the ids that maps them to events is the outbox again.
LEMMA Mapped ==
  ASSUME TypeOK, NEW f, DOMAIN f = Ids, f = [i \in Ids |-> f[i]], \A i \in Ids : f[i] \in Event
  PROVE  f \in Seq(Event)
<1>1. f \in [1..Len(event) -> Event] /\ Len(event) \in Nat
  BY IdsAre
<1>. QED
  BY <1>1, SeqDef

LEMMA Marked ==
  ASSUME TypeOK, NEW i \in Ids, NEW e \in Event
  PROVE  /\ [event EXCEPT ![i] = e] \in Seq(Event)
         /\ DOMAIN [event EXCEPT ![i] = e] = Ids
         /\ \A j \in Ids : [event EXCEPT ![i] = e][j] = IF j = i THEN e ELSE event[j]
<1>1. event \in Seq(Event) /\ i \in 1..Len(event)
  BY IdsAre DEF TypeOK
<1>. QED
  BY <1>1, ExceptSeq DEF Ids

LEMMA DependenciesSame ==
  ASSUME UNCHANGED <<pr, linked>>
  PROVE  Dependencies' = Dependencies
BY DEF Dependencies

-----------------------------------------------------------------------------
(* What a step does to a worker and to the outbox.                            *)

Same(v) ==
  /\ wk'[v].at = wk[v].at /\ wk'[v].id = wk[v].id /\ wk'[v].on = wk[v].on
  /\ wk'[v].conv = wk[v].conv
  /\ wk'[v].seen = wk[v].seen /\ wk'[v].issue = wk[v].issue /\ wk'[v].board = wk[v].board

\* It moves with no event in hand, or goes on with the one it has.
Free(v) == wk[v].at \notin Hand /\ wk'[v].at \notin Hand /\ wk'[v].id = 0
           /\ Seen(v)' /\ Called(v)'
Inner(v) == wk[v].at \in Hand /\ wk'[v].at \in Hand /\ wk'[v].id = wk[v].id
            /\ wk'[v].conv = wk[v].conv /\ Firm(v)'

Alike(i) ==
  /\ event'[i].conv = event[i].conv /\ event'[i].target = event[i].target
  /\ event'[i].tr = event[i].tr /\ event'[i].value = event[i].value

\* No event enters execution or leaves it.
Grown ==
  /\ Ids \subseteq Ids'
  /\ \A i \in Ids :
       /\ Alike(i) /\ (event'[i].state = "processing" <=> event[i].state = "processing")
       /\ event[i].state = "processing" => event'[i].reads = event[i].reads
  /\ \A i \in Ids' \ Ids :
       event'[i].state # "processing" /\ Kind(event'[i])

LEMMA Steady ==
  ASSUME IInv, UNCHANGED <<pr, linked, declared>>, Grown,
         \A v \in Worker : Same(v) \/ Free(v) \/ Inner(v)
  PROVE  Rest'
<1>1. \A v \in Worker : wk'[v].id = wk[v].id /\ (wk'[v].at \in Hand <=> wk[v].at \in Hand)
  BY DEF IInv, Rest, Knows, Holding, Same, Free, Inner
<1>2. Hands'
  BY <1>1 DEF IInv, Rest, Hands, Grown
<1>3. Kinds'
  BY DEF IInv, Rest, Kinds, Kind, Grown, Alike
<1>4. ASSUME NEW v \in Worker
      PROVE  Holding(v)'
  BY <1>1 DEF IInv, Rest, Knows, Holding, Mine, Grown
<1>5. ASSUME NEW v \in Worker
      PROVE  Seen(v)'
  <2>1. CASE Same(v)
    BY <2>1 DEF IInv, Rest, Knows, Seen, Same, Gated, Resolved
  <2>2. CASE Inner(v)
    BY <2>2 DEF Inner, Hand, Seen
  <2>. QED
    BY <2>1, <2>2 DEF Free
<1>6. ASSUME NEW v \in Worker
      PROVE  Firm(v)'
  <2>1. CASE Same(v)
    <3>1. SUFFICES ASSUME wk'[v].at \in {"recheck", "send", "patch", "confirm"},
                          Mine(v)'.tr = "merged"
                   PROVE  Resolved(Mine(v).conv \in declared, Dependencies)'
      BY DEF Firm
    <3>2. wk[v].at \in {"recheck", "send", "patch", "confirm"} /\ wk[v].id \in Ids
      BY <2>1, <3>1 DEF Same, IInv, Rest, Knows, Holding, Hand
    <3>3. Mine(v)'.tr = Mine(v).tr /\ Mine(v)'.conv = Mine(v).conv
      BY <2>1, <3>2 DEF Same, Mine, Grown, Alike
    <3>4. Resolved(Mine(v).conv \in declared, Dependencies)
      BY <3>1, <3>2, <3>3 DEF IInv, Rest, Knows, Firm
    <3>. QED
      BY <3>3, <3>4, DependenciesSame DEF Resolved
  <2>2. CASE Free(v)
    BY <2>2 DEF Free, Firm, Hand
  <2>. QED
    BY <2>1, <2>2 DEF Inner
<1>7. \A v \in Worker : Called(v)'
  BY DEF IInv, Rest, Knows, Called, Same, Free, Inner, Hand
<1>. QED
  BY <1>2, <1>3, <1>4, <1>5, <1>6, <1>7 DEF Rest, Knows

\* A worker lets go of its event, which leaves execution.
LEMMA LetsGo ==
  ASSUME IInv, UNCHANGED <<pr, linked, declared>>,
         NEW w \in Worker, wk[w].at \in Hand,
         wk'[w].at \notin Hand \union {"record"}, wk'[w].id = 0,
         wk'[w].at # "idle" => wk'[w].conv = wk[w].conv,
         \A v \in Worker \ {w} : wk'[v] = wk[v],
         Ids' = Ids, \A i \in Ids : Alike(i),
         \A i \in Ids \ {wk[w].id} : event'[i] = event[i],
         event'[wk[w].id].state # "processing"
  PROVE  Rest'
<1>1. wk[w].id \in Ids /\ event[wk[w].id].state = "processing"
  BY DEF IInv, Rest, Knows, Holding, Mine
<1>2. \A i \in Ids' : event'[i].state # "processing"
  BY <1>1 DEF IInv, Rest, Hands
<1>3. \A v \in Worker \ {w} : wk[v].at \notin Hand /\ wk[v].id = 0
  BY DEF IInv, Rest, Hands, Knows, Holding
<1>4. Hands' /\ Kinds'
  BY <1>2, <1>3 DEF Hands, IInv, Rest, Kinds, Kind, Alike
<1>5. \A v \in Worker : Holding(v)' /\ Firm(v)'
  BY <1>3 DEF Holding, Firm, Hand
<1>6. \A v \in Worker : Seen(v)'
  BY <1>3 DEF IInv, Rest, Knows, Seen, Gated, Resolved
<1>7. \A v \in Worker : Called(v)'
  BY DEF IInv, Rest, Knows, Called, Hand
<1>. QED
  BY <1>4, <1>5, <1>6, <1>7 DEF Rest, Knows

\* A worker takes an event while none is in execution.
LEMMA Takes ==
  ASSUME IInv, UNCHANGED <<pr, linked, declared>>,
         NEW w \in Worker, wk'[w].at \in {"guard", "reread"},
         \A v \in Worker \ {w} : wk'[v] = wk[v],
         wk[w].at \notin Hand \union {"idle"}, wk'[w].conv = wk[w].conv,
         wk'[w].id \in Ids, event[wk'[w].id].reads < 3,
         event[wk'[w].id].state # "processing", Clear(wk'[w].id),
         Ids' = Ids, \A i \in Ids : Alike(i),
         \A i \in Ids \ {wk'[w].id} : event'[i] = event[i],
         event'[wk'[w].id].state = "processing",
         event'[wk'[w].id].reads = event[wk'[w].id].reads
  PROVE  Rest'
<1>1. \A i \in Ids : event[i].state # "processing"
  BY DEF Clear
<1>2. \A v \in Worker : wk[v].at \notin Hand /\ wk[v].id = 0
  BY <1>1 DEF IInv, Rest, Knows, Holding, Mine
<1>3. Hands' /\ Kinds'
  BY <1>1, <1>2 DEF Hands, IInv, Rest, Kinds, Kind, Alike
<1>4. \A v \in Worker : Holding(v)' /\ Firm(v)'
  BY <1>2 DEF Holding, Firm, Hand, Mine
<1>5. \A v \in Worker : Seen(v)'
  BY <1>2 DEF IInv, Rest, Knows, Seen, Gated, Resolved
<1>6. \A v \in Worker : Called(v)'
  BY DEF IInv, Rest, Knows, Called, Hand
<1>. QED
  BY <1>3, <1>4, <1>5, <1>6 DEF Rest, Knows

-----------------------------------------------------------------------------
(* The types of what the actions write.                                       *)

LEMMA IdleType == Unplanned \in Fingerprint /\ Idle \in Refresh
<1>1. Unplanned \in Fingerprint
  BY SyncAssumption DEF Unplanned, Fingerprint
<1>. QED
  BY <1>1 DEF Idle, Refresh, Place, Issue, State

LEMMA PlaceType ==
  ASSUME NEW r \in Refresh, NEW p \in Place
  PROVE  /\ [r EXCEPT !.at = p] \in Refresh
         /\ [r EXCEPT !.at = p].id = r.id /\ [r EXCEPT !.at = p].at = p
         /\ [r EXCEPT !.at = p].conv = r.conv
BY DEF Refresh

LEMMA FreshType ==
  ASSUME NEW r \in Refresh
  PROVE  /\ [r EXCEPT !.at = "observe", !.fresh = TRUE] \in Refresh
         /\ [r EXCEPT !.at = "observe", !.fresh = TRUE].id = r.id
         /\ [r EXCEPT !.at = "observe", !.fresh = TRUE].at = "observe"
         /\ [r EXCEPT !.at = "observe", !.fresh = TRUE].conv = r.conv
BY DEF Refresh, Place

Saw(r, f, i, b) == [r EXCEPT !.at = "record", !.seen = f, !.issue = i, !.board = b]

LEMMA SawType ==
  ASSUME NEW r \in Refresh, NEW f \in Fingerprint, NEW i \in Issue,
         NEW b \in Board \union {"none"}
  PROVE  /\ Saw(r, f, i, b) \in Refresh
         /\ Saw(r, f, i, b).id = r.id /\ Saw(r, f, i, b).at = "record"
         /\ Saw(r, f, i, b).conv = r.conv /\ Saw(r, f, i, b).on = r.on
         /\ Saw(r, f, i, b).seen = f /\ Saw(r, f, i, b).issue = i /\ Saw(r, f, i, b).board = b
BY DEF Saw, Refresh, Place

LEMMA MembershipType == \A x, S : (x \in S) \in BOOLEAN
OBVIOUS

LEMMA DependenciesType ==
  ASSUME TypeOK
  PROVE  Dependencies \in SUBSET (Conv \X BOOLEAN)
<1>1. \A c \in linked : c \in Conv /\ <<c, pr[c] = "merged">> \in Conv \X BOOLEAN
  BY Zenon DEF TypeOK
<1>. QED
  BY <1>1 DEF Dependencies

LEMMA TargetType ==
  ASSUME TypeOK, NEW e \in Event
  PROVE  e.target \in Target /\ e.state \in State /\ e.attempts \in 0..3 /\ e.reads \in 0..3
         /\ e.conv \in Conv /\ e.tr \in Transition
BY DEF Event

LEMMA CalledType ==
  ASSUME NEW c \in Conv, NEW on \in BOOLEAN, NEW done \in BOOLEAN, NEW round \in 0..3
  PROVE  [Idle EXCEPT !.at = "baseline", !.conv = c, !.on = on, !.done = done, !.round = round]
           \in Refresh
BY IdleType DEF Refresh, Place

\* A refresh that keeps its conversation, or none, is one again wherever it goes.
LEMMA StoredType ==
  ASSUME TypeOK, NEW w \in Worker, NEW row \in Stream, NEW next \in Refresh, Stored(w, row, next),
         wk[w].conv \in Conv
  PROVE  /\ stream' \in [Conv -> Stream] /\ wk' \in [Worker -> Refresh]
         /\ wk'[w] = next
         /\ \A v \in Worker \ {w} : wk'[v].id = wk[v].id /\ Same(v)
<1>1. stream' \in [Conv -> Stream]
  BY DEF TypeOK, Stored
<1>2. \A v \in Worker : wk[v] \in Refresh /\ [wk[v] EXCEPT !.fresh = FALSE] \in Refresh
  BY DEF TypeOK, Refresh
<1>3. wk' \in [Worker -> Refresh]
  BY <1>2 DEF Stored
<1>4. \A v \in Worker \ {w} : wk'[v] \in {wk[v], [wk[v] EXCEPT !.fresh = FALSE]}
  BY Zenon DEF Stored
<1>5. \A v \in Worker \ {w} : wk'[v].id = wk[v].id /\ Same(v)
  BY <1>2, <1>4 DEF Same, Refresh
<1>. QED
  BY <1>1, <1>3, <1>5 DEF Stored

\* Only the workers and the outbox change.
LEMMA WorkersType ==
  ASSUME TypeOK, UNCHANGED <<peopleVars, stream>>,
         wk' \in [Worker -> Refresh], \A v \in Worker : wk'[v].id \in Ids' \union {0},
         event' \in Seq(Event), faults' \in 0..MaxFaults, crashes' \in 0..MaxCrashes
  PROVE  TypeOK'
BY DEF TypeOK, peopleVars, factVars, Ids

LEMMA Frozen ==
  ASSUME UNCHANGED event
  PROVE  Ids' = Ids /\ \A i \in Ids : Alike(i) /\ event'[i] = event[i]
BY DEF Ids, Alike

LEMMA FrozenGrown ==
  ASSUME UNCHANGED event
  PROVE  Grown
BY Frozen DEF Grown

\* A worker moves with nothing in hand and the outbox is left alone.
LEMMA Strolls ==
  ASSUME IInv, NEW w \in Worker, UNCHANGED <<peopleVars, stream, event>>,
         NEW next \in Refresh, wk' = [wk EXCEPT ![w] = next], next.id = 0,
         next.at # "idle" => next.conv \in Conv,
         wk[w].at \notin Hand, next.at \notin Hand, Seen(w)',
         faults' \in 0..MaxFaults, crashes' \in 0..MaxCrashes
  PROVE  IInv'
<1>1. TypeOK
  BY DEF IInv
<1>2. wk' \in [Worker -> Refresh] /\ wk'[w] = next /\ \A v \in Worker \ {w} : wk'[v] = wk[v]
  BY <1>1 DEF TypeOK
<1>3. \A v \in Worker : wk'[v].id \in Ids' \union {0}
  BY <1>1, <1>2, Frozen DEF TypeOK
<1>4. TypeOK'
  BY <1>1, <1>2, <1>3, WorkersType DEF TypeOK
<1>5. \A v \in Worker : Same(v) \/ Free(v) \/ Inner(v)
  BY <1>2 DEF Same, Free, Called
<1>6. Rest'
  BY <1>5, FrozenGrown, Steady DEF peopleVars, factVars
<1>. QED
  BY <1>4, <1>6 DEF IInv

LEMMA QuietType ==
  ASSUME TypeOK
  PROVE  /\ Quiet => faults' \in 0..MaxFaults /\ crashes' \in 0..MaxCrashes
         /\ Fault /\ UNCHANGED crashes => faults' \in 0..MaxFaults /\ crashes' \in 0..MaxCrashes
         /\ People => changes' \in 0..MaxChanges
BY SyncAssumption DEF TypeOK, Quiet, Fault, People

-----------------------------------------------------------------------------
(* Observation.                                                               *)

LEMMA BeginKeeps ==
  ASSUME IInv, NEW w \in Worker, NEW c \in Conv, Begin(w, c)
  PROVE  IInv'
<1>. DEFINE next == [Idle EXCEPT !.at = "baseline", !.conv = c, !.on = policy,
                                 !.done = c \in declared, !.round = 1]
<1>1. TypeOK
  BY DEF IInv
<1>2. (c \in declared) \in BOOLEAN
  BY MembershipType
<1>3. policy \in BOOLEAN
  BY <1>1 DEF TypeOK
<1>4. next \in Refresh
  <2>1. 1 \in 0..3
    OBVIOUS
  <2>. QED
    BY <1>2, <1>3, <2>1, CalledType, Zenon
<1>5. next.at = "baseline" /\ next.id = 0 /\ next.conv = c
  BY DEF Idle
<1>6. wk' = [wk EXCEPT ![w] = next] /\ wk[w].at = "idle"
  BY Zenon DEF Begin
<1>. HIDE DEF next
<1>7. wk'[w].at = "baseline"
  BY <1>1, <1>5, <1>6 DEF TypeOK
<1>. QED
  BY <1>1, <1>4, <1>5, <1>6, <1>7, QuietType, Strolls DEF Begin, Hand, Seen

LEMMA GotoFree ==
  ASSUME IInv, NEW w \in Worker, UNCHANGED <<peopleVars, stream, event>>,
         NEW p \in Place, Goto(w, p), wk[w].at \notin Hand \union {"idle"},
         p \notin Hand \union {"record"},
         faults' \in 0..MaxFaults, crashes' \in 0..MaxCrashes
  PROVE  IInv'
<1>. DEFINE next == [wk[w] EXCEPT !.at = p]
<1>1. TypeOK /\ wk[w].id = 0 /\ wk[w].conv \in Conv
  BY DEF IInv, Rest, Knows, Holding, Called
<1>2. next \in Refresh /\ next.id = 0 /\ next.at = p /\ next.conv = wk[w].conv
  BY <1>1, PlaceType DEF TypeOK
<1>3. wk' = [wk EXCEPT ![w] = next]
  BY DEF Goto
<1>. HIDE DEF next
<1>4. wk'[w].at = p
  BY <1>1, <1>2, <1>3 DEF TypeOK
<1>5. p \notin Hand /\ wk[w].at \notin Hand /\ Seen(w)'
  BY <1>4 DEF Seen
<1>6. next.conv \in Conv
  BY <1>1, <1>2
<1>. QED
  BY <1>2, <1>3, <1>5, <1>6, Strolls

LEMMA LeaveFree ==
  ASSUME IInv, NEW w \in Worker, UNCHANGED <<peopleVars, stream, event>>,
         Leave(w), wk[w].at \notin Hand,
         faults' \in 0..MaxFaults, crashes' \in 0..MaxCrashes
  PROVE  IInv'
<1>1. wk'[w] = Idle /\ Idle.at = "idle" /\ Idle.id = 0
  BY DEF Leave, Idle, IInv, TypeOK
<1>. QED
  BY <1>1, IdleType, Strolls DEF Leave, Seen, Hand

LEMMA BaselineKeeps ==
  ASSUME IInv, NEW w \in Worker, Baseline(w)
  PROVE  IInv'
<1>. DEFINE next == [wk[w] EXCEPT !.at = "observe", !.fresh = TRUE]
<1>1. TypeOK /\ wk[w].id = 0 /\ wk[w].conv \in Conv
  BY DEF IInv, Rest, Knows, Holding, Called, Baseline, Hand
<1>2. next \in Refresh /\ next.id = 0 /\ next.at = "observe" /\ next.conv = wk[w].conv
  BY <1>1, FreshType DEF TypeOK
<1>3. wk' = [wk EXCEPT ![w] = next]
  BY DEF Baseline
<1>. HIDE DEF next
<1>4. wk'[w].at = "observe"
  BY <1>1, <1>2, <1>3 DEF TypeOK
<1>. QED
  BY <1>1, <1>2, <1>3, <1>4, QuietType, Strolls DEF Baseline, Seen, Hand

LEMMA ObserveKeeps ==
  ASSUME IInv, NEW w \in Worker, Observe(w)
  PROVE  IInv'
<1>. DEFINE me == wk[w]
            deps == IF me.on /\ me.done /\ pr[me.conv] = "merged" THEN Dependencies ELSE {}
            f == [tr |-> pr[me.conv], on |-> me.on, done |-> me.done, deps |-> deps]
            b == IF me.on /\ Gated(f, remote.issue) THEN "none" ELSE remote.board
            next == Saw(me, f, remote.issue, b)
<1>1. TypeOK /\ me.id = 0 /\ me.at = "observe" /\ me.conv \in Conv /\ me \in Refresh
  BY DEF IInv, Rest, Knows, Holding, Called, Observe, Hand, TypeOK
<1>2. deps \in SUBSET (Conv \X BOOLEAN)
  BY DependenciesType, <1>1
<1>3. f \in Fingerprint
  BY <1>1, <1>2 DEF Fingerprint, Refresh, TypeOK
<1>4. remote.issue \in Issue /\ remote.board \in Board /\ b \in Board \union {"none"}
  BY <1>1 DEF TypeOK
<1>. HIDE DEF f, b
<1>5. next \in Refresh /\ next.id = 0 /\ next.at = "record" /\ next.conv \in Conv
  BY <1>1, <1>3, <1>4, SawType
<1>6. next.seen = f /\ next.board = b /\ next.issue = remote.issue /\ next.on = me.on
  BY <1>1, <1>3, <1>4, SawType
<1>7. wk' = [wk EXCEPT ![w] = next]
  BY DEF Observe, f, b, Saw
<1>8. next.on /\ ~Gated(next.seen, next.issue) => next.board # "none"
  <2>1. b = IF me.on /\ Gated(f, remote.issue) THEN "none" ELSE remote.board
    BY DEF b
  <2>2. remote.board # "none"
    BY <1>4, SyncAssumption
  <2>. QED
    BY <2>1, <2>2, <1>6
<1>. HIDE DEF next
<1>9. wk'[w] = next
  BY <1>1, <1>7 DEF TypeOK
<1>10. Seen(w)'
  BY <1>8, <1>9 DEF Seen, Gated, Resolved
<1>. QED
  BY <1>1, <1>5, <1>7, <1>10, QuietType, Strolls DEF Observe, Hand
-----------------------------------------------------------------------------
(* What an observer stores.                                                   *)

LEMMA StoredKeeps ==
  ASSUME IInv, NEW w \in Worker, NEW row \in Stream, NEW next \in Refresh, Stored(w, row, next),
         UNCHANGED peopleVars, Quiet, Grown, event' \in Seq(Event),
         wk[w].at \notin Hand \union {"idle"}, next.at \notin Hand \union {"record"},
         next.id = 0, next.at # "idle" => next.conv \in Conv
  PROVE  IInv'
<1>1. TypeOK /\ wk[w].conv \in Conv
  BY DEF IInv, Rest, Knows, Called
<1>2. /\ stream' \in [Conv -> Stream] /\ wk' \in [Worker -> Refresh] /\ wk'[w] = next
      /\ \A v \in Worker \ {w} : wk'[v].id = wk[v].id /\ Same(v)
  BY <1>1, StoredType
<1>3. \A v \in Worker : wk'[v].id \in Ids' \union {0}
  BY <1>1, <1>2 DEF TypeOK, Grown
<1>4. TypeOK'
  BY <1>1, <1>2, <1>3, QuietType DEF TypeOK, peopleVars, factVars, Ids
<1>5. Free(w)
  BY <1>2 DEF Free, Seen, Called
<1>6. Rest'
  BY <1>2, <1>5, Steady DEF peopleVars, factVars
<1>. QED
  BY <1>4, <1>6 DEF IInv

LEMMA RetiredType ==
  ASSUME TypeOK, NEW c
  PROVE  /\ Retired(c) \in Seq(Event) /\ DOMAIN Retired(c) = Ids /\ Len(Retired(c)) = Len(event)
         /\ \A i \in Ids :
              LET e == Retired(c)[i] IN
              /\ e.conv = event[i].conv /\ e.target = event[i].target /\ e.tr = event[i].tr
              /\ e.state = "processing" <=> event[i].state = "processing"
              /\ e.reads = event[i].reads /\ e.value = event[i].value
              /\ event[i].state = "uncertain" => e.state = "uncertain"
<1>1. \A i \in Ids : event[i] \in Event /\ [event[i] EXCEPT !.state = "superseded"] \in Event
  BY IdsAre DEF Event, State
<1>2. DOMAIN Retired(c) = Ids
  BY DEF Retired
<1>3. \A i \in Ids : Retired(c)[i] =
        IF Retirable(event[i], c) THEN [event[i] EXCEPT !.state = "superseded"] ELSE event[i]
  BY Zenon DEF Retired
<1>4. \A i \in Ids : Retired(c)[i] \in Event
  BY <1>1, <1>3
<1>5. Retired(c) = [i \in Ids |-> Retired(c)[i]]
  BY <1>2 DEF Retired
<1>6. Retired(c) \in Seq(Event)
  BY <1>2, <1>4, <1>5, Mapped
<1>7. Len(Retired(c)) = Len(event)
  BY <1>2, <1>6, IdsAre, LenProperties
<1>8. ASSUME NEW i \in Ids
      PROVE  LET e == Retired(c)[i] IN
              /\ e.conv = event[i].conv /\ e.target = event[i].target /\ e.tr = event[i].tr
              /\ e.state = "processing" <=> event[i].state = "processing"
              /\ e.reads = event[i].reads /\ e.value = event[i].value
              /\ event[i].state = "uncertain" => e.state = "uncertain"
  BY <1>1, <1>3 DEF Retirable, Event
<1>. QED
  BY <1>2, <1>6, <1>7, <1>8

\* The events that a plan adds.
NewEvent == {e \in Event : e.state = "pending" /\ Kind(e)}

LEMMA PlannedType ==
  ASSUME NEW me \in Refresh, me.conv \in Conv, NEW old,
         me.on /\ ~Gated(me.seen, me.issue) => me.board # "none"
  PROVE  Planned(old, me) \in Seq(NewEvent)
<1>1. CASE ~me.on \/ ErrorOf(old, me) # ""
  BY <1>1, EmptySeq DEF Planned
<1>2. CASE ~(~me.on \/ ErrorOf(old, me) # "")
  <2>1. me.board \in Board /\ me.seen.tr \in Transition /\ me.issue \in Issue
    BY <1>2 DEF ErrorOf, Refresh, Fingerprint
  <2>2. Effect(me, "board") \in NewEvent
    BY <2>1 DEF Effect, NewEvent, Kind, Event, State, Target, Board
  <2>3. me.seen.tr = "merged" => Effect(me, "issue") \in NewEvent
    BY <2>1 DEF Effect, NewEvent, Kind, Event, State, Target, Issue
  <2>4. <<Effect(me, "board")>> \in Seq(NewEvent)
    BY <2>2
  <2>5. (IF me.seen.tr = "merged" THEN <<Effect(me, "issue")>> ELSE <<>>) \in Seq(NewEvent)
    BY <2>3, EmptySeq
  <2>6. Planned(old, me) = (IF me.seen.tr = "merged" THEN <<Effect(me, "issue")>> ELSE <<>>)
                             \o <<Effect(me, "board")>>
    BY <1>2, Zenon DEF Planned
  <2>. QED
    BY <2>4, <2>5, <2>6, ConcatProperties
<1>. QED
  BY <1>1, <1>2

\* The new plan follows what was retired.
LEMMA PlanFollows ==
  ASSUME TypeOK, NEW c, NEW plan \in Seq(NewEvent), event' = Retired(c) \o plan
  PROVE  event' \in Seq(Event) /\ Grown
         /\ \A i \in Ids : event[i].state = "uncertain" => event'[i].state = "uncertain"
<1>1. plan \in Seq(Event) /\ Len(plan) \in Nat
  BY SeqMonotonic, LenProperties DEF NewEvent
<1>2. Retired(c) \in Seq(Event) /\ Len(Retired(c)) = Len(event)
  BY RetiredType
<1>3. /\ event' \in Seq(Event) /\ Len(event') = Len(event) + Len(plan)
      /\ \A i \in 1..(Len(event) + Len(plan)) :
           event'[i] = IF i <= Len(event) THEN Retired(c)[i] ELSE plan[i - Len(event)]
  <2>. DEFINE old == Retired(c)
  <2>1. old \in Seq(Event) /\ Len(old) = Len(event) /\ event' = old \o plan
    BY <1>2
  <2>. HIDE DEF old
  <2>2. /\ old \o plan \in Seq(Event) /\ Len(old \o plan) = Len(old) + Len(plan)
        /\ \A i \in 1..(Len(old) + Len(plan)) :
             (old \o plan)[i] = IF i <= Len(old) THEN old[i] ELSE plan[i - Len(old)]
    BY <1>1, <2>1, ConcatProperties, Zenon
  <2>3. /\ event' \in Seq(Event) /\ Len(event') = Len(event) + Len(plan)
        /\ \A i \in 1..(Len(event) + Len(plan)) :
             event'[i] = IF i <= Len(event) THEN old[i] ELSE plan[i - Len(event)]
    BY <2>1, <2>2
  <2>. QED
    BY <2>3 DEF old
<1>4. Ids = 1..Len(event) /\ Len(event) \in Nat /\ Ids' = 1..(Len(event) + Len(plan))
  BY <1>3, IdsAre, LenProperties DEF Ids
<1>5. \A i \in Ids : event'[i] = Retired(c)[i]
  BY <1>1, <1>3, <1>4
<1>6. \A i \in Ids' \ Ids : event'[i] \in NewEvent
  <2>1. TAKE i \in Ids' \ Ids
  <2>2. event'[i] = plan[i - Len(event)] /\ i - Len(event) \in 1..Len(plan)
    BY <1>1, <1>3, <1>4
  <2>. QED
    BY <2>2, ElementOfSeq
<1>7. Ids \subseteq Ids'
  BY <1>1, <1>4
<1>8. Grown
  <2>1. \A i \in Ids :
          /\ Alike(i) /\ event'[i].reads = event[i].reads
          /\ event'[i].state = "processing" <=> event[i].state = "processing"
    BY <1>5, RetiredType DEF Alike
  <2>2. \A i \in Ids' \ Ids :
          event'[i].state # "processing" /\ Kind(event'[i])
    BY <1>6 DEF NewEvent
  <2>. QED
    BY <1>7, <2>1, <2>2 DEF Grown
<1>. QED
  BY <1>3, <1>5, <1>8, RetiredType

LEMMA RecordWrites ==
  ASSUME IInv, NEW w \in Worker, record(w)
  PROVE  /\ event' \in Seq(Event) /\ Grown
         /\ \A i \in Ids : event[i].state = "uncertain" => event'[i].state = "uncertain"
<1>. DEFINE me == wk[w]
            old == stream[me.conv]
<1>1. TypeOK /\ me \in Refresh /\ me.conv \in Conv
  BY DEF IInv, TypeOK, Rest, Knows, Called, record
<1>2. me.on /\ ~Gated(me.seen, me.issue) => me.board # "none"
  BY DEF IInv, Rest, Knows, Seen, record
<1>3. Planned(old, me) \in Seq(NewEvent)
  BY <1>1, <1>2, PlannedType
<1>4. event' = Retired(me.conv) \o Planned(old, me) \/ UNCHANGED event
  BY Zenon DEF record
<1>. HIDE DEF me, old
<1>5. CASE event' = Retired(me.conv) \o Planned(old, me)
  BY <1>1, <1>3, <1>5, PlanFollows
<1>6. CASE UNCHANGED event
  BY <1>1, <1>6, FrozenGrown DEF TypeOK
<1>. QED
  BY <1>4, <1>5, <1>6

LEMMA ErrorType ==
  ASSUME NEW old, NEW me
  PROVE  ErrorOf(old, me) \in {"", "manual", "other"}
BY Zenon DEF ErrorOf

LEMMA GoneOnType ==
  ASSUME NEW p \in Place, NEW c \in Conv
  PROVE  /\ [Idle EXCEPT !.at = p, !.conv = c, !.fresh = TRUE] \in Refresh
         /\ [Idle EXCEPT !.at = p, !.conv = c, !.fresh = TRUE].at = p
         /\ [Idle EXCEPT !.at = p, !.conv = c, !.fresh = TRUE].conv = c
         /\ [Idle EXCEPT !.at = p, !.conv = c, !.fresh = TRUE].id = 0
<1>1. Idle \in Refresh /\ Idle.id = 0
  BY IdleType DEF Idle
<1>. QED
  BY <1>1 DEF Refresh

LEMMA RecordKeeps ==
  ASSUME IInv, NEW w \in Worker, record(w)
  PROVE  IInv'
<1>. DEFINE me == wk[w]
            row == [row |-> TRUE, reset |-> FALSE, fp |-> me.seen, board |-> me.board,
                    error |-> ErrorOf(stream[me.conv], me)]
            p == IF me.on THEN "claim" ELSE "drain"
            next == [Idle EXCEPT !.at = p, !.conv = me.conv, !.fresh = TRUE]
<1>1. TypeOK /\ me \in Refresh /\ me.conv \in Conv /\ me.at = "record"
  BY DEF IInv, TypeOK, Rest, Knows, Called, record
<1>2. row \in Stream
  BY <1>1, ErrorType DEF Stream, Refresh
<1>3. p \in {"claim", "drain"} /\ p \in Place
  BY DEF Place
<1>4. Stored(w, row, next)
  BY Zenon DEF record
<1>. HIDE DEF p
<1>5. next \in Refresh /\ next.at = p /\ next.conv = me.conv /\ next.id = 0
  BY <1>1, <1>3, GoneOnType, Zenon
<1>. HIDE DEF row, next
<1>6. /\ me.at \notin Hand \union {"idle"} /\ next.at \notin Hand \union {"record"}
  BY <1>1, <1>3, <1>5 DEF Hand
<1>. QED
  BY <1>1, <1>2, <1>4, <1>5, <1>6, RecordWrites, StoredKeeps DEF record

LEMMA OvertakenKeeps ==
  ASSUME IInv, NEW w \in Worker, Overtaken(w)
  PROVE  IInv'
<1>. DEFINE me == wk[w]
            next == [Idle EXCEPT !.at = "baseline", !.conv = me.conv, !.on = me.on,
                                 !.done = me.done, !.round = me.round + 1]
<1>1. TypeOK /\ me \in Refresh /\ me.conv \in Conv /\ me.at = "record"
  BY DEF IInv, TypeOK, Rest, Knows, Called, Overtaken
<1>2. CASE me.round = 3
  <2>1. Leave(w)
    BY <1>2, Zenon DEF Overtaken
  <2>. QED
    BY <1>1, <2>1, LeaveFree, QuietType DEF Overtaken, Hand
<1>3. CASE me.round # 3
  <2>1. me.on \in BOOLEAN /\ me.done \in BOOLEAN /\ me.round + 1 \in 0..3
    BY <1>1, <1>3 DEF Refresh
  <2>2. next \in Refresh
    BY <1>1, <2>1, CalledType
  <2>3. next.at = "baseline" /\ next.id = 0 /\ next.conv = me.conv
    BY DEF Idle
  <2>4. wk' = [wk EXCEPT ![w] = next]
    BY <1>3, Zenon DEF Overtaken
  <2>. HIDE DEF next
  <2>5. Seen(w)'
    BY <1>1, <2>3, <2>4 DEF Seen, TypeOK
  <2>. QED
    BY <1>1, <2>2, <2>3, <2>4, <2>5, QuietType, Strolls DEF Overtaken, Hand
<1>. QED
  BY <1>2, <1>3

LEMMA FailedType ==
  ASSUME NEW old \in Stream
  PROVE  [old EXCEPT !.row = TRUE, !.reset = old.reset \/ ~old.row, !.error = "other"] \in Stream
<1>1. (old.reset \/ ~old.row) \in BOOLEAN
  BY Zenon
<1>2. \A b \in BOOLEAN : [old EXCEPT !.row = TRUE, !.reset = b, !.error = "other"] \in Stream
  BY DEF Stream
<1>. QED
  BY <1>1, <1>2, Zenon

LEMMA AmendedType ==
  ASSUME NEW old \in Stream, NEW b \in Board
  PROVE  [old EXCEPT !.board = b] \in Stream
BY DEF Stream

LEMMA AmendKeeps ==
  ASSUME IInv, NEW w \in Worker, amend(w)
  PROVE  IInv'
<1>. DEFINE row == [stream[wk[w].conv] EXCEPT !.board = remote.board]
<1>1. TypeOK /\ wk[w].conv \in Conv /\ wk[w].at = "amend"
  BY DEF IInv, TypeOK, Rest, Knows, Called, amend
<1>2. CASE Latest(w)
  <2>1. row \in Stream
    <3>1. stream[wk[w].conv] \in Stream /\ remote.board \in Board
      BY <1>1 DEF TypeOK
    <3>. QED
      BY <3>1, AmendedType
  <2>2. Stored(w, row, Idle) /\ UNCHANGED <<peopleVars, event>> /\ Quiet
    BY <1>2, Zenon DEF amend
  <2>. HIDE DEF row
  <2>3. Idle \in Refresh /\ Idle.at = "idle" /\ Idle.id = 0
    BY IdleType DEF Idle
  <2>4. event' \in Seq(Event) /\ Grown
    BY <1>1, <2>2, FrozenGrown DEF TypeOK
  <2>. QED
    BY <1>1, <2>1, <2>2, <2>3, <2>4, StoredKeeps DEF Hand
<1>3. CASE ~Latest(w)
  <2>1. Leave(w) /\ UNCHANGED <<peopleVars, stream, event>> /\ Quiet
    BY <1>3, Zenon DEF amend
  <2>. QED
    BY <1>1, <2>1, LeaveFree, QuietType DEF Hand
<1>. QED
  BY <1>2, <1>3

LEMMA FailKeeps ==
  ASSUME IInv, NEW w \in Worker, Fail(w)
  PROVE  IInv'
<1>. DEFINE old == stream[wk[w].conv]
            row == [old EXCEPT !.row = TRUE, !.reset = old.reset \/ ~old.row, !.error = "other"]
<1>1. TypeOK /\ wk[w].conv \in Conv /\ wk[w].at = "fail"
  BY DEF IInv, TypeOK, Rest, Knows, Called, Fail
<1>2. CASE Latest(w)
  <2>1. row \in Stream
    BY <1>1, FailedType DEF TypeOK
  <2>2. Stored(w, row, Idle) /\ UNCHANGED <<peopleVars, event>> /\ Quiet
    BY <1>2, Zenon DEF Fail
  <2>. HIDE DEF row
  <2>3. Idle \in Refresh /\ Idle.at = "idle" /\ Idle.id = 0
    BY IdleType DEF Idle
  <2>4. event' \in Seq(Event) /\ Grown
    BY <1>1, <2>2, FrozenGrown DEF TypeOK
  <2>. QED
    BY <1>1, <2>1, <2>2, <2>3, <2>4, StoredKeeps DEF Hand
<1>3. CASE ~Latest(w)
  <2>1. Leave(w) /\ UNCHANGED <<peopleVars, stream, event>> /\ Quiet
    BY <1>3, Zenon DEF Fail
  <2>. QED
    BY <1>1, <2>1, LeaveFree, QuietType DEF Hand
<1>. QED
  BY <1>2, <1>3

LEMMA UnreadKeeps ==
  ASSUME IInv, NEW w \in Worker, Unread(w)
  PROVE  IInv'
<1>1. TypeOK /\ wk[w].at \in {"observe", "amend"} /\ "fail" \in Place
  BY DEF IInv, Unread, Place
<1>. QED
  BY <1>1, GotoFree, QuietType DEF Unread, Hand

LEMMA NothingKeeps ==
  ASSUME IInv, NEW w \in Worker, NothingToDo(w)
  PROVE  IInv'
<1>1. TypeOK /\ "amend" \in Place
  BY DEF IInv, Place
<1>2. CASE wk[w].at = "claim" /\ Goto(w, "amend")
  BY <1>1, <1>2, GotoFree, QuietType DEF NothingToDo, Hand
<1>3. CASE wk[w].at = "drain" /\ Leave(w)
  BY <1>1, <1>3, LeaveFree, QuietType DEF NothingToDo, Hand
<1>. QED
  BY <1>2, <1>3, Zenon DEF NothingToDo

-----------------------------------------------------------------------------
(* An event is taken, carried and let go.                                     *)

LEMMA FirstIs ==
  ASSUME NEW S, S \subseteq Nat, S # {}
  PROVE  First(S) \in S
<1>. DEFINE R == OpToRel(<, Nat)
<1>1. IsWellFoundedOn(R, Nat)
  BY NatLessThanWellFounded
<1>2. \E i \in S : \A j \in S : <<j, i>> \notin R
  <2>. HIDE DEF R
  <2>. QED
    BY <1>1, WFMin, Zenon
<1>3. PICK i \in S : \A j \in S : <<j, i>> \notin R
  BY <1>2
<1>4. \A j \in S : i <= j
  <2>1. TAKE j \in S
  <2>2. <<j, i>> \notin {ss \in Nat \X Nat : ss[1] < ss[2]}
    BY <1>3, <2>1 DEF OpToRel
  <2>3. j \in Nat /\ i \in Nat /\ <<j, i>> \in Nat \X Nat
    OBVIOUS
  <2>4. ~(<<j, i>>[1] < <<j, i>>[2])
    BY <2>2, <2>3, Zenon
  <2>. QED
    BY <2>3, <2>4
<1>. QED
  BY <1>4, Zenon DEF First

Hold(r, p, i, s) == [r EXCEPT !.at = p, !.id = i, !.was = s]

LEMMA HoldType ==
  \A r \in Refresh, p \in Place, s \in State : \A i : i \in Nat =>
    /\ Hold(r, p, i, s) \in Refresh /\ Hold(r, p, i, s).at = p
    /\ Hold(r, p, i, s).id = i /\ Hold(r, p, i, s).conv = r.conv
<1>1. ASSUME NEW r \in Refresh, NEW p \in Place, NEW s \in State, NEW i \in Nat
      PROVE  /\ Hold(r, p, i, s) \in Refresh /\ Hold(r, p, i, s).at = p
             /\ Hold(r, p, i, s).id = i /\ Hold(r, p, i, s).conv = r.conv
  BY DEF Hold, Refresh
<1>. QED
  BY <1>1

LEMMA StateMark ==
  ASSUME NEW e \in Event, NEW s \in State
  PROVE  /\ [e EXCEPT !.state = s] \in Event /\ [e EXCEPT !.state = s].state = s
         /\ [e EXCEPT !.state = s].conv = e.conv /\ [e EXCEPT !.state = s].target = e.target
         /\ [e EXCEPT !.state = s].value = e.value
         /\ [e EXCEPT !.state = s].tr = e.tr /\ [e EXCEPT !.state = s].reads = e.reads
BY DEF Event

\* The event i becomes e, a version of it.
LEMMA Updated ==
  ASSUME TypeOK, NEW i \in Ids, NEW e \in Event, event' = [event EXCEPT ![i] = e],
         e.conv = event[i].conv, e.target = event[i].target, e.tr = event[i].tr,
         e.value = event[i].value
  PROVE  /\ event' \in Seq(Event) /\ Ids' = Ids /\ event'[i] = e
         /\ \A j \in Ids : Alike(j)
         /\ \A j \in Ids \ {i} : event'[j] = event[j]
BY Marked DEF Ids, Alike

LEMMA ClaimTakes ==
  ASSUME IInv, NEW w \in Worker, NEW states, "processing" \notin states,
         NEW next \in {"guard", "reread"},
         wk[w].at \in {"claim", "drain"}, claim(w, states, next),
         UNCHANGED <<peopleVars, stream>>, Quiet
  PROVE  IInv' /\ \A i \in Ids : event'[i] = event[i] \/ event'[i].state = "processing"
<1>. DEFINE S == Eligible(wk[w].conv, states)
            i == First(S)
            e == [event[i] EXCEPT !.state = "processing"]
            r == Hold(wk[w], next, i, event[i].state)
<1>1. TypeOK /\ wk[w] \in Refresh
  BY DEF IInv, TypeOK
<1>2. i \in S
  <2>1. S \subseteq Nat
    BY <1>1, IdsAre DEF Eligible
  <2>. QED
    BY <2>1, FirstIs DEF claim
<1>3. i \in Ids /\ event[i].reads < 3 /\ Clear(i) /\ event[i].state # "processing"
  BY <1>2, Zenon DEF Eligible
<1>4. event' = [event EXCEPT ![i] = e] /\ wk' = [wk EXCEPT ![w] = r]
  BY Zenon DEF claim, Hold
<1>. HIDE DEF i
<1>5. event[i] \in Event /\ event[i].state \in State /\ i \in Nat
  BY <1>1, <1>3, IdsAre DEF Event
<1>6. /\ e \in Event /\ e.state = "processing" /\ e.conv = event[i].conv
      /\ e.target = event[i].target /\ e.tr = event[i].tr /\ e.reads = event[i].reads
      /\ e.value = event[i].value
  BY <1>5, StateMark DEF State
<1>7. r \in Refresh /\ r.at = next /\ r.id = i /\ r.conv = wk[w].conv
  <2>1. next \in Place
    BY DEF Place
  <2>. QED
    BY <1>1, <1>5, <2>1, HoldType
<1>. HIDE DEF e, r
<1>8. /\ event' \in Seq(Event) /\ Ids' = Ids /\ event'[i] = e
      /\ \A j \in Ids : Alike(j)
      /\ \A j \in Ids \ {i} : event'[j] = event[j]
  BY <1>1, <1>3, <1>4, <1>6, Updated
<1>9. wk' \in [Worker -> Refresh] /\ wk'[w] = r /\ \A v \in Worker \ {w} : wk'[v] = wk[v]
  BY <1>1, <1>4, <1>7 DEF TypeOK
<1>10. TypeOK'
  <2>1. \A v \in Worker : wk'[v].id \in Ids' \union {0}
    BY <1>1, <1>3, <1>7, <1>8, <1>9 DEF TypeOK
  <2>. QED
    BY <1>1, <1>8, <1>9, <2>1, QuietType, WorkersType
<1>11. Rest'
  BY <1>3, <1>6, <1>7, <1>8, <1>9, Takes DEF peopleVars, factVars, Hand
<1>. QED
  BY <1>6, <1>8, <1>10, <1>11 DEF IInv

\* The worker's event gets its outcome, and the worker has nothing in hand.
LEMMA DropsKeeps ==
  ASSUME IInv, NEW w \in Worker, wk[w].at \in Hand,
         NEW e \in Event, NEW next \in Place, event' = [event EXCEPT ![wk[w].id] = e],
         e.state # "processing", e.conv = Mine(w).conv, e.target = Mine(w).target,
         e.tr = Mine(w).tr, e.value = Mine(w).value,
         next \notin Hand \union {"record"},
         wk' = [wk EXCEPT ![w] = Hold(wk[w], next, 0, "pending")],
         UNCHANGED <<factVars, changes, stream>>, remote' \in [issue : Issue, board : Board],
         faults' \in 0..MaxFaults, crashes' \in 0..MaxCrashes
  PROVE  IInv' /\ \A i \in Ids \ {wk[w].id} : event'[i] = event[i]
<1>. DEFINE r == Hold(wk[w], next, 0, "pending")
<1>1. TypeOK /\ wk[w] \in Refresh /\ wk[w].id \in Ids
  BY DEF IInv, TypeOK, Rest, Knows, Holding
<1>2. r \in Refresh /\ r.at = next /\ r.id = 0 /\ r.conv = wk[w].conv
  <2>1. "pending" \in State /\ 0 \in Nat
    BY DEF State
  <2>. QED
    BY <1>1, <2>1, HoldType
<1>3. wk' = [wk EXCEPT ![w] = r]
  OBVIOUS
<1>. HIDE DEF r
<1>4. /\ event' \in Seq(Event) /\ Ids' = Ids /\ event'[wk[w].id] = e
      /\ \A j \in Ids : Alike(j)
      /\ \A j \in Ids \ {wk[w].id} : event'[j] = event[j]
  BY <1>1, Updated DEF Mine
<1>5. wk' \in [Worker -> Refresh] /\ wk'[w] = r /\ \A v \in Worker \ {w} : wk'[v] = wk[v]
  BY <1>1, <1>2, <1>3 DEF TypeOK
<1>6. TypeOK'
  <2>1. \A v \in Worker : wk'[v].id \in Ids' \union {0}
    BY <1>1, <1>2, <1>4, <1>5 DEF TypeOK
  <2>. QED
    BY <1>1, <1>4, <1>5, <2>1 DEF TypeOK, factVars, Ids
<1>7. Rest'
  BY <1>2, <1>4, <1>5, LetsGo DEF factVars
<1>. QED
  BY <1>4, <1>6, <1>7 DEF IInv

LEMMA FinishKeeps ==
  ASSUME IInv, NEW w \in Worker, wk[w].at \in Hand,
         NEW st \in State \ {"processing"}, NEW next \in {"amend", "claim", "fail", "drain"},
         Finish(w, st, next),
         UNCHANGED <<factVars, changes, stream>>, remote' \in [issue : Issue, board : Board],
         faults' \in 0..MaxFaults, crashes' \in 0..MaxCrashes
  PROVE  IInv' /\ \A i \in Ids \ {wk[w].id} : event'[i] = event[i]
<1>. DEFINE e == [Mine(w) EXCEPT !.state = st]
<1>1. Mine(w) \in Event
  BY IdsAre DEF IInv, Rest, Knows, Holding, Mine
<1>2. /\ e \in Event /\ e.state = st /\ e.conv = Mine(w).conv
      /\ e.target = Mine(w).target /\ e.tr = Mine(w).tr /\ e.value = Mine(w).value
  BY <1>1, StateMark
<1>3. event' = [event EXCEPT ![wk[w].id] = e]
  BY DEF Finish, Mine
<1>. HIDE DEF e
<1>4. next \in Place /\ next \notin Hand \union {"record"}
  BY DEF Place, Hand
<1>5. wk' = [wk EXCEPT ![w] = Hold(wk[w], next, 0, "pending")]
  BY DEF Finish, Hold
<1>. QED
  BY <1>2, <1>3, <1>4, <1>5, DropsKeeps

LEMMA ReadFailureKeeps ==
  ASSUME IInv, NEW w \in Worker, wk[w].at \in Hand, NEW next \in {"amend", "fail"},
         read_failure(w, next), UNCHANGED <<peopleVars, stream>>,
         faults' \in 0..MaxFaults, crashes' \in 0..MaxCrashes
  PROVE  IInv' /\ \A i \in Ids \ {wk[w].id} : event'[i] = event[i]
<1>. DEFINE i == wk[w].id
            reads == event[i].reads + 1
            st == IF wk[w].was = "uncertain" THEN "uncertain"
                  ELSE IF reads = 3 THEN "blocked" ELSE "pending"
            e == [event[i] EXCEPT !.reads = reads, !.state = st]
<1>1. TypeOK /\ event[i] \in Event /\ event[i].reads < 3 /\ Mine(w) = event[i]
  BY IdsAre DEF IInv, Rest, Knows, Holding, Mine
<1>2. reads \in 0..3
  BY <1>1 DEF Event
<1>3. st \in {"uncertain", "blocked", "pending"}
  OBVIOUS
<1>4. event' = [event EXCEPT ![i] = e]
  BY Zenon DEF read_failure
<1>5. wk' = [wk EXCEPT ![w] = Hold(wk[w], next, 0, "pending")]
  BY DEF read_failure, Hold
<1>. HIDE DEF reads, st
<1>6. /\ e \in Event /\ e.state # "processing" /\ e.conv = event[i].conv
      /\ e.target = event[i].target /\ e.tr = event[i].tr /\ e.value = event[i].value
  BY <1>1, <1>2, <1>3 DEF Event, State
<1>. HIDE DEF e
<1>7. next \in Place /\ next \notin Hand \union {"record"}
  BY DEF Place, Hand
<1>8. UNCHANGED <<factVars, changes>> /\ remote' \in [issue : Issue, board : Board]
  BY <1>1 DEF peopleVars, TypeOK
<1>9. /\ e.state # "processing" /\ e.conv = Mine(w).conv /\ e.target = Mine(w).target
      /\ e.tr = Mine(w).tr /\ e.value = Mine(w).value /\ event' = [event EXCEPT ![wk[w].id] = e]
      /\ UNCHANGED <<factVars, changes, stream>>
  BY <1>1, <1>4, <1>6, <1>8
<1>. QED
  BY <1>5, <1>6, <1>7, <1>8, <1>9, DropsKeeps

-----------------------------------------------------------------------------
(* The effects of an enabled policy.                                          *)

\* An outcome in doubt is settled by a worker only.
Doubt ==
  \A i \in Ids : event[i].state = "uncertain" => event'[i].state \in {"uncertain", "processing"}

LEMMA DropDoubts ==
  ASSUME IInv, NEW w \in Worker, wk[w].at \in Hand,
         \A i \in Ids \ {wk[w].id} : event'[i] = event[i]
  PROVE  Doubt
BY DEF IInv, Rest, Knows, Holding, Mine, Doubt

LEMMA NoDoubt ==
  ASSUME UNCHANGED event
  PROVE  Doubt
BY DEF Doubt

LEMMA RemoteSame ==
  ASSUME IInv, UNCHANGED peopleVars
  PROVE  UNCHANGED <<factVars, changes>> /\ remote' \in [issue : Issue, board : Board]
BY DEF IInv, TypeOK, peopleVars

LEMMA LandsType ==
  ASSUME IInv, NEW w \in Worker, wk[w].at \in Hand, Lands(w)
  PROVE  /\ remote' \in [issue : Issue, board : Board]
         /\ remote'.issue # remote.issue => Mine(w).tr = "merged"
<1>1. /\ remote \in [issue : Issue, board : Board] /\ wk[w].id \in Ids /\ Mine(w) \in Event
      /\ Kind(Mine(w))
  BY IdsAre DEF IInv, TypeOK, Rest, Knows, Holding, Mine, Kinds
<1>2. CASE Mine(w).target = "issue"
  <2>1. Mine(w).tr = "merged" /\ Mine(w).value = "closed"
    BY <1>1, <1>2 DEF Kind
  <2>2. remote' = [remote EXCEPT !.issue = "closed"]
    BY <1>2, <2>1 DEF Lands
  <2>. QED
    BY <1>1, <2>1, <2>2 DEF Issue
<1>3. CASE Mine(w).target = "board"
  <2>1. Mine(w).value \in Board
    BY <1>1, <1>3 DEF Kind, Event, Board
  <2>2. remote' = [remote EXCEPT !.board = Mine(w).value]
    BY <1>3 DEF Lands
  <2>. QED
    BY <1>1, <2>1, <2>2
<1>. QED
  BY <1>1, <1>2, <1>3 DEF Event, Target

\* A worker goes on with its event in hand.
LEMMA InnerKeeps ==
  ASSUME IInv, NEW w \in Worker, wk[w].at \in Hand,
         NEW r \in Refresh, wk' = [wk EXCEPT ![w] = r], r.id = wk[w].id, r.conv = wk[w].conv,
         r.at \in Hand, event' \in Seq(Event), Grown, Firm(w)',
         UNCHANGED <<factVars, changes, stream>>, remote' \in [issue : Issue, board : Board],
         Quiet
  PROVE  IInv'
<1>1. TypeOK
  BY DEF IInv
<1>2. wk' \in [Worker -> Refresh] /\ wk'[w] = r /\ \A v \in Worker \ {w} : wk'[v] = wk[v]
  BY <1>1 DEF TypeOK
<1>3. \A v \in Worker : wk'[v].id \in Ids' \union {0}
  BY <1>1, <1>2 DEF TypeOK, Grown
<1>4. TypeOK'
  BY <1>1, <1>2, <1>3, QuietType DEF TypeOK, factVars, Ids
<1>5. \A v \in Worker : Same(v) \/ Free(v) \/ Inner(v)
  BY <1>2 DEF Same, Inner
<1>6. Rest'
  BY <1>5, Steady DEF factVars
<1>. QED
  BY <1>4, <1>6 DEF IInv

LEMMA StaysFirm ==
  ASSUME IInv, NEW w \in Worker, wk[w].at \in {"recheck", "send", "patch", "confirm"},
         wk'[w].id = wk[w].id, Grown, UNCHANGED <<pr, linked, declared>>
  PROVE  Firm(w)'
<1>1. wk[w].id \in Ids
  BY DEF IInv, Rest, Knows, Holding, Hand
<1>2. Mine(w)'.tr = Mine(w).tr /\ Mine(w)'.conv = Mine(w).conv
  BY <1>1 DEF Mine, Grown, Alike
<1>3. Mine(w).tr = "merged" => Resolved(Mine(w).conv \in declared, Dependencies)
  BY DEF IInv, Rest, Knows, Firm
<1>. QED
  BY <1>2, <1>3, DependenciesSame DEF Firm, Resolved

\* It goes on to another place and leaves its event as it is.
LEMMA GotoInner ==
  ASSUME IInv, NEW w \in Worker, wk[w].at \in {"recheck", "send", "patch", "confirm"},
         NEW p \in Hand, Goto(w, p), UNCHANGED <<factVars, changes, stream, event>>,
         remote' \in [issue : Issue, board : Board], Quiet
  PROVE  IInv' /\ Doubt
<1>. DEFINE r == [wk[w] EXCEPT !.at = p]
<1>1. TypeOK /\ wk[w] \in Refresh /\ p \in Place /\ wk[w].at \in Hand
  BY DEF IInv, TypeOK, Hand, Place
<1>2. r \in Refresh /\ r.id = wk[w].id /\ r.conv = wk[w].conv /\ r.at = p
  BY <1>1, PlaceType
<1>3. wk' = [wk EXCEPT ![w] = r]
  BY DEF Goto
<1>. HIDE DEF r
<1>4. wk'[w] = r
  BY <1>1, <1>3 DEF TypeOK
<1>5. event' \in Seq(Event) /\ Grown
  BY <1>1, FrozenGrown DEF TypeOK
<1>6. Firm(w)'
  BY <1>2, <1>4, <1>5, StaysFirm DEF factVars
<1>. QED
  BY <1>1, <1>2, <1>3, <1>5, <1>6, InnerKeeps, NoDoubt

LEMMA ConflictKeeps ==
  ASSUME IInv, NEW w \in Worker, wk[w].at \in Hand, Conflict(w),
         UNCHANGED <<peopleVars, stream>>,
         faults' \in 0..MaxFaults, crashes' \in 0..MaxCrashes
  PROVE  IInv' /\ Doubt
<1>1. Finish(w, "uncertain", "amend") \/ Finish(w, "blocked", "claim")
  BY Zenon DEF Conflict
<1>2. {"uncertain", "blocked"} \subseteq State \ {"processing"}
  BY DEF State
<1>3. UNCHANGED <<factVars, changes, stream>> /\ remote' \in [issue : Issue, board : Board]
  BY RemoteSame
<1>4. CASE Finish(w, "uncertain", "amend")
  BY <1>2, <1>3, <1>4, FinishKeeps, DropDoubts
<1>5. CASE Finish(w, "blocked", "claim")
  BY <1>2, <1>3, <1>5, FinishKeeps, DropDoubts
<1>. QED
  BY <1>1, <1>4, <1>5

Rechecks(r, done, deps) == [r EXCEPT !.at = "recheck", !.done = done, !.seen.deps = deps]

LEMMA RechecksType ==
  ASSUME NEW r \in Refresh, NEW done \in BOOLEAN, NEW deps \in SUBSET (Conv \X BOOLEAN)
  PROVE  /\ Rechecks(r, done, deps) \in Refresh /\ Rechecks(r, done, deps).at = "recheck"
         /\ Rechecks(r, done, deps).id = r.id /\ Rechecks(r, done, deps).conv = r.conv
<1>1. [r.seen EXCEPT !.deps = deps] \in Fingerprint
  BY DEF Refresh, Fingerprint
<1>. QED
  BY <1>1 DEF Rechecks, Refresh, Place

LEMMA GuardKeeps ==
  ASSUME IInv, NEW w \in Worker, Guard(w)
  PROVE  IInv' /\ Doubt
<1>. DEFINE e == Mine(w)
            done == e.conv \in declared
            deps == IF e.tr = "merged" THEN Dependencies ELSE {}
            r == Rechecks(wk[w], done, deps)
<1>1. TypeOK /\ wk[w].at \in Hand /\ wk[w] \in Refresh /\ wk[w].at = "guard"
  BY DEF IInv, TypeOK, Guard, Hand
<1>2. /\ faults' \in 0..MaxFaults /\ crashes' \in 0..MaxCrashes /\ Quiet
      /\ UNCHANGED <<peopleVars, stream>> /\ UNCHANGED <<factVars, changes, stream>>
      /\ remote' \in [issue : Issue, board : Board]
  BY <1>1, QuietType, RemoteSame DEF Guard
<1>3. "applied" \in State \ {"processing"} /\ "superseded" \in State \ {"processing"}
  BY DEF State
<1>4. CASE Finish(w, "applied", "claim")
  BY <1>1, <1>2, <1>3, <1>4, FinishKeeps, DropDoubts
<1>5. CASE Finish(w, "superseded", "claim")
  BY <1>1, <1>2, <1>3, <1>5, FinishKeeps, DropDoubts
<1>6. CASE Conflict(w)
  BY <1>1, <1>2, <1>6, ConflictKeeps
<1>7. CASE ~Unresolved(w) /\ wk' = [wk EXCEPT ![w] = r] /\ UNCHANGED event
  <2>1. done \in BOOLEAN /\ deps \in SUBSET (Conv \X BOOLEAN)
    BY <1>1, MembershipType, DependenciesType
  <2>. HIDE DEF done, deps
  <2>2. /\ r \in Refresh /\ r.at = "recheck" /\ r.id = wk[w].id /\ r.conv = wk[w].conv
    BY <1>1, <2>1, RechecksType
  <2>. HIDE DEF r
  <2>3. wk'[w] = r
    BY <1>1, <1>7 DEF TypeOK
  <2>4. event' \in Seq(Event) /\ Grown
    BY <1>1, <1>7, FrozenGrown DEF TypeOK
  <2>5. Firm(w)'
    <3>1. Mine(w)' = Mine(w)
      BY <1>7, <2>2, <2>3 DEF Mine
    <3>2. Mine(w).tr = "merged" => Resolved(Mine(w).conv \in declared, Dependencies)
      BY <1>7 DEF Unresolved
    <3>. QED
      BY <1>2, <3>1, <3>2, DependenciesSame DEF Firm, Resolved, factVars
  <2>6. r.at \in Hand
    BY <2>2 DEF Hand
  <2>. QED
    BY <1>1, <1>2, <1>7, <2>2, <2>4, <2>5, <2>6, InnerKeeps, NoDoubt
<1>. QED
  BY <1>4, <1>5, <1>6, <1>7, Zenon DEF Guard, Rechecks

LEMMA GuardFailsKeeps ==
  ASSUME IInv, NEW w \in Worker, GuardFails(w)
  PROVE  IInv' /\ Doubt
<1>1. TypeOK /\ wk[w].at \in Hand
  BY DEF IInv, GuardFails, Hand
<1>2. /\ faults' \in 0..MaxFaults /\ crashes' \in 0..MaxCrashes
      /\ UNCHANGED <<peopleVars, stream>> /\ UNCHANGED <<factVars, changes, stream>>
      /\ remote' \in [issue : Issue, board : Board]
  BY <1>1, QuietType, RemoteSame DEF GuardFails
<1>3. CASE read_failure(w, "amend")
  BY <1>1, <1>2, <1>3, ReadFailureKeeps, DropDoubts
<1>4. CASE Conflict(w)
  BY <1>1, <1>2, <1>4, ConflictKeeps
<1>5. CASE Finish(w, IF wk[w].was = "uncertain" THEN "uncertain" ELSE "blocked", "fail")
  <2>. DEFINE st == IF wk[w].was = "uncertain" THEN "uncertain" ELSE "blocked"
  <2>1. st \in State \ {"processing"}
    BY DEF State
  <2>2. Finish(w, st, "fail")
    BY <1>5
  <2>. HIDE DEF st
  <2>. QED
    BY <1>1, <1>2, <2>1, <2>2, FinishKeeps, DropDoubts
<1>. QED
  BY <1>3, <1>4, <1>5 DEF GuardFails

Sends(r) == [r EXCEPT !.at = "send", !.done = FALSE, !.seen = Unplanned]

LEMMA SendsType ==
  ASSUME NEW r \in Refresh
  PROVE  /\ Sends(r) \in Refresh /\ Sends(r).at = "send" /\ Sends(r).id = r.id
         /\ Sends(r).conv = r.conv
BY IdleType DEF Sends, Refresh, Place

LEMMA AttemptMark ==
  ASSUME NEW e \in Event, e.attempts < 3
  PROVE  /\ [e EXCEPT !.attempts = e.attempts + 1] \in Event
         /\ [e EXCEPT !.attempts = e.attempts + 1].state = e.state
         /\ [e EXCEPT !.attempts = e.attempts + 1].conv = e.conv
         /\ [e EXCEPT !.attempts = e.attempts + 1].target = e.target
         /\ [e EXCEPT !.attempts = e.attempts + 1].tr = e.tr
         /\ [e EXCEPT !.attempts = e.attempts + 1].value = e.value
         /\ [e EXCEPT !.attempts = e.attempts + 1].reads = e.reads
BY DEF Event

LEMMA RecheckKeeps ==
  ASSUME IInv, NEW w \in Worker, Recheck(w)
  PROVE  IInv' /\ Doubt
<1>. DEFINE i == wk[w].id
            e == [event[i] EXCEPT !.attempts = event[i].attempts + 1]
            r == Sends(wk[w])
<1>1. /\ TypeOK /\ wk[w].at \in Hand /\ wk[w] \in Refresh /\ wk[w].at = "recheck"
      /\ i \in Ids /\ event[i] \in Event /\ event[i].state = "processing"
  BY IdsAre DEF IInv, TypeOK, Recheck, Hand, Rest, Knows, Holding, Mine
<1>2. /\ faults' \in 0..MaxFaults /\ crashes' \in 0..MaxCrashes /\ Quiet
      /\ UNCHANGED <<peopleVars, stream>> /\ UNCHANGED <<factVars, changes, stream>>
      /\ remote' \in [issue : Issue, board : Board]
  BY <1>1, QuietType, RemoteSame DEF Recheck
<1>3. "blocked" \in State \ {"processing"}
  BY DEF State
<1>4. CASE Finish(w, "blocked", "claim")
  BY <1>1, <1>2, <1>3, <1>4, FinishKeeps, DropDoubts
<1>5. CASE Conflict(w)
  BY <1>1, <1>2, <1>5, ConflictKeeps
<1>6. CASE /\ event[i].attempts < 3 /\ event' = [event EXCEPT ![i] = e]
           /\ wk' = [wk EXCEPT ![w] = r]
  <2>1. /\ e \in Event /\ e.state = "processing" /\ e.conv = event[i].conv
        /\ e.target = event[i].target /\ e.tr = event[i].tr /\ e.value = event[i].value
        /\ e.reads = event[i].reads
    BY <1>1, <1>6, AttemptMark
  <2>2. /\ r \in Refresh /\ r.at = "send" /\ r.id = i /\ r.conv = wk[w].conv
    BY <1>1, SendsType
  <2>. HIDE DEF e, r
  <2>3. /\ event' \in Seq(Event) /\ Ids' = Ids /\ event'[i] = e
        /\ \A j \in Ids : Alike(j)
        /\ \A j \in Ids \ {i} : event'[j] = event[j]
    BY <1>1, <1>6, <2>1, Updated
  <2>4. Grown
    BY <1>1, <2>1, <2>3 DEF Grown
  <2>5. wk'[w] = r
    BY <1>1, <1>6 DEF TypeOK
  <2>6. Firm(w)'
    BY <1>1, <1>2, <2>2, <2>4, <2>5, StaysFirm DEF factVars
  <2>7. r.at \in Hand
    BY <2>2 DEF Hand
  <2>8. Doubt
    BY <1>1, <2>3, DropDoubts
  <2>. QED
    BY <1>1, <1>2, <1>6, <2>2, <2>3, <2>4, <2>6, <2>7, <2>8, InnerKeeps
<1>. QED
  BY <1>4, <1>5, <1>6, Zenon DEF Recheck, Sends, Mine

LEMMA SendKeeps ==
  ASSUME IInv, NEW w \in Worker, Send(w)
  PROVE  IInv' /\ Doubt
<1>1. TypeOK /\ wk[w].at \in Hand /\ wk[w].at = "send"
  BY DEF IInv, Send, Hand
<1>2. /\ faults' \in 0..MaxFaults /\ crashes' \in 0..MaxCrashes /\ Quiet
      /\ UNCHANGED <<factVars, changes, stream>> /\ remote' \in [issue : Issue, board : Board]
  BY <1>1, QuietType, RemoteSame DEF Send
<1>3. "uncertain" \in State \ {"processing"} /\ "confirm" \in Hand /\ "patch" \in Hand
  BY DEF State, Hand
<1>4. CASE Goto(w, "confirm") /\ UNCHANGED event
  BY <1>1, <1>2, <1>3, <1>4, GotoInner
<1>5. CASE Finish(w, "uncertain", "amend")
  BY <1>1, <1>2, <1>3, <1>5, FinishKeeps, DropDoubts
<1>6. CASE Goto(w, "patch") /\ UNCHANGED event
  BY <1>1, <1>2, <1>3, <1>6, GotoInner
<1>. QED
  BY <1>4, <1>5, <1>6, Zenon DEF Send

LEMMA PatchKeeps ==
  ASSUME IInv, NEW w \in Worker, Patch(w)
  PROVE  IInv' /\ Doubt
<1>1. wk[w].at \in Hand /\ wk[w].at = "patch" /\ "confirm" \in Hand
  BY DEF Patch, Hand
<1>2. remote' \in [issue : Issue, board : Board]
  BY <1>1, LandsType DEF Patch
<1>. QED
  BY <1>1, <1>2, GotoInner DEF Patch

LEMMA UnansweredKeeps ==
  ASSUME IInv, NEW w \in Worker, Unanswered(w)
  PROVE  IInv' /\ Doubt
<1>1. TypeOK /\ wk[w].at \in Hand
  BY DEF IInv, Unanswered, Hand
<1>2. /\ faults' \in 0..MaxFaults /\ crashes' \in 0..MaxCrashes
      /\ UNCHANGED <<factVars, changes, stream>>
  BY <1>1, QuietType DEF Unanswered
<1>3. remote' \in [issue : Issue, board : Board]
  <2>1. CASE Lands(w)
    BY <1>1, <2>1, LandsType
  <2>2. CASE UNCHANGED remote
    BY <1>1, <2>2 DEF TypeOK
  <2>. QED
    BY <2>1, <2>2, Zenon DEF Unanswered
<1>4. PICK next \in {"amend", "fail"} : Finish(w, "uncertain", next)
  BY Zenon DEF Unanswered
<1>5. "uncertain" \in State \ {"processing"}
  BY DEF State
<1>. QED
  BY <1>1, <1>2, <1>3, <1>4, <1>5, FinishKeeps, DropDoubts

LEMMA ConfirmKeeps ==
  ASSUME IInv, NEW w \in Worker, Confirm(w)
  PROVE  IInv' /\ Doubt
<1>1. TypeOK /\ wk[w].at \in Hand
  BY DEF IInv, Confirm, Hand
<1>2. /\ faults' \in 0..MaxFaults /\ crashes' \in 0..MaxCrashes
      /\ UNCHANGED <<factVars, changes, stream>> /\ remote' \in [issue : Issue, board : Board]
  BY <1>1, QuietType, RemoteSame DEF Confirm
<1>3. {"applied", "uncertain"} \subseteq State \ {"processing"}
  BY DEF State
<1>4. CASE Finish(w, "applied", "claim")
  BY <1>1, <1>2, <1>3, <1>4, FinishKeeps, DropDoubts
<1>5. CASE Finish(w, "uncertain", "amend")
  BY <1>1, <1>2, <1>3, <1>5, FinishKeeps, DropDoubts
<1>. QED
  BY <1>4, <1>5, Zenon DEF Confirm

LEMMA ClaimKeeps ==
  ASSUME IInv, NEW w \in Worker, Claim(w)
  PROVE  IInv' /\ Doubt
<1>1. /\ "processing" \notin {"pending", "uncertain"} /\ wk[w].at \in {"claim", "drain"}
      /\ claim(w, {"pending", "uncertain"}, "guard") /\ UNCHANGED <<peopleVars, stream>> /\ Quiet
  BY DEF Claim
<1>. QED
  BY <1>1, ClaimTakes DEF Doubt

LEMMA DrainKeeps ==
  ASSUME IInv, NEW w \in Worker, Drain(w)
  PROVE  IInv' /\ Doubt
<1>1. /\ "processing" \notin {"uncertain"} /\ wk[w].at \in {"claim", "drain"}
      /\ claim(w, {"uncertain"}, "reread") /\ UNCHANGED <<peopleVars, stream>> /\ Quiet
  BY DEF Drain
<1>. QED
  BY <1>1, ClaimTakes DEF Doubt

LEMMA RereadKeeps ==
  ASSUME IInv, NEW w \in Worker, Reread(w)
  PROVE  IInv' /\ Doubt
<1>1. TypeOK /\ wk[w].at \in Hand
  BY DEF IInv, Reread, Hand
<1>2. /\ faults' \in 0..MaxFaults /\ crashes' \in 0..MaxCrashes
      /\ UNCHANGED <<factVars, changes, stream>> /\ remote' \in [issue : Issue, board : Board]
  BY <1>1, QuietType, RemoteSame DEF Reread
<1>3. {"applied", "uncertain"} \subseteq State \ {"processing"}
  BY DEF State
<1>4. CASE Finish(w, "applied", "drain")
  BY <1>1, <1>2, <1>3, <1>4, FinishKeeps, DropDoubts
<1>5. CASE event' = [event EXCEPT ![wk[w].id].state = "uncertain"] /\ Leave(w)
  <2>. DEFINE i == wk[w].id
              e == [event[i] EXCEPT !.state = "uncertain"]
  <2>1. i \in Ids /\ event[i] \in Event
    BY <1>1, IdsAre DEF IInv, Rest, Knows, Holding
  <2>2. /\ e \in Event /\ e.state = "uncertain" /\ e.conv = event[i].conv
        /\ e.target = event[i].target /\ e.tr = event[i].tr /\ e.value = event[i].value
    BY <1>3, <2>1, StateMark
  <2>3. event' = [event EXCEPT ![i] = e]
    BY <1>5
  <2>. HIDE DEF e
  <2>4. /\ event' \in Seq(Event) /\ Ids' = Ids /\ event'[i] = e
        /\ \A j \in Ids : Alike(j)
        /\ \A j \in Ids \ {i} : event'[j] = event[j]
    BY <1>1, <2>1, <2>2, <2>3, Updated
  <2>5. /\ Idle \in Refresh /\ Idle.at = "idle" /\ Idle.id = 0
    BY IdleType DEF Idle
  <2>6. wk' \in [Worker -> Refresh] /\ wk'[w] = Idle /\ \A v \in Worker \ {w} : wk'[v] = wk[v]
    BY <1>1, <1>5, <2>5 DEF TypeOK, Leave
  <2>7. TypeOK'
    <3>1. \A v \in Worker : wk'[v].id \in Ids' \union {0}
      BY <1>1, <2>4, <2>5, <2>6 DEF TypeOK
    <3>. QED
      BY <1>1, <1>2, <2>4, <2>6, <3>1 DEF TypeOK, factVars, Ids
  <2>8. Rest'
    BY <1>1, <1>2, <2>2, <2>4, <2>5, <2>6, LetsGo DEF factVars, Hand
  <2>. QED
    BY <1>1, <2>4, <2>7, <2>8, DropDoubts DEF IInv
<1>. QED
  BY <1>4, <1>5, Zenon DEF Reread

LEMMA RereadFailsKeeps ==
  ASSUME IInv, NEW w \in Worker, RereadFails(w)
  PROVE  IInv' /\ Doubt
<1>1. TypeOK /\ wk[w].at \in Hand
  BY DEF IInv, RereadFails, Hand
<1>2. /\ faults' \in 0..MaxFaults /\ crashes' \in 0..MaxCrashes
      /\ UNCHANGED <<peopleVars, stream>> /\ read_failure(w, "fail")
  BY <1>1, QuietType DEF RereadFails
<1>. QED
  BY <1>1, <1>2, ReadFailureKeeps, DropDoubts

-----------------------------------------------------------------------------
(* People, and the process.                                                   *)

LEMMA Stays ==
  ASSUME UNCHANGED wk
  PROVE  \A v \in Worker : Same(v)
BY DEF Same

LEMMA EditKeeps ==
  ASSUME IInv, NEW t \in Target, NEW v, t = "issue" => v \in Issue, t = "board" => v \in Board,
         Edit(t, v)
  PROVE  IInv' /\ Doubt
<1>1. TypeOK
  BY DEF IInv
<1>2. remote' \in [issue : Issue, board : Board]
  <2>1. CASE t = "issue"
    <3>1. remote' = [remote EXCEPT !.issue = v]
      BY <2>1 DEF Edit
    <3>. QED
      BY <1>1, <2>1, <3>1 DEF TypeOK
  <2>2. CASE t = "board"
    <3>1. remote' = [remote EXCEPT !.board = v]
      BY <2>2 DEF Edit
    <3>. QED
      BY <1>1, <2>2, <3>1 DEF TypeOK
  <2>. QED
    BY <2>1, <2>2 DEF Target
<1>3. UNCHANGED <<pr, linked, declared, policy, stream, event, wk>> /\ Quiet /\ People
  BY DEF Edit, factVars
<1>4. TypeOK'
  BY <1>1, <1>2, <1>3, QuietType DEF TypeOK, Ids
<1>5. Rest'
  BY <1>3, Stays, FrozenGrown, Steady
<1>. QED
  BY <1>3, <1>4, <1>5, NoDoubt DEF IInv

LEMMA ConfigureKeeps ==
  ASSUME IInv, Configure
  PROVE  IInv' /\ Doubt
<1>1. TypeOK
  BY DEF IInv
<1>2. UNCHANGED <<pr, linked, declared, remote, stream, event, wk>> /\ Quiet /\ People
  BY DEF Configure
<1>3. policy' \in BOOLEAN
  BY <1>1 DEF Configure, TypeOK
<1>4. TypeOK'
  BY <1>1, <1>2, <1>3, QuietType DEF TypeOK, Ids
<1>5. Rest'
  BY <1>2, Stays, FrozenGrown, Steady
<1>. QED
  BY <1>2, <1>4, <1>5, NoDoubt DEF IInv

\* Workers, outbox and remote are left alone, and no closure in hand loses its ground.
LEMMA FactsKeep ==
  ASSUME IInv, UNCHANGED <<policy, remote, stream, event, wk>>, Quiet, People,
         pr' \in [Conv -> Transition], linked' \subseteq Conv, declared' \subseteq linked',
         \A w \in Worker : Firm(w)'
  PROVE  IInv' /\ Doubt
<1>1. TypeOK
  BY DEF IInv
<1>2. TypeOK'
  BY <1>1, QuietType DEF TypeOK, Ids
<1>3. Hands' /\ Kinds'
  BY DEF IInv, Rest, Hands, Kinds, Kind, Ids
<1>4. \A w \in Worker : Holding(w)' /\ Seen(w)' /\ Called(w)'
  BY DEF IInv, Rest, Knows, Holding, Seen, Called, Mine, Gated, Resolved, Ids
<1>. QED
  BY <1>2, <1>3, <1>4, NoDoubt DEF IInv, Rest, Knows

LEMMA AdvanceKeeps ==
  ASSUME IInv, NEW c \in Conv, NEW t \in Transition, Advance(c, t)
  PROVE  IInv' /\ Doubt
<1>1. TypeOK /\ pr[c] # "merged" /\ pr' = [pr EXCEPT ![c] = t]
  BY DEF IInv, Advance
<1>2. UNCHANGED <<linked, declared, policy, remote, stream, event, wk>> /\ Quiet /\ People
  BY DEF Advance
<1>3. pr' \in [Conv -> Transition]
  BY <1>1 DEF TypeOK
<1>4. ASSUME NEW w \in Worker
      PROVE  Firm(w)'
  <2>1. SUFFICES ASSUME wk[w].at \in {"recheck", "send", "patch", "confirm"},
                        Mine(w).tr = "merged"
                 PROVE  Resolved(Mine(w).conv \in declared, Dependencies)'
    BY <1>2 DEF Firm, Mine
  <2>2. Resolved(Mine(w).conv \in declared, Dependencies)
    BY <2>1 DEF IInv, Rest, Knows, Firm
  <2>3. \A d \in linked : pr[d] = "merged"
    <3>1. TAKE d \in linked
    <3>2. <<d, pr[d] = "merged">> \in Dependencies
      BY DEF Dependencies
    <3>3. <<d, pr[d] = "merged">>[2]
      BY <2>2, <3>2 DEF Resolved
    <3>. QED
      BY <3>3
  <2>4. \A d \in linked : pr'[d] = pr[d]
    BY <1>1, <2>3 DEF TypeOK
  <2>5. Dependencies' = Dependencies
    BY <1>2, <2>4 DEF Dependencies
  <2>. QED
    BY <1>2, <2>2, <2>5 DEF Resolved, Mine
<1>. QED
  BY <1>1, <1>2, <1>3, <1>4, FactsKeep DEF TypeOK

\* Nothing is in hand while the memberships may change.
LEMMA GuardedFirm ==
  ASSUME IInv, guard_change, UNCHANGED <<event, wk>>
  PROVE  \A w \in Worker : Firm(w)'
<1>1. \A w \in Worker : wk[w].at \notin Hand
  BY DEF IInv, Rest, Knows, Holding, Mine, guard_change, InDoubt
<1>. QED
  BY <1>1 DEF Firm, Hand

LEMMA LinkKeeps ==
  ASSUME IInv, NEW c \in Conv, Link(c)
  PROVE  IInv' /\ Doubt
<1>1. /\ UNCHANGED <<pr, declared, policy, remote, stream, event, wk>> /\ Quiet /\ People
      /\ linked' = linked \union {c} /\ guard_change
  BY DEF Link
<1>. QED
  BY <1>1, GuardedFirm, FactsKeep DEF IInv, TypeOK

LEMMA DeclareKeeps ==
  ASSUME IInv, NEW c \in Conv, Declare(c)
  PROVE  IInv' /\ Doubt
<1>1. /\ UNCHANGED <<pr, linked, policy, remote, stream, event, wk>> /\ Quiet /\ People
      /\ guard_change /\ c \in linked
  BY DEF Declare
<1>2. declared' \subseteq linked'
  BY DEF IInv, TypeOK, Declare
<1>. QED
  BY <1>1, <1>2, GuardedFirm, FactsKeep DEF IInv, TypeOK

LEMMA AgainMark ==
  ASSUME NEW e \in Event
  PROVE  /\ [e EXCEPT !.state = "superseded"] \in Event
         /\ [e EXCEPT !.reads = 0] \in Event
         /\ [e EXCEPT !.state = "pending", !.reads = 0] \in Event
<1>1. {"superseded", "pending"} \subseteq State /\ 0 \in 0..3
  BY DEF State
<1>. QED
  BY <1>1 DEF Event

LEMMA ResetType ==
  ASSUME NEW old \in Stream
  PROVE  [old EXCEPT !.reset = TRUE, !.error = ""] \in Stream
BY DEF Stream

LEMMA ReviewedType ==
  ASSUME TypeOK, NEW c
  PROVE  /\ Reviewed(c) \in Seq(Event) /\ DOMAIN Reviewed(c) = Ids
         /\ \A i \in Ids :
              LET e == Reviewed(c)[i] IN
              /\ e.conv = event[i].conv /\ e.target = event[i].target /\ e.tr = event[i].tr
              /\ e.state = "processing" <=> event[i].state = "processing"
              /\ event[i].state = "processing" => e.reads = event[i].reads
              /\ e.value = event[i].value
              /\ event[i].state = "uncertain" => e.state = "uncertain"
<1>1. \A i \in Ids :
        /\ event[i] \in Event /\ [event[i] EXCEPT !.state = "superseded"] \in Event
        /\ [event[i] EXCEPT !.reads = 0] \in Event
        /\ [event[i] EXCEPT !.state = "pending", !.reads = 0] \in Event
  BY IdsAre, AgainMark
<1>2. DOMAIN Reviewed(c) = Ids
  BY DEF Reviewed
<1>3. \A i \in Ids : Reviewed(c)[i] =
        IF Replanned(c, i) THEN [event[i] EXCEPT !.state = "superseded"]
        ELSE IF event[i].conv = c /\ event[i].state = "uncertain" THEN [event[i] EXCEPT !.reads = 0]
        ELSE IF event[i].conv = c /\ event[i].state = "blocked" /\ event[i].attempts < 3
        THEN [event[i] EXCEPT !.state = "pending", !.reads = 0] ELSE event[i]
  BY Zenon DEF Reviewed
<1>4. \A i \in Ids : Reviewed(c)[i] \in Event
  BY <1>1, <1>3
<1>5. Reviewed(c) = [i \in Ids |-> Reviewed(c)[i]]
  BY <1>2 DEF Reviewed
<1>6. Reviewed(c) \in Seq(Event)
  BY <1>2, <1>4, <1>5, Mapped
<1>7. ASSUME NEW i \in Ids
      PROVE  LET e == Reviewed(c)[i] IN
              /\ e.conv = event[i].conv /\ e.target = event[i].target /\ e.tr = event[i].tr
              /\ e.state = "processing" <=> event[i].state = "processing"
              /\ event[i].state = "processing" => e.reads = event[i].reads
              /\ e.value = event[i].value
              /\ event[i].state = "uncertain" => e.state = "uncertain"
  BY <1>1, <1>3 DEF Replanned, Event
<1>. QED
  BY <1>2, <1>6, <1>7

LEMMA RetryKeeps ==
  ASSUME IInv, NEW c \in Conv, retry(c)
  PROVE  IInv' /\ Doubt
<1>1. TypeOK
  BY DEF IInv
<1>2. /\ UNCHANGED <<pr, linked, declared, policy, remote>> /\ Quiet /\ People
      /\ event' = Reviewed(c)
  BY DEF retry, factVars
<1>3. event' \in Seq(Event) /\ Ids' = Ids /\ Grown /\ Doubt
  BY <1>1, <1>2, ReviewedType DEF Grown, Alike, Doubt, Ids
<1>4. stream' \in [Conv -> Stream]
  <2>1. stream' = [stream EXCEPT ![c].reset = TRUE, ![c].error = ""] \/ stream' = stream
    BY Zenon DEF retry
  <2>2. [stream[c] EXCEPT !.reset = TRUE, !.error = ""] \in Stream
    BY <1>1, ResetType DEF TypeOK
  <2>. QED
    BY <1>1, <2>1, <2>2 DEF TypeOK
<1>5. /\ wk' \in [Worker -> Refresh]
      /\ \A v \in Worker : wk'[v].id = wk[v].id /\ Same(v)
  <2>1. \/ wk' = [w \in Worker |-> IF wk[w].conv = c THEN [wk[w] EXCEPT !.fresh = FALSE] ELSE wk[w]]
        \/ wk' = wk
    BY Zenon DEF retry
  <2>2. \A v \in Worker : wk[v] \in Refresh /\ [wk[v] EXCEPT !.fresh = FALSE] \in Refresh
    BY <1>1 DEF TypeOK, Refresh
  <2>3. wk' \in [Worker -> Refresh]
    BY <1>1, <2>1, <2>2 DEF TypeOK
  <2>4. \A v \in Worker : wk'[v] \in {wk[v], [wk[v] EXCEPT !.fresh = FALSE]}
    BY <2>1, Zenon
  <2>. QED
    BY <2>2, <2>3, <2>4 DEF Same, Refresh
<1>6. TypeOK'
  <2>1. \A v \in Worker : wk'[v].id \in Ids' \union {0}
    BY <1>1, <1>3, <1>5 DEF TypeOK
  <2>. QED
    BY <1>1, <1>2, <1>3, <1>4, <1>5, <2>1, QuietType DEF TypeOK, Ids
<1>7. Rest'
  BY <1>2, <1>3, <1>5, Steady
<1>. QED
  BY <1>3, <1>6, <1>7 DEF IInv

LEMMA RecoverKeeps ==
  ASSUME IInv, recover
  PROVE  IInv' /\ Doubt
<1>1. TypeOK
  BY DEF IInv
<1>2. /\ UNCHANGED <<peopleVars, stream, faults>> /\ crashes' \in 0..MaxCrashes
      /\ wk' = [w \in Worker |-> Idle]
  BY <1>1, SyncAssumption DEF recover, TypeOK
<1>3. \A i \in Ids : event[i] \in Event /\ [event[i] EXCEPT !.state = "uncertain"] \in Event
  BY <1>1, IdsAre DEF Event, State
<1>4. /\ DOMAIN event' = Ids
      /\ \A i \in Ids : event'[i] =
           IF event[i].state = "processing" THEN [event[i] EXCEPT !.state = "uncertain"]
           ELSE event[i]
  BY Zenon DEF recover
<1>5. event' \in Seq(Event)
  <2>1. \A i \in Ids : event'[i] \in Event
    BY <1>3, <1>4
  <2>2. event' = [i \in Ids |-> event'[i]]
    BY <1>4 DEF recover
  <2>. QED
    BY <1>1, <1>4, <2>1, <2>2, Mapped
<1>6. Ids' = Ids
  BY <1>4 DEF Ids
<1>7. \A i \in Ids : Alike(i) /\ event'[i].state # "processing"
  BY <1>3, <1>4 DEF Alike, Event
<1>8. Idle \in Refresh /\ Idle.at = "idle" /\ Idle.id = 0
  BY IdleType DEF Idle
<1>9. wk' \in [Worker -> Refresh] /\ \A v \in Worker : wk'[v] = Idle
  BY <1>2, <1>8
<1>10. TypeOK'
  BY <1>1, <1>2, <1>5, <1>8, <1>9 DEF TypeOK, peopleVars, factVars, Ids
<1>11. Hands' /\ Kinds'
  BY <1>6, <1>7, <1>8, <1>9 DEF Hands, Hand, IInv, Rest, Kinds, Kind, Alike
<1>12. \A v \in Worker : Holding(v)' /\ Seen(v)' /\ Firm(v)' /\ Called(v)'
  BY <1>8, <1>9 DEF Holding, Seen, Firm, Called, Hand
<1>13. Doubt
  BY <1>4 DEF Doubt
<1>. QED
  BY <1>10, <1>11, <1>12, <1>13 DEF IInv, Rest, Knows

-----------------------------------------------------------------------------
(* The whole next-state relation.                                             *)

LEMMA Begins ==
  ASSUME Init
  PROVE  IInv
<1>1. wk = [w \in Worker |-> Idle] /\ event = <<>> /\ Ids = {}
  BY DEF Init, Ids
<1>2. Idle \in Refresh /\ Idle.at = "idle" /\ Idle.id = 0
  BY IdleType DEF Idle
<1>3. NoStream \in Stream
  BY IdleType DEF NoStream, Stream
<1>4. pr \in [Conv -> Transition]
  BY SyncAssumption DEF Init
<1>5. remote \in [issue : Issue, board : Board]
  BY DEF Init, Issue, Board
<1>6. linked \subseteq Conv /\ declared \subseteq linked /\ policy \in BOOLEAN
  BY SyncAssumption DEF Init
<1>7. event \in Seq(Event)
  BY <1>1, EmptySeq
<1>8. /\ stream \in [Conv -> Stream]
      /\ changes \in 0..MaxChanges /\ faults \in 0..MaxFaults /\ crashes \in 0..MaxCrashes
  BY <1>3, SyncAssumption DEF Init
<1>9. TypeOK
  BY <1>1, <1>2, <1>4, <1>5, <1>6, <1>7, <1>8 DEF TypeOK
<1>10. Rest
  BY <1>1, <1>2 DEF Rest, Hands, Kinds, Knows, Holding, Seen, Firm, Called, Hand
<1>. QED
  BY <1>9, <1>10 DEF IInv

LEMMA RefreshKeeps ==
  ASSUME IInv, NEW w \in Worker, refresh(w) \/ Trouble(w)
  PROVE  IInv' /\ Doubt
<1>1. CASE Baseline(w)
  BY <1>1, BaselineKeeps, NoDoubt DEF Baseline
<1>2. CASE Observe(w)
  BY <1>2, ObserveKeeps, NoDoubt DEF Observe
<1>3. CASE record(w)
  BY <1>3, RecordKeeps, RecordWrites DEF Doubt
<1>4. CASE Overtaken(w)
  BY <1>4, OvertakenKeeps, NoDoubt DEF Overtaken
<1>5. CASE amend(w)
  BY <1>5, AmendKeeps, NoDoubt DEF amend
<1>6. CASE Fail(w)
  BY <1>6, FailKeeps, NoDoubt DEF Fail
<1>7. CASE Claim(w)
  BY <1>7, ClaimKeeps
<1>8. CASE NothingToDo(w)
  BY <1>8, NothingKeeps, NoDoubt DEF NothingToDo
<1>9. CASE Guard(w)
  BY <1>9, GuardKeeps
<1>10. CASE Recheck(w)
  BY <1>10, RecheckKeeps
<1>11. CASE Send(w)
  BY <1>11, SendKeeps
<1>12. CASE Patch(w)
  BY <1>12, PatchKeeps
<1>13. CASE Confirm(w)
  BY <1>13, ConfirmKeeps
<1>14. CASE Drain(w)
  BY <1>14, DrainKeeps
<1>15. CASE Reread(w)
  BY <1>15, RereadKeeps
<1>16. CASE Unread(w)
  BY <1>16, UnreadKeeps, NoDoubt DEF Unread
<1>17. CASE GuardFails(w)
  BY <1>17, GuardFailsKeeps
<1>18. CASE Unanswered(w)
  BY <1>18, UnansweredKeeps
<1>19. CASE RereadFails(w)
  BY <1>19, RereadFailsKeeps
<1>. QED
  BY <1>1, <1>2, <1>3, <1>4, <1>5, <1>6, <1>7, <1>8, <1>9, <1>10, <1>11, <1>12, <1>13, <1>14,
     <1>15, <1>16, <1>17, <1>18, <1>19, Zenon DEF refresh, Trouble

LEMMA OutsideKeeps ==
  ASSUME IInv, Outside
  PROVE  IInv' /\ Doubt
<1>1. CASE \E v \in Board : Edit("board", v)
  BY <1>1, EditKeeps DEF Target
<1>2. CASE \E v \in Issue : Edit("issue", v)
  BY <1>2, EditKeeps DEF Target
<1>3. CASE \E c \in Conv : Link(c)
  BY <1>3, LinkKeeps
<1>4. CASE \E c \in Conv : Declare(c)
  BY <1>4, DeclareKeeps
<1>5. CASE \E c \in Conv : retry(c)
  BY <1>5, RetryKeeps
<1>6. CASE \E c \in Conv : \E t \in Transition : Advance(c, t)
  BY <1>6, AdvanceKeeps
<1>7. CASE Configure
  BY <1>7, ConfigureKeeps
<1>8. CASE recover
  BY <1>8, RecoverKeeps
<1>. QED
  BY <1>1, <1>2, <1>3, <1>4, <1>5, <1>6, <1>7, <1>8, Zenon DEF Outside

LEMMA NextKeeps ==
  ASSUME IInv, [Next]_vars
  PROVE  IInv' /\ Doubt
<1>1. CASE \E w \in Worker : refresh(w) \/ Trouble(w)
  BY <1>1, RefreshKeeps
<1>2. CASE \E w \in Worker : \E c \in Conv : Begin(w, c)
  <2>1. PICK w \in Worker, c \in Conv : Begin(w, c)
    BY <1>2
  <2>. QED
    BY <2>1, BeginKeeps, NoDoubt DEF Begin
<1>3. CASE Outside
  BY <1>3, OutsideKeeps
<1>4. CASE UNCHANGED vars
  <2>. USE <1>4 DEF vars, peopleVars, factVars
  <2>1. TypeOK'
    BY DEF IInv, TypeOK, Ids
  <2>2. Rest'
    BY FrozenGrown, Stays, Steady DEF IInv
  <2>. QED
    BY <2>1, <2>2, NoDoubt DEF IInv
<1>. QED
  BY <1>1, <1>2, <1>3, <1>4, Zenon DEF Next

\* The invariant that the others follow from: whatever people, faults and restarts do, the
\* refreshes of issue_sync.py and its outbox stay typed, one event is in execution at most and
\* is in one worker's hands, and what the guard read of a closure still stands.
THEOREM Invariance == Spec => []IInv
<1>1. Init => IInv
  BY Begins
<1>2. IInv /\ [Next]_vars => IInv'
  BY NextKeeps
<1>. QED
  BY <1>1, <1>2, PTL DEF Spec

\* Streams, events, refreshes and the remote values stay of their types.
THEOREM TypeCorrect == Spec => []TypeOK
<1>1. IInv => TypeOK
  BY DEF IInv
<1>. QED
  BY <1>1, Invariance, PTL

\* The claim of issue_sync_store.py and the recovery of the start leave at most one event of
\* the issue in execution, and exactly one worker has it.
THEOREM OneInHandHolds == Spec => []OneInHand
<1>1. ASSUME IInv
      PROVE  OneInHand
  <2>1. SUFFICES ASSUME NEW i \in Ids, NEW j \in Ids,
                        event[i].state = "processing", event[j].state = "processing"
                 PROVE  i = j /\ Cardinality({w \in Worker : wk[w].id = i}) = 1
    BY DEF OneInHand
  <2>2. i = j /\ i # 0
    BY <1>1, <2>1, IdsAre DEF IInv, Rest, Hands
  <2>3. PICK w \in Worker : wk[w].id = i
    BY <1>1, <2>1 DEF IInv, Rest, Hands
  <2>4. \A v \in Worker : wk[v].id = i => v = w
    BY <1>1, <2>2, <2>3 DEF IInv, Rest, Hands, Knows, Holding
  <2>5. {v \in Worker : wk[v].id = i} = {w}
    BY <2>3, <2>4
  <2>. QED
    BY <2>2, <2>5, FS_Singleton
<1>. QED
  BY <1>1, Invariance, PTL

\* A step of another worker, of a person or of the process leaves w where it is, or does not
\* write to GitHub: only w's own write closes the issue as w leaves "patch".
LEMMA ClosesItself ==
  ASSUME IInv, [Next]_vars, NEW w \in Worker,
         wk[w].at = "patch", wk'[w].at # "patch", remote'.issue # remote.issue
  PROVE  wk[w].at \in Hand /\ Lands(w)
<1>1. TypeOK /\ wk[w].at \in Hand
  BY DEF IInv, Hand
<1>2. ASSUME NEW v \in Worker, Patch(v) \/ Unanswered(v), v # w
      PROVE  wk'[w] = wk[w]
  BY <1>1, <1>2 DEF Patch, Unanswered, Goto, Finish, TypeOK
<1>3. ~UNCHANGED remote /\ ~UNCHANGED wk
  OBVIOUS
<1>4. ~Outside
  BY <1>3 DEF Outside, Edit, Link, Declare, retry, Advance, Configure, recover, peopleVars,
         factVars
<1>5. \A v \in Worker : ~(\E c \in Conv : Begin(v, c))
  BY <1>3 DEF Begin, peopleVars
<1>6. \A v \in Worker : refresh(v) \/ Trouble(v) => Patch(v) \/ Unanswered(v)
  <2>1. TAKE v \in Worker
  <2>2. ~(Baseline(v) \/ Observe(v) \/ record(v) \/ Overtaken(v) \/ amend(v) \/ Fail(v))
    BY <1>3 DEF Baseline, Observe, record, Overtaken, amend, Fail, peopleVars
  <2>3. ~(Claim(v) \/ NothingToDo(v) \/ Guard(v) \/ Recheck(v) \/ Send(v) \/ Confirm(v))
    BY <1>3 DEF Claim, NothingToDo, Guard, Recheck, Send, Confirm, peopleVars
  <2>4. ~(Drain(v) \/ Reread(v) \/ Unread(v) \/ GuardFails(v) \/ RereadFails(v))
    BY <1>3 DEF Drain, Reread, Unread, GuardFails, RereadFails, peopleVars
  <2>. QED
    BY <2>2, <2>3, <2>4, Zenon DEF refresh, Trouble
<1>7. PICK v \in Worker : Patch(v) \/ Unanswered(v)
  BY <1>3, <1>4, <1>5, <1>6, Zenon DEF Next, vars, peopleVars
<1>8. v = w
  BY <1>2, <1>7
<1>. QED
  BY <1>1, <1>3, <1>7, <1>8 DEF Patch, Unanswered

\* The write that closes the issue finds its conversation declared and every linked pull request
\* merged, however long ago _guard read that.
THEOREM ClosedWhenResolvedHolds == Spec => ClosedWhenResolved
<1>1. ASSUME IInv, [Next]_vars, NEW w \in Worker,
             wk[w].at = "patch", wk'[w].at # "patch", remote'.issue # remote.issue
      PROVE  Resolved(Mine(w).conv \in declared, Dependencies)
  <2>1. wk[w].at \in Hand /\ Lands(w)
    BY <1>1, ClosesItself
  <2>2. Mine(w).tr = "merged"
    BY <1>1, <2>1, LandsType
  <2>. QED
    BY <1>1, <2>2 DEF IInv, Rest, Knows, Firm
<1>2. IInv /\ [Next]_vars =>
        [\A w \in Worker :
           wk[w].at = "patch" /\ wk'[w].at # "patch" /\ remote'.issue # remote.issue
             => Resolved(Mine(w).conv \in declared, Dependencies)]_vars
  BY <1>1
<1>. QED
  BY <1>2, Invariance, PTL DEF Spec, ClosedWhenResolved

\* An outcome in doubt leaves that state only through a worker that takes it up and reads
\* GitHub: neither a new plan, nor a retry, nor a restart discards it.
THEOREM DoubtIsReadHolds == Spec => DoubtIsRead
<1>1. IInv /\ [Next]_vars => [\A i \in Ids : event[i].state = "uncertain" =>
                                event'[i].state \in {"uncertain", "processing"}]_vars
  BY NextKeeps DEF Doubt
<1>. QED
  BY <1>1, Invariance, PTL DEF Spec, DoubtIsRead
=============================================================================
