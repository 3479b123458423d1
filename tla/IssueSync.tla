------------------------------ MODULE IssueSync ------------------------------
(***************************************************************************)
(* The synchronisation of one GitHub issue, and of its item on a board,    *)
(* with the conversations linked to it: issue_sync.py, the durable outbox  *)
(* of issue_sync_store.py and the writes of issue_sync_github.py.          *)
(*                                                                         *)
(* A worker is one call of refresh: the monitor's of a conversation, or a  *)
(* person's.  It reads the stored stream, then GitHub, records what it saw *)
(* with the effects that calls for, and executes effects one at a time.    *)
(* People edit the issue and the board, move pull requests, change the     *)
(* policy, link, declare and retry at any time in between.                 *)
(***************************************************************************)
EXTENDS Integers, Sequences, FiniteSets

CONSTANTS
  Conv,        \* conversations of the project
  Worker,      \* refreshes at a time: the monitor has at most two, people have their own
  Transition,  \* stages of a pull request that the policy maps: "merged" and others
  Serves,      \* bound: the conversations each worker is called for
  Later,       \* conversations not linked to the issue at first
  Merged,      \* conversations whose pull request is merged and declared at first
  Parked,      \* values of the board that the policy maps to no transition
  Nobody,      \* a worker at rest has no conversation
  MaxChanges,  \* bound: what people do
  MaxFaults,   \* bound: reads that fail, answers that are lost, refusals
  MaxCrashes   \* bound: ends of the process

Board == Transition \union Parked
Issue == {"open", "closed"}
Target == {"issue", "board"}

ASSUME SyncAssumption ==
  /\ Serves \in [Worker -> SUBSET Conv] /\ \A c \in Conv : \E w \in Worker : c \in Serves[w]
  /\ Later \subseteq Conv /\ Merged \subseteq Conv \ Later /\ Nobody \notin Conv
  /\ {"started", "merged"} \subseteq Transition /\ Parked # {} /\ "none" \notin Board
  /\ MaxChanges \in Nat /\ MaxFaults \in Nat /\ MaxCrashes \in Nat

VARIABLES
  pr,        \* the transition that the pull request of each conversation stands for
  linked,    \* conversations linked to the issue
  declared,  \* conversations declared by a person to resolve the issue
  policy,    \* the project's policy is enabled
  remote,    \* the issue and the board at GitHub
  stream,    \* issue_sync_streams: the last observation of each conversation
  event,     \* issue_sync_events, by id
  wk,        \* the refreshes in progress
  changes, faults, crashes

factVars == <<pr, linked, declared, policy>>
peopleVars == <<factVars, remote, changes>>
vars == <<peopleVars, stream, event, wk, faults, crashes>>

\* What the fingerprint digests: the transition, the policy, the declaration, and the
\* pull requests a closure depends on; never the values that Relay itself writes.
Fingerprint == [tr : Transition, on : BOOLEAN, done : BOOLEAN, deps : SUBSET (Conv \X BOOLEAN)]
Unplanned == [tr |-> "started", on |-> FALSE, done |-> FALSE, deps |-> {}]

\* The empty fingerprint of an intent to be planned again is `reset`; a board that was not
\* read is "none".
Stream == [row : BOOLEAN, reset : BOOLEAN, fp : Fingerprint,
           board : Board \union {"none"}, error : {"", "manual", "other"}]
NoStream == [row |-> FALSE, reset |-> FALSE, fp |-> Unplanned, board |-> "none", error |-> ""]

State == {"pending", "processing", "uncertain", "blocked", "applied", "superseded"}
Event == [conv : Conv, target : Target, value : Board \union Issue, expected : Board \union Issue,
          tr : Transition, state : State, attempts : 0..3, reads : 0..3]

\* A refresh: where it stands, the project and task it was called with (on, done), whether
\* the stream is still the baseline it read (fresh), what it observed, and its event.
Place == {"idle", "baseline", "observe", "record", "claim", "guard", "recheck", "send",
          "patch", "confirm", "amend", "drain", "reread", "fail"}
Refresh == [at : Place, conv : Conv \union {Nobody}, on : BOOLEAN, done : BOOLEAN, fresh : BOOLEAN,
            round : 0..3, seen : Fingerprint, issue : Issue, board : Board \union {"none"},
            id : Nat, was : State]
Idle == [at |-> "idle", conv |-> Nobody, on |-> FALSE, done |-> FALSE, fresh |-> FALSE,
         round |-> 0, seen |-> Unplanned, issue |-> "open", board |-> "none",
         id |-> 0, was |-> "pending"]

Init ==
  /\ pr = [c \in Conv |-> IF c \in Merged THEN "merged" ELSE "started"]
  /\ linked = Conv \ Later /\ declared = Merged
  /\ policy = TRUE
  /\ remote \in [issue : {"open"}, board : Parked]
  /\ stream = [c \in Conv |-> NoStream] /\ event = <<>>
  /\ wk = [w \in Worker |-> Idle]
  /\ changes = 0 /\ faults = 0 /\ crashes = 0

-----------------------------------------------------------------------------
(* The store.                                                                *)

Open(e) == e.state \notin {"applied", "superseded"}
InDoubt(e) == e.state \in {"processing", "uncertain"}
Ids == DOMAIN event
Now(e) == remote[e.target]

\* Every write of a stream is a new version of it: the baselines others hold are stale.
Stored(w, row, next) ==
  LET c == wk[w].conv IN
  /\ stream' = [stream EXCEPT ![c] = row]
  /\ wk' = [v \in Worker |-> IF v = w THEN next
                            ELSE IF wk[v].conv = c THEN [wk[v] EXCEPT !.fresh = FALSE] ELSE wk[v]]

Goto(w, place) == wk' = [wk EXCEPT ![w].at = place]
Leave(w) == wk' = [wk EXCEPT ![w] = Idle]

\* The event in hand gets a state; `next` is where its worker goes.
Finish(w, st, next) ==
  /\ event' = [event EXCEPT ![wk[w].id].state = st]
  /\ wk' = [wk EXCEPT ![w].at = next, ![w].id = 0, ![w].was = "pending"]

\* An event is left alone while another of the issue is in execution, or an older one is
\* uncertain; one whose reads are spent waits for a person.
ClearOfOlder(i) == \A j \in Ids \ {i} : ~(event[j].state = "uncertain" /\ j < i)  \* mutant
Clear(i) == \A j \in Ids \ {i} : event[j].state # "processing" /\ ~(event[j].state = "uncertain" /\ j < i)
Eligible(c, states) ==
  {i \in Ids : event[i].conv = c /\ event[i].state \in states /\ event[i].reads < 3 /\ Clear(i)}
First(S) == CHOOSE i \in S : \A j \in S : i <= j

claim(w, states, next) ==
  LET S == Eligible(wk[w].conv, states) IN
  /\ S # {}
  /\ event' = [event EXCEPT ![First(S)].state = "processing"]
  /\ wk' = [wk EXCEPT ![w].at = next, ![w].id = First(S), ![w].was = event[First(S)].state]

\* A read that failed before any write of this turn: three of them need a person.
read_failure(w, next) ==
  LET i == wk[w].id
      reads == event[i].reads + 1
      st == IF wk[w].was = "uncertain" THEN "uncertain" ELSE IF reads = 3 THEN "blocked" ELSE "pending"
  IN /\ event' = [event EXCEPT ![i].reads = reads, ![i].state = st]
     /\ wk' = [wk EXCEPT ![w].at = next, ![w].id = 0, ![w].was = "pending"]

\* Links and declarations are frozen while an effect on the issue is in doubt.
guard_uncertain == \A i \in Ids : event[i].state # "uncertain"  \* mutant
guard_change == \A i \in Ids : ~InDoubt(event[i])

Fault == faults < MaxFaults /\ faults' = faults + 1
Quiet == UNCHANGED <<faults, crashes>>

-----------------------------------------------------------------------------
(* Observation.                                                              *)

\* refresh is called with the task and the project read by its caller, the monitor or the
\* route of a person's request.
Begin(w, c) ==
  /\ wk[w].at = "idle" /\ c \in linked \intersect Serves[w]
  /\ wk' = [wk EXCEPT ![w] = [Idle EXCEPT !.at = "baseline", !.conv = c, !.on = policy,
                                          !.done = c \in declared, !.round = 1]]
  /\ UNCHANGED <<peopleVars, stream, event>> /\ Quiet

Baseline(w) ==
  /\ wk[w].at = "baseline"
  /\ wk' = [wk EXCEPT ![w].at = "observe", ![w].fresh = TRUE]
  /\ UNCHANGED <<peopleVars, stream, event>> /\ Quiet

\* The pull requests that a closure depends on.
Dependencies == {<<c, pr[c] = "merged">> : c \in linked}
Resolved(done, deps) == done /\ \A d \in deps : d[2]
Gated(f, issue) == IF f.tr = "merged" THEN ~Resolved(f.done, f.deps) ELSE issue = "closed"

\* The board is not read where the gate or a closed issue already forbids every effect.
Observe(w) ==
  LET me == wk[w]
      deps == IF me.on /\ me.done /\ pr[me.conv] = "merged" THEN Dependencies ELSE {}
      f == [tr |-> pr[me.conv], on |-> me.on, done |-> me.done, deps |-> deps]
  IN /\ me.at = "observe"
     /\ wk' = [wk EXCEPT ![w].at = "record", ![w].seen = f, ![w].issue = remote.issue,
                         ![w].board = IF me.on /\ Gated(f, remote.issue) THEN "none" ELSE remote.board]
     /\ UNCHANGED <<peopleVars, stream, event>> /\ Quiet

\* The board has left the value last observed for another that is not the wanted one.
Drifted(old, me) ==
  /\ old.row /\ ~old.reset /\ ~Gated(me.seen, me.issue)
  /\ old.board \notin {"none", me.board} /\ me.board # me.seen.tr

\* A reported conflict stays for as long as the transition does.
Standing(old, me) == ~old.reset /\ old.error = "manual" /\ old.fp.tr = me.seen.tr

ErrorOf(old, me) ==
  IF ~me.on THEN "" ELSE IF Drifted(old, me) \/ Standing(old, me) THEN "manual"
  ELSE IF Gated(me.seen, me.issue) THEN "other" ELSE ""

Effect(me, t) ==
  [conv |-> me.conv, target |-> t, value |-> IF t = "issue" THEN "closed" ELSE me.seen.tr,
   expected |-> IF t = "issue" THEN me.issue ELSE me.board,
   tr |-> me.seen.tr, state |-> "pending", attempts |-> 0, reads |-> 0]

Planned(old, me) ==
  IF ~me.on \/ ErrorOf(old, me) # "" THEN <<>>
  ELSE (IF me.seen.tr = "merged" THEN <<Effect(me, "issue")>> ELSE <<>>) \o <<Effect(me, "board")>>

\* A new fingerprint retires what has not been sent, never what is uncertain.
RetirableOpen(e, c) == e.conv = c /\ Open(e)  \* mutant
Retirable(e, c) == e.conv = c /\ e.state \in {"pending", "blocked"}
Retired(c) == [i \in Ids |-> IF Retirable(event[i], c) THEN [event[i] EXCEPT !.state = "superseded"] ELSE event[i]]

Latest(w) == wk[w].fresh

record(w) ==
  LET me == wk[w]
      old == stream[me.conv]
  IN /\ me.at = "record" /\ Latest(w)
     /\ event' = IF ~old.row \/ old.reset \/ old.fp # me.seen
                 THEN Retired(me.conv) \o Planned(old, me) ELSE event
     /\ Stored(w, [row |-> TRUE, reset |-> FALSE, fp |-> me.seen, board |-> me.board,
                   error |-> ErrorOf(old, me)],
               [Idle EXCEPT !.at = IF me.on THEN "claim" ELSE "drain",
                            !.conv = me.conv, !.fresh = TRUE])
     /\ UNCHANGED peopleVars /\ Quiet

\* Another observer was faster: observe again, three times at most.
Overtaken(w) ==
  /\ wk[w].at = "record" /\ ~Latest(w)
  /\ IF wk[w].round = 3 THEN Leave(w)
     ELSE wk' = [wk EXCEPT ![w] = [Idle EXCEPT !.at = "baseline", !.conv = wk[w].conv, !.on = wk[w].on,
                                              !.done = wk[w].done, !.round = wk[w].round + 1]]
  /\ UNCHANGED <<peopleVars, stream, event>> /\ Quiet

\* The board is read again after the effects, and saved over this refresh's own record.
amend(w) ==
  /\ wk[w].at = "amend"
  /\ IF Latest(w) THEN Stored(w, [stream[wk[w].conv] EXCEPT !.board = remote.board], Idle)
     ELSE Leave(w) /\ UNCHANGED stream
  /\ UNCHANGED <<peopleVars, event>> /\ Quiet

\* An exception outside the effects: its text replaces the error of the stream.
Fail(w) ==
  /\ wk[w].at = "fail"
  /\ IF Latest(w)
     THEN LET old == stream[wk[w].conv] IN
          Stored(w, [old EXCEPT !.row = TRUE, !.reset = @ \/ ~old.row, !.error = "other"], Idle)
     ELSE Leave(w) /\ UNCHANGED stream
  /\ UNCHANGED <<peopleVars, event>> /\ Quiet

Unread(w) ==
  /\ wk[w].at \in {"observe", "amend"} /\ Fault /\ Goto(w, "fail")
  /\ UNCHANGED <<peopleVars, stream, event, crashes>>

-----------------------------------------------------------------------------
(* The effects of an enabled policy.                                         *)

Mine(w) == event[wk[w].id]

Claim(w) ==
  /\ wk[w].at = "claim" /\ claim(w, {"pending", "uncertain"}, "guard")
  /\ UNCHANGED <<peopleVars, stream>> /\ Quiet

NothingToDo(w) ==
  /\ \/ wk[w].at = "claim" /\ Eligible(wk[w].conv, {"pending", "uncertain"}) = {} /\ Goto(w, "amend")
     \/ wk[w].at = "drain" /\ Eligible(wk[w].conv, {"uncertain"}) = {} /\ Leave(w)
  /\ UNCHANGED <<peopleVars, stream, event>> /\ Quiet

\* A refusal before the write: an outcome already in doubt stays so and ends the batch.
Conflict(w) == IF wk[w].was = "uncertain" THEN Finish(w, "uncertain", "amend") ELSE Finish(w, "blocked", "claim")

\* The plan is of another policy, transition or commit than those that stand now.
Outdated(w) == LET e == Mine(w) IN ~policy \/ stream[e.conv].fp.tr # e.tr \/ pr[e.conv] # e.tr

\* A closure needs the declaration and every linked pull request merged.
Unresolved(w) == LET e == Mine(w) IN e.tr = "merged" /\ ~Resolved(e.conv \in declared, Dependencies)

Changed(w) == LET e == Mine(w) IN Now(e) # e.expected \/ (e.target = "issue" /\ Now(e) = "closed")

\* The remote value, the policy, the pull request and the closure are read before a write.
Guard(w) ==
  LET e == Mine(w) IN
  /\ wk[w].at = "guard"
  /\ \/ Now(e) = e.value /\ Finish(w, "applied", "claim")
     \/ Now(e) # e.value /\ Outdated(w) /\ Finish(w, "superseded", "claim")
     \/ Now(e) # e.value /\ ~Outdated(w) /\ (Unresolved(w) \/ Changed(w)) /\ Conflict(w)
     \/ /\ Now(e) # e.value /\ ~Outdated(w) /\ ~Unresolved(w) /\ ~Changed(w)
        /\ wk' = [wk EXCEPT ![w].at = "recheck", ![w].done = e.conv \in declared,
                           ![w].seen.deps = IF e.tr = "merged" THEN Dependencies ELSE {}]
        /\ UNCHANGED event
  /\ UNCHANGED <<peopleVars, stream>> /\ Quiet

\* A read fails, the writer is refused, or its account is.
GuardFails(w) ==
  /\ wk[w].at = "guard" /\ Fault
  /\ \/ read_failure(w, "amend")
     \/ Conflict(w)
     \/ Finish(w, IF wk[w].was = "uncertain" THEN "uncertain" ELSE "blocked", "fail")
  /\ UNCHANGED <<peopleVars, stream, crashes>>

\* Policy, declaration and dependencies are read once more; then the attempt is spent.
SameMembers(w) == Mine(w).tr = "merged" => {d[1] : d \in wk[w].seen.deps} = linked
Recheck(w) ==
  LET same == policy /\ wk[w].done = (Mine(w).conv \in declared) /\ SameMembers(w) IN
  /\ wk[w].at = "recheck"
  /\ \/ ~same /\ Conflict(w)
     \/ same /\ Mine(w).attempts = 3 /\ Finish(w, "blocked", "claim")
     \/ /\ same /\ Mine(w).attempts < 3
        /\ event' = [event EXCEPT ![wk[w].id].attempts = @ + 1]
        /\ wk' = [wk EXCEPT ![w].at = "send", ![w].done = FALSE, ![w].seen = Unplanned]
  /\ UNCHANGED <<peopleVars, stream>> /\ Quiet

\* The write reads its target itself, and refuses one that is not as expected.
Send(w) ==
  LET e == Mine(w) IN
  /\ wk[w].at = "send"
  /\ \/ Now(e) = e.value /\ Goto(w, "confirm") /\ UNCHANGED event
     \/ Now(e) # e.value /\ Now(e) # e.expected /\ Finish(w, "uncertain", "amend")
     \/ Now(e) = e.expected /\ Goto(w, "patch") /\ UNCHANGED event
  /\ UNCHANGED <<peopleVars, stream>> /\ Quiet

Lands(w) == remote' = [remote EXCEPT ![Mine(w).target] = Mine(w).value]

Patch(w) ==
  /\ wk[w].at = "patch" /\ Lands(w) /\ Goto(w, "confirm")
  /\ UNCHANGED <<factVars, changes, stream, event>> /\ Quiet

\* No answer: the write was applied or not, and only a later read tells.
Unanswered(w) ==
  /\ wk[w].at \in {"send", "patch", "confirm"} /\ Fault
  /\ \/ wk[w].at = "patch" /\ Lands(w)
     \/ UNCHANGED remote
  /\ \E next \in {"amend", "fail"} : Finish(w, "uncertain", next)
  /\ UNCHANGED <<factVars, changes, stream, crashes>>

Confirm(w) ==
  /\ wk[w].at = "confirm"
  /\ IF Now(Mine(w)) = Mine(w).value THEN Finish(w, "applied", "claim") ELSE Finish(w, "uncertain", "amend")
  /\ UNCHANGED <<peopleVars, stream>> /\ Quiet

-----------------------------------------------------------------------------
(* A disabled policy forbids writes, not reading what became of earlier ones. *)

Drain(w) ==
  /\ wk[w].at = "drain" /\ claim(w, {"uncertain"}, "reread")
  /\ UNCHANGED <<peopleVars, stream>> /\ Quiet

Reread(w) ==
  LET e == Mine(w)
      me == wk[w].id
  IN /\ wk[w].at = "reread"
     /\ IF Now(e) = e.value THEN Finish(w, "applied", "drain")
        ELSE event' = [event EXCEPT ![me].state = "uncertain"] /\ Leave(w)
     /\ UNCHANGED <<peopleVars, stream>> /\ Quiet

RereadFails(w) ==
  /\ wk[w].at = "reread" /\ Fault /\ read_failure(w, "fail")
  /\ UNCHANGED <<peopleVars, stream, crashes>>

-----------------------------------------------------------------------------
(* People, and the process.                                                  *)

People == changes < MaxChanges /\ changes' = changes + 1

Edit(t, v) ==
  /\ People /\ remote[t] # v
  /\ remote' = [remote EXCEPT ![t] = v]
  /\ UNCHANGED <<factVars, stream, event, wk>> /\ Quiet

Advance(c, t) ==
  /\ People /\ pr[c] \notin {t, "merged"}
  /\ pr' = [pr EXCEPT ![c] = t]
  /\ UNCHANGED <<linked, declared, policy, remote, stream, event, wk>> /\ Quiet

Configure ==
  /\ People /\ policy' = ~policy
  /\ UNCHANGED <<pr, linked, declared, remote, stream, event, wk>> /\ Quiet

Link(c) ==
  /\ People /\ c \notin linked /\ guard_change
  /\ linked' = linked \union {c}
  /\ UNCHANGED <<pr, declared, policy, remote, stream, event, wk>> /\ Quiet

DeclareAnyone(c) ==  \* mutant: a conversation that is not linked may resolve the issue
  /\ People /\ guard_change
  /\ declared' = IF c \in declared THEN declared \ {c} ELSE declared \union {c}
  /\ UNCHANGED <<pr, linked, policy, remote, stream, event, wk>> /\ Quiet

Declare(c) ==
  /\ People /\ c \in linked /\ guard_change
  /\ declared' = IF c \in declared THEN declared \ {c} ELSE declared \union {c}
  /\ UNCHANGED <<pr, linked, policy, remote, stream, event, wk>> /\ Quiet

\* "Revisar y reintentar": blocked effects never written are planned again, reads are
\* replenished and written ones go on with the attempts they have left.
Replanned(c, i) == event[i].conv = c /\ event[i].state = "blocked" /\ event[i].attempts = 0
Reviewed(c) ==
  [i \in Ids |->
    IF Replanned(c, i) THEN [event[i] EXCEPT !.state = "superseded"]
    ELSE IF event[i].conv = c /\ event[i].state = "uncertain" THEN [event[i] EXCEPT !.reads = 0]
    ELSE IF event[i].conv = c /\ event[i].state = "blocked" /\ event[i].attempts < 3
    THEN [event[i] EXCEPT !.state = "pending", !.reads = 0] ELSE event[i]]

\* The intent is reset where nothing of it is open, nor any effect on the issue in doubt.
Resets(c) ==
  /\ stream[c].row /\ (stream[c].error = "manual" \/ \E i \in Ids : Replanned(c, i))
  /\ \A i \in Ids : event'[i].conv = c => ~Open(event'[i])
  /\ (\E i \in Ids : event[i].conv = c) => guard_change

retry(c) ==
  /\ People /\ c \in linked
  /\ event' = Reviewed(c)
  /\ IF Resets(c)
     THEN /\ stream' = [stream EXCEPT ![c].reset = TRUE, ![c].error = ""]
          /\ wk' = [w \in Worker |-> IF wk[w].conv = c THEN [wk[w] EXCEPT !.fresh = FALSE] ELSE wk[w]]
     ELSE UNCHANGED <<stream, wk>>
  /\ UNCHANGED <<factVars, remote>> /\ Quiet

recover_none ==  \* mutant: what was in execution is left so
  /\ crashes < MaxCrashes /\ crashes' = crashes + 1
  /\ wk' = [w \in Worker |-> Idle]
  /\ UNCHANGED <<peopleVars, stream, event, faults>>

\* The process ends, in order or not; the next start finds what was in execution.
recover ==
  /\ crashes < MaxCrashes /\ crashes' = crashes + 1
  /\ wk' = [w \in Worker |-> Idle]
  /\ event' = [i \in Ids |-> IF event[i].state = "processing" THEN [event[i] EXCEPT !.state = "uncertain"] ELSE event[i]]
  /\ UNCHANGED <<peopleVars, stream, faults>>

-----------------------------------------------------------------------------
refresh(w) ==
  \/ Baseline(w) \/ Observe(w) \/ record(w) \/ Overtaken(w) \/ amend(w) \/ Fail(w)
  \/ Claim(w) \/ NothingToDo(w) \/ Guard(w) \/ Recheck(w) \/ Send(w) \/ Patch(w) \/ Confirm(w)
  \/ Drain(w) \/ Reread(w)

Trouble(w) == Unread(w) \/ GuardFails(w) \/ Unanswered(w) \/ RereadFails(w)

Outside ==
  \/ \E v \in Board : Edit("board", v)
  \/ \E v \in Issue : Edit("issue", v)
  \/ \E c \in Conv : Link(c) \/ Declare(c) \/ retry(c) \/ \E t \in Transition : Advance(c, t)
  \/ Configure \/ recover

Next ==
  \/ \E w \in Worker : refresh(w) \/ Trouble(w) \/ \E c \in Conv : Begin(w, c)
  \/ Outside

Spec == Init /\ [][Next]_vars

\* While the policy is enabled the monitor refreshes every linked conversation again and
\* again, as soon as one of its two places is free; what began goes on.
FairSpec ==
  /\ Spec
  /\ \A c \in Conv : SF_vars(policy /\ \E w \in Worker : Begin(w, c))
  /\ \A w \in Worker : WF_vars(refresh(w))
-----------------------------------------------------------------------------
TypeOK ==
  /\ pr \in [Conv -> Transition] /\ linked \subseteq Conv /\ declared \subseteq linked
  /\ policy \in BOOLEAN /\ remote \in [issue : Issue, board : Board]
  /\ stream \in [Conv -> Stream] /\ event \in Seq(Event) /\ wk \in [Worker -> Refresh]
  /\ \A w \in Worker : wk[w].id \in Ids \union {0}
  /\ changes \in 0..MaxChanges /\ faults \in 0..MaxFaults /\ crashes \in 0..MaxCrashes

\* One effect of the issue at a time, whatever conversations, people and restarts there
\* are: what is in execution is in the hands of exactly one worker.
OneInHand ==
  \A i, j \in Ids : event[i].state = "processing" /\ event[j].state = "processing" =>
    i = j /\ Cardinality({w \in Worker : wk[w].id = i}) = 1

\* Relay closes the issue only while the conversation that asks for it is declared to
\* resolve it and every linked pull request is merged, however long ago that was read.
ClosedWhenResolved ==
  [][\A w \in Worker :
       wk[w].at = "patch" /\ wk'[w].at # "patch" /\ remote'.issue # remote.issue
         => Resolved(Mine(w).conv \in declared, Dependencies)]_vars

\* An outcome in doubt is only settled by a worker that has read GitHub since: neither a
\* new plan, nor a retry, nor another conversation discards it.
DoubtIsRead ==
  [][\A i \in Ids : event[i].state = "uncertain" => event'[i].state \in {"uncertain", "processing"}]_vars

\* What waits is served, unless the policy is off or an outcome in doubt needs a person.
Waits(c) == \E i \in Ids : event[i].conv = c /\ event[i].state = "pending"
Held == ~policy \/ \E i \in Ids : event[i].state = "uncertain"
PendingSettles == \A c \in Conv : Waits(c) ~> ~Waits(c) \/ Held
=============================================================================
