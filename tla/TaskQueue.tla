------------------------------ MODULE TaskQueue ------------------------------
(***************************************************************************)
(* The durable queue of one managed conversation: the events stored in     *)
(* SQLite (db_conversation_tasks.py), the single runner that drains them   *)
(* (task_service.py), the user's controls (server_task_routes.py,          *)
(* server_expert_routes.py), the PR monitor, and the restart of the one    *)
(* Relay process.                                                          *)
(*                                                                         *)
(* Every await of the code is a boundary between steps: what one step read *)
(* (`seen`, `asked`, `killSaw`) may be stale when a later step uses it.    *)
(***************************************************************************)
EXTENDS Naturals, FiniteSets

CONSTANTS MaxEvents,      \* bound: events of the conversation
          MaxIterations,  \* tracking.max_iterations
          MaxCrashes,     \* bound: restarts of the process
          Allowed,        \* publish_allowed, as asked when the conversation is created
          Requests        \* the requests users make (a run may leave some out)

ASSUME EventsAssumption == MaxEvents \in Nat
ASSUME IterationsAssumption == MaxIterations \in Nat \ {0}
ASSUME CrashesAssumption == MaxCrashes \in Nat
ASSUME AllowedAssumption == Allowed \in BOOLEAN
ASSUME RequestsAssumption ==
  Requests \subseteq {"pause", "cancel", "continue", "publish", "track",
                      "kill", "steer", "look", "disconnect"}

Id == 1..MaxEvents

VARIABLES
  kind, state, chat,                        \* conversation_events and their chats rows
  phase, tracking, iters, spent, publishOk, \* task_json: state, tracking.*, publish_allowed
  pr,                                       \* conversations.pr_url is set
  pc, cur, seen, stop, admitted, leased,    \* the runner of this conversation
  op, asked, busy, owed,                    \* the request holding control_lock
  fin,                                      \* the finalizer of a cancellation
  kill, killSaw,                            \* a POST /experts/cancel on one chat
  send,                                     \* a message past its STOPPED check
  look,                                     \* a GET of the task inspecting its tree
  poll,                                     \* the PR monitor's iteration
  up, crashes, recovered,                   \* the process
  started                                   \* history: executor starts per event

queueVars == <<kind, state, chat>>
taskVars  == <<phase, tracking, iters, spent, publishOk, pr>>
runVars   == <<pc, cur, seen, stop, admitted, leased>>
lockVars  == <<op, asked, busy, owed, fin>>
userVars  == <<kill, killSaw, send, look>>
askVars   == <<lockVars, userVars, poll>>
sysVars   == <<up, crashes, recovered>>
vars == <<queueVars, taskVars, runVars, askVars, sysVars, started>>

\* task_service.STOPPED (`cleaned` is only reached by manual maintenance).
STOPPED  == {"paused", "cancelled", "finished", "blocked"}
TERMINAL == {"cancelled", "finished"}
Phase    == STOPPED \union {"ready", "running", "implemented", "publishing", "review"}
Kind     == {"run", "feedback", "publish", "bridge"}
State    == {"absent", "pending", "processing", "applied", "uncertain", "cancelled"}
Chat     == {"none", "queued", "running", "ok", "error", "cancelled"}

\* Runner positions before the claim, after it, and those of its failure paths.
Draining == {"top", "access", "resolve", "lease", "consume", "claim",
             "drainErr", "drainWrite"}
Claimed  == {"checks", "inspect", "inspected", "checked", "start", "reserve",
             "launch", "exec", "after", "settle", "pub", "pubRead", "pubCheck",
             "pubPush", "pubClosed", "finish"}
Failing  == {"unclaim", "fail", "failWrite"}
PC       == {"idle"} \union Draining \union Claimed \union Failing

Flags == {tracking, spent, publishOk, pr, admitted, leased, busy, recovered} \subseteq BOOLEAN

RowsOK ==
  /\ kind \in [Id -> Kind]
  /\ state \in [Id -> State]
  /\ chat \in [Id -> Chat]
  /\ started \in [Id -> Nat]

RunnerOK ==
  /\ pc \in PC
  /\ cur \in Id \union {0}
  /\ pc \notin {"idle", "top"} => cur \in Id
  /\ seen \in Phase \union {"none"}
  /\ stop \in {"no", "sent", "spent"}

RequestsOK ==
  /\ op \in {"none", "pause", "cancel", "cancelWait", "continue", "reconcile",
             "drop", "close", "ready", "publish", "enqueue", "track", "untrack"}
  /\ asked \in Phase \union {"none"}
  /\ owed \subseteq Id
  /\ fin \in {"none", "mark", "queue", "wait"}
  /\ kill \in Id \union {0}
  /\ killSaw \in State
  /\ send \in {"none", "message", "steer"}
  /\ look \in Phase \union {"none"}
  /\ poll \in {"none", "limit", "read", "closed"}

ProcessOK ==
  /\ phase \in Phase
  /\ iters \in Nat
  /\ up \in {"down", "recovering", "up", "closing"}
  /\ crashes \in Nat

TypeOK == Flags /\ RowsOK /\ RunnerOK /\ RequestsOK /\ ProcessOK

\* A queue that is empty or holds a message stored before Discord's bridge closed.
Init ==
  /\ kind \in {[e \in Id |-> "run"], [e \in Id |-> IF e = 1 THEN "bridge" ELSE "run"]}
  /\ state = [e \in Id |-> IF kind[e] = "bridge" THEN "pending" ELSE "absent"]
  /\ chat = [e \in Id |-> IF kind[e] = "bridge" THEN "queued" ELSE "none"]
  /\ phase = "ready"
  /\ tracking = FALSE /\ iters = 0 /\ spent = FALSE
  /\ publishOk = Allowed /\ pr = FALSE
  /\ pc = "idle" /\ cur = 0 /\ seen = "none" /\ stop = "no"
  /\ admitted = FALSE /\ leased = FALSE
  /\ op = "none" /\ asked = "none" /\ busy = FALSE /\ owed = {} /\ fin = "none"
  /\ kill = 0 /\ killSaw = "absent" /\ send = "none" /\ look = "none"
  /\ poll = "none"
  /\ up = "up" /\ crashes = 0 /\ recovered = FALSE
  /\ started = [e \in Id |-> 0]

-----------------------------------------------------------------------------
(* The queue's transactions.                                               *)

\* tracking_limit() is empty.
TrackingOpen == tracking /\ ~spent /\ iters < MaxIterations

\* _next_pending: the oldest pending event, feedback only while it is allowed.
Eligible(e) == state[e] = "pending" /\ (kind[e] = "feedback" => TrackingOpen)
NewestFirst(e) == Eligible(e) /\ \A d \in Id : e < d => ~Eligible(d)  \* mutant
IsNext(e) == Eligible(e) /\ \A d \in Id : d < e => ~Eligible(d)

InFlight(e) == state[e] \in {"processing", "uncertain"}

\* enqueue_conversation_event: the event and its chat row in one transaction.
Enqueue(k) ==
  \E e \in Id :
    /\ state[e] = "absent" /\ \A d \in Id : d < e => state[d] # "absent"
    /\ kind' = [kind EXCEPT ![e] = k]
    /\ state' = [state EXCEPT ![e] = "pending"]
    /\ chat' = [chat EXCEPT ![e] = IF k = "publish" THEN "none" ELSE "queued"]

ChatSame(s) == s  \* mutant: the event's state written in the chat as it is
ChatOf(s) == CASE s = "applied" -> "ok" [] s = "uncertain" -> "error" [] OTHER -> s

\* Mutant: a chat that still waits is not closed with its event.
FinishRunning(e, s) ==
  /\ state' = [state EXCEPT ![e] = s]
  /\ chat' = [chat EXCEPT ![e] = IF @ = "running" THEN ChatOf(s) ELSE @]
  /\ UNCHANGED kind

\* finish_conversation_event without expected_state.
Finish(e, s) ==
  /\ state' = [state EXCEPT ![e] = s]
  /\ chat' = [chat EXCEPT ![e] = IF @ \in {"queued", "running"} THEN ChatOf(s) ELSE @]
  /\ UNCHANGED kind

\* finish_conversation_event(.., expected_state="processing").
FinishIf(e, s) ==
  IF state[e] = "processing" THEN Finish(e, s) ELSE UNCHANGED queueVars

\* cancel_pending_conversation_events.
CancelPending ==
  /\ state' = [e \in Id |-> IF state[e] = "pending" THEN "cancelled" ELSE state[e]]
  /\ chat' = [e \in Id |-> IF chat[e] = "queued" THEN "cancelled" ELSE chat[e]]
  /\ UNCHANGED kind

\* Mutant: only an event in execution holds the next one back.
ClaimOverUncertain(e) ==
  /\ phase \notin STOPPED
  /\ \A d \in Id : state[d] # "processing"
  /\ IsNext(e)

\* claim_conversation_event with the id the runner chose earlier.
CanClaim(e) ==
  /\ phase \notin STOPPED
  /\ \A d \in Id : ~InFlight(d)
  /\ IsNext(e)

ClaimEvent(e) ==
  /\ state' = [state EXCEPT ![e] = "processing"]
  /\ chat' = [chat EXCEPT ![e] = IF @ = "none" THEN @ ELSE "running"]
  /\ UNCHANGED kind

\* recover_conversation_events; its mutants run the event again or forget it.
RequeueInterrupted(s) == IF s = "processing" THEN "pending" ELSE s
LeaveInterrupted(s) == s
Interrupted(s) == IF s = "processing" THEN "uncertain" ELSE s

SetPhaseAlways(p) == phase' = p  \* mutant
\* task_pr.set_phase: an in-flight step never reverts the user's stop.
SetPhase(p) == phase' = IF phase \in STOPPED THEN phase ELSE p

-----------------------------------------------------------------------------
(* The runner: _drain, _consume, _run_event.                               *)

At(p) == up \in {"up", "closing"} /\ pc = p /\ stop # "sent"

Step(p) == pc' = p /\ UNCHANGED <<cur, seen, stop, admitted, leased>>
See(p)  == pc' = p /\ seen' = phase /\ UNCHANGED <<cur, stop, admitted, leased>>

Leave(p) ==
  /\ pc' = p /\ cur' = 0 /\ seen' = "none" /\ admitted' = FALSE /\ leased' = FALSE
  /\ stop' = IF p = "idle" THEN "no" ELSE stop

\* _consume returned True: _drain goes on, except after a denied message.
Back == Leave(IF leased \/ kind[cur] \in {"feedback", "bridge"} THEN "top" ELSE "idle")

\* start_pending: at most one live runner.
StartRunner ==
  /\ pc' = IF pc = "idle" THEN "top" ELSE pc
  /\ UNCHANGED <<cur, seen, stop, admitted, leased>>

MonitorTracked ==  \* mutant: only conversations whose PR is followed
  /\ up = "up" /\ pc = "idle" /\ poll = "none" /\ tracking
  /\ StartRunner
  /\ UNCHANGED <<queueVars, taskVars, askVars, sysVars, started>>

\* loop: every two seconds, for every managed conversation, after its poll.
MonitorStart ==
  /\ up = "up" /\ pc = "idle" /\ poll = "none"
  /\ StartRunner
  /\ UNCHANGED <<queueVars, taskVars, askVars, sysVars, started>>

DrainRead ==
  /\ At("top")
  /\ IF phase \in STOPPED \/ ~\E e \in Id : IsNext(e)
     THEN Leave("idle")
     ELSE \E e \in Id :
            /\ IsNext(e)
            /\ cur' = e
            /\ pc' = IF kind[e] = "bridge" THEN "consume" ELSE "access"
            /\ UNCHANGED <<seen, stop, admitted, leased>>
  /\ UNCHANGED <<queueVars, taskVars, askVars, sysVars, started>>

\* Project disabled; sender without access; or the checkout must be resolved.
DrainAccess ==
  /\ At("access")
  /\ \/ Step("drainErr")
     \/ Step("consume")
     \/ See("resolve")
  /\ UNCHANGED <<queueVars, taskVars, askVars, sysVars, started>>

\* inspect_workspace's last write, decided by the phase it read at its start:
\* the tree is as expected, its HEAD moved, or it cannot be used.
InspectFine == UNCHANGED phase
InspectHeadMoved(read) ==
  /\ read \notin {"running", "publishing"} \union TERMINAL
  /\ phase' = "blocked"
InspectBroken(read) == phase' = IF read \in TERMINAL THEN phase ELSE "blocked"
Inspect(read) == InspectFine \/ InspectHeadMoved(read) \/ InspectBroken(read)

DrainResolve ==
  /\ At("resolve")
  /\ \/ (InspectFine \/ InspectHeadMoved(seen)) /\ Step("lease")
     \/ InspectBroken(seen) /\ Step("drainErr")
  /\ UNCHANGED <<queueVars, tracking, iters, spent, publishOk, pr, askVars, sysVars, started>>

\* coordination.spawn_workspace obtained the tree for _consume.
TakeLease ==
  /\ At("lease")
  /\ pc' = "consume" /\ leased' = TRUE
  /\ UNCHANGED <<cur, seen, stop, admitted>>
  /\ UNCHANGED <<queueVars, taskVars, askVars, sysVars, started>>

ConsumeRead ==
  /\ At("consume")
  /\ IF phase \in STOPPED THEN Leave("idle") ELSE Step("claim")
  /\ UNCHANGED <<queueVars, taskVars, askVars, sysVars, started>>

Claim ==
  /\ At("claim")
  /\ IF CanClaim(cur)
     THEN ClaimEvent(cur) /\ Step("checks")
     ELSE Leave("idle") /\ UNCHANGED queueVars
  /\ UNCHANGED <<taskVars, askVars, sysVars, started>>

\* An unverified bridge is cancelled; an account without rights is refused.
CheckBridge ==
  /\ At("checks") /\ kind[cur] = "bridge"
  /\ FinishIf(cur, "cancelled")
  /\ Back
  /\ UNCHANGED <<taskVars, askVars, sysVars, started>>

CheckDenied ==
  /\ At("checks") /\ kind[cur] # "bridge"
  /\ IF kind[cur] = "feedback"
     THEN FinishIf(cur, "cancelled") /\ Back
     ELSE Step("fail") /\ UNCHANGED queueVars
  /\ UNCHANGED <<taskVars, askVars, sysVars, started>>

CheckAllowed ==
  /\ At("checks") /\ kind[cur] # "bridge"
  /\ See("inspect")
  /\ UNCHANGED <<queueVars, taskVars, askVars, sysVars, started>>

ConsumeInspect ==
  /\ At("inspect")
  /\ Inspect(seen)
  /\ Step("checked")
  /\ UNCHANGED <<queueVars, tracking, iters, spent, publishOk, pr, askVars, sysVars, started>>

ConsumeChecked ==
  /\ At("checked")
  /\ IF phase = "blocked" THEN Step("fail")
     ELSE CASE kind[cur] = "publish"  -> See("pub")
            [] kind[cur] = "feedback" -> Step("reserve")
            [] OTHER                  -> Step("start")
  /\ UNCHANGED <<queueVars, taskVars, askVars, sysVars, started>>

RunStart ==
  /\ At("start")
  /\ SetPhase("running")
  /\ Step(IF phase \in STOPPED THEN "fail" ELSE "launch")
  /\ UNCHANGED <<queueVars, tracking, iters, spent, publishOk, pr, askVars, sysVars, started>>

\* The executor starts on a message, some awaits after RunStart.
RunLaunch ==
  /\ At("launch") /\ kind[cur] # "feedback"
  /\ Step("exec")
  /\ started' = [started EXCEPT ![cur] = @ + 1]
  /\ UNCHANGED <<queueVars, taskVars, askVars, sysVars>>

\* reserve_feedback_execution refuses for the task's own state; it may also
\* refuse for the deadline, a stale head or the account.
SkipSettled == state[cur] # "processing"  \* mutant: the limits are not read again
MustSkip == phase \in STOPPED \/ ~TrackingOpen \/ state[cur] # "processing"

FeedbackSkip ==
  /\ At("reserve") \/ At("launch")
  /\ kind[cur] = "feedback"
  /\ FinishIf(cur, "cancelled")
  /\ Back
  /\ UNCHANGED <<taskVars, askVars, sysVars, started>>

FeedbackCheck ==
  /\ At("reserve") /\ ~MustSkip
  /\ Step("launch")
  /\ UNCHANGED <<queueVars, taskVars, askVars, sysVars, started>>

\* The iteration is spent in the transaction that admits the executor.
FeedbackLaunch ==
  /\ At("launch") /\ kind[cur] = "feedback" /\ ~MustSkip
  /\ pc' = "exec" /\ admitted' = TRUE
  /\ phase' = "running" /\ iters' = iters + 1
  /\ started' = [started EXCEPT ![cur] = @ + 1]
  /\ UNCHANGED <<cur, seen, stop, leased>>
  /\ UNCHANGED <<queueVars, tracking, spent, publishOk, pr, askVars, sysVars>>

SetChat(c) == chat' = [chat EXCEPT ![cur] = c] /\ UNCHANGED <<kind, state>>

\* _run_expert_bg closed the chat row with its outcome.
RunDone ==
  /\ At("exec") /\ kind[cur] # "feedback"
  /\ \E c \in {"ok", "error"} : SetChat(c)
  /\ Step("after")
  /\ UNCHANGED <<taskVars, askVars, sysVars, started>>

\* The same for feedback, whose tokens are charged to the tracking budget.
FeedbackDone ==
  /\ At("exec") /\ kind[cur] = "feedback"
  /\ \E c \in {"ok", "error"} :
       SetChat(c) /\ Step(IF c = "ok" THEN "after" ELSE "fail")
  /\ tracking' \in {tracking, FALSE}
  /\ spent' \in {spent, TRUE}
  /\ UNCHANGED <<phase, iters, publishOk, pr, askVars, sysVars, started>>

\* Graph left to attend, or a chat that is not ok, while the task goes on.
AfterFail ==
  /\ At("after")
  /\ Step("fail")
  /\ UNCHANGED <<queueVars, taskVars, askVars, sysVars, started>>

AfterStopped ==
  /\ At("after") /\ phase \in STOPPED
  /\ Step("finish")
  /\ UNCHANGED <<queueVars, taskVars, askVars, sysVars, started>>

AfterPending ==
  /\ At("after") /\ phase \notin STOPPED /\ chat[cur] = "ok"
  /\ phase' = "blocked"
  /\ Step("finish")
  /\ UNCHANGED <<queueVars, tracking, iters, spent, publishOk, pr, askVars, sysVars, started>>

AfterOk ==
  /\ At("after") /\ phase \notin STOPPED /\ chat[cur] = "ok"
  /\ See("settle")
  /\ UNCHANGED <<queueVars, taskVars, askVars, sysVars, started>>

SettleBlocked ==
  /\ At("settle")
  /\ InspectHeadMoved(seen) \/ InspectBroken(seen)
  /\ Step("finish")
  /\ UNCHANGED <<queueVars, tracking, iters, spent, publishOk, pr, askVars, sysVars, started>>

SettleFine ==
  /\ At("settle")
  /\ SetPhase("implemented")
  /\ \/ Step("finish")
     \/ phase \notin STOPPED /\ publishOk /\ See("pub")
  /\ UNCHANGED <<queueVars, tracking, iters, spent, publishOk, pr, askVars, sysVars, started>>

-----------------------------------------------------------------------------
(* task_pr.publish, as far as the queue sees it.                           *)

PublishInspect ==
  /\ At("pub")
  /\ Inspect(seen)
  /\ Step("pubRead")
  /\ UNCHANGED <<queueVars, tracking, iters, spent, publishOk, pr, askVars, sysVars, started>>

PublishRead ==
  /\ At("pubRead")
  /\ Step(CASE phase = "blocked"  -> "fail"
            [] phase \in STOPPED \ {"blocked"} -> "finish"
            [] OTHER              -> "pubCheck")
  /\ UNCHANGED <<queueVars, taskVars, askVars, sysVars, started>>

\* Base moved, nothing to publish, validation failed, push or PR not confirmed.
PublishError ==
  /\ At("pub") \/ At("pubCheck") \/ At("pubPush")
  /\ Step("fail")
  /\ UNCHANGED <<queueVars, taskVars, askVars, sysVars, started>>

\* The PR is closed or merged: drop the queue, then finish the task.
PublishClosed ==
  /\ At("pubCheck") /\ pr
  /\ CancelPending
  /\ Step("pubClosed")
  /\ UNCHANGED <<taskVars, askVars, sysVars, started>>

PublishFinished ==
  /\ At("pubClosed")
  /\ phase' = "finished" /\ tracking' = FALSE
  /\ Step("finish")
  /\ UNCHANGED <<queueVars, iters, spent, publishOk, pr, askVars, sysVars, started>>

\* The commit is validated and the push begins, unless the task was stopped.
PublishPush ==
  /\ At("pubCheck") /\ publishOk
  /\ SetPhase("publishing")
  /\ Step(IF phase \in STOPPED THEN "finish" ELSE "pubPush")
  /\ UNCHANGED <<queueVars, tracking, iters, spent, publishOk, pr, askVars, sysVars, started>>

\* Stopped after the push: no PR is created.
PublishStopped ==
  /\ At("pubPush") /\ phase \in STOPPED \ {"blocked"}
  /\ Step("finish")
  /\ UNCHANGED <<queueVars, taskVars, askVars, sysVars, started>>

PublishDone ==
  /\ At("pubPush")
  /\ SetPhase("review")
  /\ pr' = TRUE
  /\ Step("finish")
  /\ UNCHANGED <<queueVars, tracking, iters, spent, publishOk, askVars, sysVars, started>>

-----------------------------------------------------------------------------
(* How an event and a drain end.                                           *)

\* _consume's last statement: no expected_state.
ConsumeFinish ==
  /\ At("finish")
  /\ Finish(cur, "applied")
  /\ Back
  /\ UNCHANGED <<taskVars, askVars, sysVars, started>>

\* except Exception: uncertain, then block what the user did not stop.
ConsumeFail ==
  /\ At("fail")
  /\ FinishIf(cur, "uncertain")
  /\ See("failWrite")
  /\ UNCHANGED <<taskVars, askVars, sysVars, started>>

Block == phase' = IF seen \in STOPPED \ {"blocked"} THEN phase ELSE "blocked"

ConsumeBlock ==
  /\ At("failWrite")
  /\ Block
  /\ Back
  /\ UNCHANGED <<queueVars, tracking, iters, spent, publishOk, pr, askVars, sysVars, started>>

DrainError ==
  /\ At("drainErr")
  /\ See("drainWrite")
  /\ UNCHANGED <<queueVars, taskVars, askVars, sysVars, started>>

DrainBlock ==
  /\ At("drainWrite")
  /\ Block
  /\ Leave("idle")
  /\ UNCHANGED <<queueVars, tracking, iters, spent, publishOk, pr, askVars, sysVars, started>>

\* Cancellation is delivered at the runner's next await.
Sent(ps) == up \in {"up", "closing"} /\ pc \in ps /\ stop = "sent"

UnwindDrain ==
  /\ Sent((Draining \ {"claim"}) \union {"failWrite"})
  /\ Leave("idle")
  /\ UNCHANGED <<queueVars, taskVars, askVars, sysVars, started>>

\* The claim commits in its thread although the await is cancelled.
UnwindClaim ==
  /\ Sent({"claim"})
  /\ \/ Leave("idle") /\ UNCHANGED queueVars
     \/ CanClaim(cur) /\ ClaimEvent(cur) /\ Step("unclaim")
  /\ UNCHANGED <<taskVars, askVars, sysVars, started>>

Unclaim ==
  /\ Sent({"unclaim"})
  /\ FinishIf(cur, "cancelled")
  /\ Leave("idle")
  /\ UNCHANGED <<taskVars, askVars, sysVars, started>>

\* except CancelledError: only feedback known not to be admitted is cancelled.
Unwound ==
  IF kind[cur] = "bridge" \/ (kind[cur] = "feedback" /\ ~admitted)
  THEN "cancelled" ELSE "uncertain"

UnwindConsume ==
  /\ Sent((Claimed \ {"exec"}) \union {"fail"})
  /\ FinishIf(cur, IF pc = "fail" THEN "uncertain" ELSE Unwound)
  /\ Leave("idle")
  /\ UNCHANGED <<taskVars, askVars, sysVars, started>>

\* _run_expert_bg persists what it has; a message's run returns normally.
UnwindRun ==
  /\ Sent({"launch", "exec"}) /\ kind[cur] # "feedback"
  /\ \E c \in {"ok", "error", "cancelled"} : SetChat(c)
  /\ pc' = "after" /\ stop' = "spent"
  /\ UNCHANGED <<cur, seen, admitted, leased>>
  /\ UNCHANGED <<taskVars, askVars, sysVars, started>>

UnwindFeedback ==
  /\ Sent({"exec"}) /\ kind[cur] = "feedback"
  /\ FinishIf(cur, "uncertain")
  /\ Leave("idle")
  /\ UNCHANGED <<taskVars, askVars, sysVars, started>>

\* task.cancel() unless a cancellation was already requested.
StopRunner ==
  /\ stop' = IF pc # "idle" /\ stop = "no" THEN "sent" ELSE stop
  /\ UNCHANGED <<pc, cur, seen, admitted, leased>>

-----------------------------------------------------------------------------
(* The user's requests.                                                    *)

\* Requests are taken while up; those in flight may go on as the process closes.
Alive == up \in {"up", "closing"}
Doing(o) == Alive /\ op = o
Goes(o)  == op' = o /\ UNCHANGED <<asked, busy, owed, fin>>
Unlock   == op' = "none" /\ asked' = "none" /\ busy' = FALSE /\ owed' = {}
Release  == Unlock /\ UNCHANGED fin

Busy == pc # "idle" \/ \E e \in Id : state[e] = "processing"

\* /experts/run and /experts/steer: the STOPPED check ...
SendMessage ==
  /\ up = "up" /\ send = "none" /\ phase \notin STOPPED
  /\ send' \in {"message"} \union (Requests \intersect {"steer"})
  /\ UNCHANGED <<lockVars, kill, killSaw, look, poll>>
  /\ UNCHANGED <<queueVars, taskVars, runVars, sysVars, started>>

\* ... then the insert; only a message waits for control_lock.
SendEnqueue ==
  /\ Alive /\ send # "none"
  /\ send = "message" => op = "none"
  /\ Enqueue("run")
  /\ StartRunner
  /\ send' = "none"
  /\ UNCHANGED <<lockVars, kill, killSaw, look, poll>>
  /\ UNCHANGED <<taskVars, sysVars, started>>

\* _apply_task_action up to its first write, under control_lock.
Ask(o) ==
  /\ up = "up" /\ op = "none"
  /\ op' = o /\ asked' = phase /\ busy' = Busy /\ UNCHANGED <<owed, fin>>
  /\ UNCHANGED <<userVars, poll>>
  /\ UNCHANGED <<queueVars, taskVars, runVars, sysVars, started>>

AskPause    == "pause" \in Requests /\ phase \notin TERMINAL /\ Ask("pause")
AskCancel   == "cancel" \in Requests /\ phase # "finished" /\ Ask("cancel")
AskContinue == "continue" \in Requests /\ phase \notin TERMINAL /\ ~Busy /\ Ask("continue")
AskPublish  == "publish" \in Requests /\ phase \notin STOPPED /\ Ask("publish")
AskTrack ==
  /\ "track" \in Requests
  /\ phase \notin TERMINAL \union {"paused"} /\ pr /\ publishOk
  /\ Ask("track")
AskUntrack  == "track" \in Requests /\ tracking /\ Ask("untrack")

Pause ==
  /\ Doing("pause")
  /\ phase' = "paused" /\ tracking' = FALSE
  /\ Release
  /\ UNCHANGED <<iters, spent, publishOk, pr, userVars, poll>>
  /\ UNCHANGED <<queueVars, runVars, sysVars, started>>

\* _cancel_conversation: one finalizer per conversation, which survives the
\* requests that wait for it.
CancelStart ==
  /\ Doing("cancel")
  /\ op' = "cancelWait" /\ fin' = IF fin = "none" THEN "mark" ELSE fin
  /\ UNCHANGED <<asked, busy, owed, userVars, poll>>
  /\ UNCHANGED <<queueVars, taskVars, runVars, sysVars, started>>

\* finish_cancel: stop the queue, drop it and interrupt the runner, wait.
CancelMark ==
  /\ Alive /\ fin = "mark"
  /\ phase' = "cancelled" /\ tracking' = FALSE
  /\ fin' = "queue"
  /\ UNCHANGED <<iters, spent, publishOk, pr, op, asked, busy, owed, userVars, poll>>
  /\ UNCHANGED <<queueVars, runVars, sysVars, started>>

CancelQueue ==
  /\ Alive /\ fin = "queue"
  /\ CancelPending
  /\ StopRunner
  /\ fin' = "wait"
  /\ UNCHANGED <<op, asked, busy, owed, userVars, poll>>
  /\ UNCHANGED <<taskVars, sysVars, started>>

\* Mutant: the finalizer does not wait for the runner it cancelled.
CancelDoneEarly ==
  /\ Alive /\ fin = "wait"
  /\ fin' = "none"
  /\ UNCHANGED <<op, asked, busy, owed, userVars, poll>>
  /\ UNCHANGED <<queueVars, taskVars, runVars, sysVars, started>>

CancelDone ==
  /\ Alive /\ fin = "wait" /\ pc = "idle"
  /\ fin' = "none"
  /\ UNCHANGED <<op, asked, busy, owed, userVars, poll>>
  /\ UNCHANGED <<queueVars, taskVars, runVars, sysVars, started>>

CancelAnswer ==
  /\ Doing("cancelWait") /\ fin = "none"
  /\ Release
  /\ UNCHANGED <<userVars, poll>>
  /\ UNCHANGED <<queueVars, taskVars, runVars, sysVars, started>>

\* The request is cancelled at one of its awaits: the lock is released.
Disconnect ==
  /\ "disconnect" \in Requests /\ Alive /\ op # "none"
  /\ Release
  /\ UNCHANGED <<userVars, poll>>
  /\ UNCHANGED <<queueVars, taskVars, runVars, sysVars, started>>

\* _continue: the workspace is inspected and the uncertain events are listed.
ContinueInspect ==
  /\ Doing("continue")
  /\ InspectFine \/ InspectHeadMoved(asked)
  /\ op' = "reconcile" /\ owed' = {e \in Id : state[e] = "uncertain"}
  /\ UNCHANGED <<asked, busy, fin>>
  /\ UNCHANGED <<tracking, iters, spent, publishOk, pr, userVars, poll>>
  /\ UNCHANGED <<queueVars, runVars, sysVars, started>>

ContinueBroken ==
  /\ Doing("continue")
  /\ InspectBroken(asked)
  /\ Release
  /\ UNCHANGED <<tracking, iters, spent, publishOk, pr, userVars, poll>>
  /\ UNCHANGED <<queueVars, runVars, sysVars, started>>

\* The owner did not acknowledge, or GitHub does not confirm the publication.
ContinueRefused ==
  /\ Doing("reconcile") /\ owed # {}
  /\ Release
  /\ UNCHANGED <<userVars, poll>>
  /\ UNCHANGED <<queueVars, taskVars, runVars, sysVars, started>>

\* An uncertain event is closed, never repeated.
ContinueReconcile ==
  /\ Doing("reconcile")
  /\ \E e \in owed : Finish(e, "applied") /\ owed' = owed \ {e}
  /\ pr' \in {pr, pr \/ publishOk}
  /\ UNCHANGED <<op, asked, busy, fin, userVars, poll>>
  /\ UNCHANGED <<phase, tracking, iters, spent, publishOk, runVars, sysVars, started>>

\* The uncertain publication made a PR that is already closed.
ContinueClosed ==
  /\ Doing("reconcile") /\ publishOk
  /\ \E e \in owed : Finish(e, "applied")
  /\ pr' = TRUE
  /\ Goes("drop")
  /\ UNCHANGED <<phase, tracking, iters, spent, publishOk, userVars, poll>>
  /\ UNCHANGED <<runVars, sysVars, started>>

ContinueDrop ==
  /\ Doing("drop")
  /\ CancelPending
  /\ Goes("close")
  /\ UNCHANGED <<userVars, poll>>
  /\ UNCHANGED <<taskVars, runVars, sysVars, started>>

ContinueFinished ==
  /\ Doing("close")
  /\ phase' = "finished" /\ tracking' = FALSE
  /\ Release
  /\ UNCHANGED <<iters, spent, publishOk, pr, userVars, poll>>
  /\ UNCHANGED <<queueVars, runVars, sysVars, started>>

ContinueCheck ==
  /\ Doing("reconcile") /\ owed = {}
  /\ op' = "ready" /\ busy' = (\E e \in Id : state[e] = "processing")
  /\ UNCHANGED <<asked, owed, fin, userVars, poll>>
  /\ UNCHANGED <<queueVars, taskVars, runVars, sysVars, started>>

\* state=ready whatever the phase is by now, then start_pending.
ContinueReady ==
  /\ Doing("ready")
  /\ phase' = IF busy THEN phase ELSE "ready"
  /\ IF phase' = "ready" THEN StartRunner ELSE UNCHANGED runVars
  /\ Release
  /\ UNCHANGED <<tracking, iters, spent, publishOk, pr, userVars, poll>>
  /\ UNCHANGED <<queueVars, sysVars, started>>

\* publish: the permission, and ready when nobody was writing.
PublishAllow ==
  /\ Doing("publish")
  /\ publishOk' = TRUE
  /\ phase' = IF busy THEN phase ELSE "ready"
  /\ Goes("enqueue")
  /\ UNCHANGED <<tracking, iters, spent, pr, userVars, poll>>
  /\ UNCHANGED <<queueVars, runVars, sysVars, started>>

PublishEnqueue ==
  /\ Doing("enqueue")
  /\ Enqueue("publish")
  /\ IF busy THEN UNCHANGED runVars ELSE StartRunner
  /\ Release
  /\ UNCHANGED <<userVars, poll>>
  /\ UNCHANGED <<taskVars, sysVars, started>>

\* track: a new activation starts its budget again.
Track ==
  /\ Doing("track")
  /\ tracking' = TRUE /\ iters' = 0 /\ spent' = FALSE
  /\ Release
  /\ UNCHANGED <<phase, publishOk, pr, userVars, poll>>
  /\ UNCHANGED <<queueVars, runVars, sysVars, started>>

Untrack ==
  /\ Doing("untrack")
  /\ tracking' = FALSE
  /\ Release
  /\ UNCHANGED <<phase, iters, spent, publishOk, pr, userVars, poll>>
  /\ UNCHANGED <<queueVars, runVars, sysVars, started>>

\* _cancel_expert, without control_lock: pause in the statement that finds the
\* event unsettled, and read the event again.
KillPause ==
  /\ "kill" \in Requests /\ up = "up" /\ kill = 0
  /\ \E e \in Id :
       /\ chat[e] # "none" /\ state[e] \in {"pending", "processing", "uncertain"}
       /\ kill' = e /\ killSaw' = state[e]
  /\ phase' = "paused" /\ tracking' = FALSE
  /\ UNCHANGED <<lockVars, send, look, poll>>
  /\ UNCHANGED <<iters, spent, publishOk, pr, queueVars, runVars, sysVars, started>>

\* It acts on what it read, and its write names no expected state. A run that
\* is closing or finished is waited for instead of interrupted.
KillAct ==
  /\ Alive /\ kill # 0
  /\ IF killSaw = "pending" THEN Finish(kill, "cancelled") ELSE UNCHANGED queueVars
  /\ \/ killSaw = "processing" /\ StopRunner
     \/ UNCHANGED runVars
  /\ kill' = 0 /\ killSaw' = "absent"
  /\ UNCHANGED <<lockVars, send, look, poll>>
  /\ UNCHANGED <<taskVars, sysVars, started>>

\* GET of the task: an inspection under no lock.
LookRead ==
  /\ "look" \in Requests /\ up = "up" /\ look = "none"
  /\ look' = phase
  /\ UNCHANGED <<lockVars, kill, killSaw, send, poll>>
  /\ UNCHANGED <<queueVars, taskVars, runVars, sysVars, started>>

LookWrite ==
  /\ Alive /\ look # "none"
  /\ Inspect(look)
  /\ look' = "none"
  /\ UNCHANGED <<tracking, iters, spent, publishOk, pr, lockVars, kill, killSaw, send, poll>>
  /\ UNCHANGED <<queueVars, runVars, sysVars, started>>

-----------------------------------------------------------------------------
(* The PR monitor and the clock.                                           *)

\* The deadline passes, or the token budget is used up.
Expire ==
  /\ tracking /\ ~spent
  /\ spent' = TRUE
  /\ UNCHANGED <<phase, tracking, iters, publishOk, pr>>
  /\ UNCHANGED <<queueVars, runVars, askVars, sysVars, started>>

PollRead ==
  /\ up = "up" /\ poll = "none" /\ tracking
  /\ phase \notin TERMINAL \union {"paused"}
  /\ poll' = IF TrackingOpen THEN "read" ELSE "limit"
  /\ UNCHANGED <<lockVars, userVars>>
  /\ UNCHANGED <<queueVars, taskVars, runVars, sysVars, started>>

PollLimit ==
  /\ up = "up" /\ poll = "limit"
  /\ tracking' = FALSE /\ poll' = "none"
  /\ UNCHANGED <<phase, iters, spent, publishOk, pr, lockVars, userVars>>
  /\ UNCHANGED <<queueVars, runVars, sysVars, started>>

\* New comments become feedback events, known keys are skipped.
PollFeedback ==
  /\ up = "up" /\ poll = "read"
  /\ Enqueue("feedback") \/ UNCHANGED queueVars
  /\ poll' = "none"
  /\ UNCHANGED <<lockVars, userVars>>
  /\ UNCHANGED <<taskVars, runVars, sysVars, started>>

\* The PR is not open any more: finish, then drop the queue.
PollClosed ==
  /\ up = "up" /\ poll = "read"
  /\ phase' = "finished" /\ tracking' = FALSE /\ poll' = "closed"
  /\ UNCHANGED <<iters, spent, publishOk, pr, lockVars, userVars>>
  /\ UNCHANGED <<queueVars, runVars, sysVars, started>>

PollDrop ==
  /\ up = "up" /\ poll = "closed"
  /\ CancelPending
  /\ poll' = "none"
  /\ UNCHANGED <<lockVars, userVars>>
  /\ UNCHANGED <<taskVars, runVars, sysVars, started>>

-----------------------------------------------------------------------------
(* Shutdown, crash and recovery.                                           *)

\* _on_cleanup stops the monitor, waits, and cancels the runs that are left.
Shutdown ==
  /\ up = "up" /\ crashes < MaxCrashes
  /\ up' = "closing" /\ poll' = "none"
  /\ UNCHANGED <<crashes, recovered, lockVars, userVars>>
  /\ UNCHANGED <<queueVars, taskVars, runVars, started>>

ShutdownCancel ==
  /\ up = "closing" /\ pc # "idle"
  /\ stop' = "sent"
  /\ UNCHANGED <<pc, cur, seen, admitted, leased>>
  /\ UNCHANGED <<queueVars, taskVars, askVars, sysVars, started>>

\* The process ends; what is in memory is lost.
Crash ==
  /\ up # "down" /\ crashes < MaxCrashes
  /\ up' = "down" /\ crashes' = crashes + 1 /\ recovered' = FALSE
  /\ Leave("idle")
  /\ Unlock /\ fin' = "none"
  /\ kill' = 0 /\ killSaw' = "absent" /\ send' = "none" /\ look' = "none"
  /\ poll' = "none"
  /\ UNCHANGED <<queueVars, taskVars, started>>

\* reap_running_chats, then recover_conversation_events.
Recover ==
  /\ up = "down"
  /\ state' = [e \in Id |-> Interrupted(state[e])]
  /\ chat' = [e \in Id |-> IF chat[e] = "running" THEN "cancelled" ELSE chat[e]]
  /\ recovered' = (\E e \in Id : state[e] = "processing")
  /\ up' = "recovering"
  /\ UNCHANGED <<kind, crashes, taskVars, runVars, askVars, started>>

\* recover() blocks the conversations it found uncertain and inspects every tree.
RecoverBlock ==
  /\ up = "recovering"
  /\ LET p == IF recovered THEN "blocked" ELSE phase
     IN phase' \in {p, IF p \in TERMINAL THEN p ELSE "blocked"}
  /\ up' = "up"
  /\ UNCHANGED <<crashes, recovered, tracking, iters, spent, publishOk, pr>>
  /\ UNCHANGED <<queueVars, runVars, askVars, started>>

-----------------------------------------------------------------------------
Unwind == UnwindDrain \/ UnwindClaim \/ Unclaim \/ UnwindConsume \/ UnwindRun \/ UnwindFeedback

Runner ==
  \/ DrainRead \/ DrainAccess \/ DrainResolve \/ TakeLease \/ ConsumeRead \/ Claim
  \/ CheckBridge \/ CheckDenied \/ CheckAllowed \/ ConsumeInspect \/ ConsumeChecked
  \/ RunStart \/ RunLaunch \/ RunDone
  \/ FeedbackSkip \/ FeedbackCheck \/ FeedbackLaunch \/ FeedbackDone
  \/ AfterFail \/ AfterStopped \/ AfterPending \/ AfterOk \/ SettleBlocked \/ SettleFine
  \/ PublishInspect \/ PublishRead \/ PublishError \/ PublishClosed
  \/ PublishFinished \/ PublishPush \/ PublishStopped \/ PublishDone
  \/ ConsumeFinish \/ ConsumeFail \/ ConsumeBlock \/ DrainError \/ DrainBlock
  \/ Unwind

Monitor == MonitorStart \/ PollRead \/ PollLimit \/ PollFeedback \/ PollClosed \/ PollDrop

Control ==
  \/ AskPause \/ AskCancel \/ AskContinue \/ AskPublish \/ AskTrack \/ AskUntrack
  \/ Pause \/ CancelStart \/ CancelMark \/ CancelQueue \/ CancelDone \/ CancelAnswer
  \/ Disconnect
  \/ ContinueInspect \/ ContinueBroken \/ ContinueRefused \/ ContinueReconcile
  \/ ContinueClosed \/ ContinueDrop \/ ContinueFinished \/ ContinueCheck
  \/ ContinueReady \/ PublishAllow \/ PublishEnqueue \/ Track \/ Untrack

User == SendMessage \/ SendEnqueue \/ KillPause \/ KillAct \/ LookRead \/ LookWrite

Process == Shutdown \/ ShutdownCancel \/ Crash \/ Recover \/ RecoverBlock

Next == Runner \/ Monitor \/ Control \/ User \/ Expire \/ Process

Spec == Init /\ [][Next]_vars

\* The event loop runs what is ready and every executor has a deadline; the
\* monitor ticks; a process that is closing ends and one that ended is restarted.
Fairness ==
  /\ WF_vars(Runner) /\ WF_vars(MonitorStart)
  /\ WF_vars(up = "closing" /\ Crash) /\ WF_vars(Recover) /\ WF_vars(RecoverBlock)

FairSpec == Spec /\ Fairness

-----------------------------------------------------------------------------
\* At most one event of a conversation is being executed or has an unknown
\* outcome: nothing new starts over effects nobody has reconciled.
SingleFlight ==
  \A d, e \in Id : InFlight(d) /\ InFlight(e) => d = e

\* "Nunca reenvía una ejecución cuyo resultado no conocemos": across
\* cancellations, failures and restarts, an event reaches the executor once.
NeverReplayed ==
  \A e \in Id : started[e] <= 1 /\ (started[e] = 1 => state[e] # "pending")

\* The queue is first in, first out: an event that reached the executor never
\* overtook an older message or publication (feedback may wait for its budget).
FifoOrder ==
  \A d, e \in Id : (d < e /\ started[e] > 0 /\ kind[d] # "feedback") => state[d] # "pending"

\* What the chat row shows agrees with the queue through every cancellation,
\* failure and restart: queued exactly while its event waits, and running only
\* while its event is in execution.
ChatAgrees ==
  /\ \A e \in Id : chat[e] = "queued" => state[e] = "pending"
  /\ \A e \in Id : (state[e] = "pending" /\ kind[e] # "publish") => chat[e] = "queued"
  /\ \A e \in Id : chat[e] = "running" => state[e] = "processing"

\* "Pausar detiene nuevas continuaciones": whatever step is in flight, only an
\* explicit continue or publish request makes a stopped task active again.
StopSticks ==
  [][(phase \in STOPPED /\ phase' \notin STOPPED) => op \in {"ready", "publish"}]_vars

\* Feedback reaches the executor only while, in that very transaction, the task
\* is not stopped and its tracking is on, in time and within its iterations.
FeedbackConsent ==
  [][\A e \in Id : (kind[e] = "feedback" /\ started'[e] # started[e])
        => phase \notin STOPPED /\ TrackingOpen]_vars

\* When a cancellation has been answered, nothing of the task is executing and
\* nothing can be claimed until a user continues or publishes.
CancelQuiesces ==
  (phase = "cancelled" /\ fin = "none") => pc \notin Claimed

\* A waiting message or publication is not forgotten, through restarts too: it
\* is taken or cancelled unless the task is stopped or an outcome is unknown.
PendingServed ==
  \A e \in Id : (state[e] = "pending" /\ kind[e] # "feedback")
    ~> (state[e] # "pending" \/ phase \in STOPPED \/ \E d \in Id : state[d] = "uncertain")

\* No event stays in execution: the run ends, fails, or a restart settles it.
ProcessingSettles ==
  \A e \in Id : state[e] = "processing" ~> state[e] # "processing"
=============================================================================
