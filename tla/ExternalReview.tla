---------------------------- MODULE ExternalReview ----------------------------
(***************************************************************************)
(* The automatic review of one external pull request: the durable queue of *)
(* model runs (external_review.py, external_review_store.py), the outbox   *)
(* of the comments it publishes (external_review_outbox.py,                *)
(* external_review_publish.py), the one worker that serves both            *)
(* (external_review_runtime.py), and what happens meanwhile: pushes,       *)
(* refreshes, declared evidence, retries, changes of policy and access,    *)
(* shutdowns and crashes of the process, and a network that loses answers. *)
(***************************************************************************)
EXTENDS Naturals, FiniteSets

CONSTANTS Heads,        \* the commits the pull request may show
          Evidence,     \* the declarations people may add
          NoRow,        \* the worker has no row in hand
          Revisions,    \* context revisions of a job, from 0 (bound)
          PostLimit,    \* POSTs that an effect may spend: 3
          ReadLimit,    \* reads without an answer before it is left to a person: 3
          MaxEvents,    \* bound: pushes, changes of policy or access, declarations, retries
          MaxStops      \* bound: shutdowns and crashes

ASSUME HeadsAssumption == Heads # {}
ASSUME NoRowAssumption == NoRow \notin Heads \union Evidence
ASSUME RevisionsAssumption == 0 \in Revisions /\ Revisions \subseteq Nat
ASSUME LimitAssumption == PostLimit \in Nat \ {0} /\ ReadLimit \in Nat \ {0}
ASSUME BoundsAssumption == MaxEvents \in Nat /\ MaxStops \in Nat

Report == [head : Heads, rev : Revisions]
Effect == Report \union Evidence

ASSUME EvidenceAssumption == Evidence \intersect Report = {}

VARIABLES
  remote, reg,          \* the pull request at GitHub, and as registered
  policy, access,       \* reviews enabled; the requester may write
  job,                  \* external_review_jobs, by head
  eff,                  \* external_review_effects
  wire, comments,       \* POSTs on their way; comments GitHub has accepted
  at, cur, mat, seen,   \* the worker: its place, its row, the inputs and the base it read
  events, stops,        \* bounded by MaxEvents and MaxStops
  broken                \* history: heads whose last run gave no report, and nobody asked since

prVars  == <<remote, reg, policy, access>>
netVars == <<wire, comments>>
workVars == <<at, cur, mat, seen>>
countVars == <<events, stops>>
vars == <<prVars, job, eff, netVars, workVars, countVars, broken>>

RETRY == {"blocked", "failed", "superseded"}
Place == {"idle", "read", "consult", "save", "publish", "enqueue", "deliver",
          "observe", "guard", "admit", "sent"}
Nothing == [has |-> FALSE, inputs |-> {}]

Results == [has : BOOLEAN, inputs : SUBSET Evidence]

JobRow == [state : {"absent", "queued", "running", "reviewed"} \union RETRY,
           attempted : BOOLEAN, rev : Revisions, base : Nat, required : BOOLEAN,
           result : Results]

EffectState == {"absent", "pending", "processing", "confirmed", "uncertain", "rejected",
                "blocked", "stale"}
EffectRow == [state : EffectState, attempts : 0..PostLimit, reads : 0..ReadLimit,
              head : Heads, base : Nat, result : Results]

PullRequest == [head : Heads, base : Nat]

TypeOK ==
  /\ remote \in PullRequest /\ reg \in PullRequest
  /\ policy \in BOOLEAN /\ access \in BOOLEAN
  /\ job \in [Heads -> JobRow] /\ eff \in [Effect -> EffectRow]
  /\ wire \in SUBSET Effect /\ comments \in [Effect -> Nat]
  /\ at \in Place /\ cur \in Heads \union Effect \union {NoRow}
  /\ mat \in SUBSET Evidence /\ seen \in Nat
  /\ events \in Nat /\ stops \in Nat /\ broken \in SUBSET Heads

Absent == [state |-> "absent", attempted |-> FALSE, rev |-> 0, base |-> 0, required |-> FALSE,
              result |-> Nothing]

Init ==
  /\ remote \in [head : Heads, base : {0}] /\ reg = remote
  /\ policy = TRUE /\ access = TRUE
  /\ job = [h \in Heads |-> IF h = reg.head THEN [Absent EXCEPT !.state = "queued"]
                            ELSE Absent]
  /\ eff = [e \in Effect |-> [state |-> "absent", attempts |-> 0, reads |-> 0,
                              head |-> reg.head, base |-> 0, result |-> Nothing]]
  /\ wire = {} /\ comments = [e \in Effect |-> 0]
  /\ at = "idle" /\ cur = NoRow /\ mat = {} /\ seen = 0
  /\ events = 0 /\ stops = 0 /\ broken = {}

\* inputs_digest: the evidence declared for the commit.
Inputs(h) == {k \in Evidence : eff[k].state # "absent" /\ eff[k].head = h}

completed_result(j) == j.result.has
current_context(h) ==
  /\ reg.head = h /\ reg.base = job[h].base
  /\ job[h].result.has /\ job[h].result.inputs = Inputs(h)

-----------------------------------------------------------------------------
(* external_review_store.enqueue, inside the transaction that saves the task. *)

\* Mutant: a run that failed begins again with a new base.
RequiredUnlessFailed(j, retry) == ~retry /\ j.required /\ j.state # "failed"

\* An unfinished run does not begin again on its own, whatever has changed.
Required(j, retry) == ~retry /\ (j.required \/ (j.state \in RETRY /\ j.attempted))

\* The context of the job is another one: its report and its attempts are of the past.
Changed(h, base, retry, issueChanged) ==
  \/ job[h].base # base \/ issueChanged
  \/ retry /\ completed_result(job[h]) /\ job[h].result.inputs # Inputs(h)

Opens(h, base, retry, issueChanged) ==
  \/ Changed(h, base, retry, issueChanged)
  \/ retry /\ job[h].state \in RETRY
  \/ job[h].state = "blocked" /\ ~job[h].attempted /\ ~job[h].required /\ policy

Fresh == IF policy THEN "queued" ELSE "blocked"

Rewritten(h, base, retry, issueChanged) ==
  LET j == job[h]
      changed  == Changed(h, base, retry, issueChanged)
      reusable == ~changed /\ policy /\ completed_result(j)
      replaced == changed \/ (retry /\ ~completed_result(j)) IN
  [state |-> IF Required(j, retry) THEN (IF j.state \in RETRY THEN j.state ELSE "blocked")
             ELSE IF reusable THEN "reviewed" ELSE Fresh,
   attempted |-> IF changed THEN FALSE ELSE j.attempted,
   rev |-> IF replaced THEN j.rev + 1 ELSE j.rev,
   base |-> base,
   required |-> Required(j, retry),
   result |-> IF reusable THEN j.result ELSE Nothing]

\* The row of the registered head after a refresh, a declaration or a retry.
Requeued(h, base, retry, issueChanged) ==
  IF job[h].state = "absent" THEN [Absent EXCEPT !.state = Fresh, !.base = base]
  ELSE IF Opens(h, base, retry, issueChanged) THEN Rewritten(h, base, retry, issueChanged)
  ELSE job[h]

\* Every other head becomes history.
Superseded(j) ==
  IF j.state \in {"absent", "superseded"} THEN j
  ELSE [j EXCEPT !.state = "superseded", !.required = (j.required \/ j.attempted)]

Enqueued(pr, retry, issueChanged) ==
  [h \in Heads |-> IF h = pr.head THEN Requeued(h, pr.base, retry, issueChanged)
                   ELSE Superseded(job[h])]

\* Bound: a job has as many revisions as Revisions holds.
Room(pr, retry, issueChanged) == Requeued(pr.head, pr.base, retry, issueChanged).rev \in Revisions

-----------------------------------------------------------------------------
(* The world: GitHub, the people, the configuration.                          *)

Event == events < MaxEvents /\ events' = events + 1 /\ UNCHANGED stops

Push ==
  /\ Event
  /\ \/ \E h \in Heads \ {remote.head} : remote' = [remote EXCEPT !.head = h]
     \/ remote' = [remote EXCEPT !.base = @ + 1]
  /\ UNCHANGED <<reg, policy, access, job, eff, netVars, workVars, broken>>

Configure ==
  /\ Event
  /\ \/ policy' = ~policy /\ UNCHANGED access
     \/ access' = ~access /\ UNCHANGED policy
  /\ UNCHANGED <<remote, reg, job, eff, netVars, workVars, broken>>

\* A POST whose answer nobody waits for any more arrives, or does not.
Arrive ==
  /\ \E e \in wire :
       /\ at = "sent" => cur # e
       /\ wire' = wire \ {e}
       /\ comments' = [comments EXCEPT ![e] = @ + 1] \/ UNCHANGED comments
  /\ UNCHANGED <<prVars, job, eff, workVars, countVars, broken>>

\* external_pr.refresh, asked for or by the monitor.
refresh ==
  /\ access /\ Room(remote, FALSE, FALSE)
  /\ reg' = remote /\ job' = Enqueued(remote, FALSE, FALSE)
  /\ UNCHANGED <<remote, policy, access, eff, netVars, workVars, countVars, broken>>

\* The declaration and its comment are one transaction, some time after a refresh.
add_evidence(k) ==
  /\ Event /\ access /\ eff[k].state = "absent" /\ Room(reg, FALSE, FALSE)
  /\ job' = Enqueued(reg, FALSE, FALSE)
  /\ eff' = [eff EXCEPT ![k].state = "pending", ![k].head = reg.head]
  /\ UNCHANGED <<prVars, netVars, workVars, broken>>

BlockReady(h) == [job EXCEPT ![h].state = "blocked", ![h].required = TRUE]

\* Mutant: what is uncertain may be sent again too.
RetriedAll ==
  [e \in Effect |-> IF eff[e].state \in {"rejected", "uncertain"} /\ eff[e].attempts < PostLimit
                    THEN [eff[e] EXCEPT !.state = "pending"] ELSE eff[e]]

\* The outbox: what was rejected may be sent again, what is uncertain read again.
Retried ==
  [e \in Effect |->
     CASE eff[e].state = "rejected" /\ eff[e].attempts < PostLimit -> [eff[e] EXCEPT !.state = "pending"]
       [] eff[e].state = "uncertain"                               -> [eff[e] EXCEPT !.reads = 0]
       [] OTHER                                                    -> eff[e]]

\* POST review_retry: the job, and then the outbox (unless access or the process is lost in
\* between).  The linked issue of a report that still holds is read again first: it may have
\* changed, or not be readable.
review_retry(issue, whole) ==
  LET h == reg.head IN
  /\ access /\ job[h].state # "absent"
  /\ issue = "same" \/ (policy /\ current_context(h))
  /\ Event
  /\ IF issue = "unreadable"
     THEN /\ job' = IF job[h].state = "reviewed" THEN BlockReady(h) ELSE job
          /\ UNCHANGED <<eff, broken>>
     ELSE /\ Room(reg, TRUE, issue = "changed")
          /\ job' = Enqueued(reg, TRUE, issue = "changed")
          /\ eff' = IF whole THEN Retried ELSE eff
          /\ broken' = broken \ {h}
  /\ UNCHANGED <<prVars, netVars, workVars>>

-----------------------------------------------------------------------------
(* run_next: one claimed job, and the model.                                  *)

Work(place) == at' = place /\ UNCHANGED <<cur, mat, seen>>
Put(place) == at' = place /\ cur' = NoRow /\ mat' = {} /\ seen' = 0   \* nothing in hand

Ready(h) == job[h].state = "queued" /\ reg.head = h /\ reg.base = job[h].base

claim_job(h) ==
  /\ at = "idle" /\ Ready(h)
  /\ job' = [job EXCEPT ![h].state = "running", ![h].attempted = TRUE]
  /\ at' = "read" /\ cur' = h /\ UNCHANGED <<mat, seen>>
  /\ UNCHANGED <<prVars, eff, netVars, countVars, broken>>

\* authorized and check_head.
Moved(h) == reg # [head |-> h, base |-> seen] \/ remote # [head |-> h, base |-> seen]
Denied == ~access \/ ~policy

\* finish: only the run that is still registered may close its job.
FinishJob(h, state) ==
  /\ job' = IF job[h].state # "running" THEN job
            ELSE [job EXCEPT ![h].state = state, ![h].required = TRUE, ![h].result = Nothing]
  /\ broken' = IF job[h].state = "running" THEN broken \union {h} ELSE broken

read_context ==
  /\ at = "read"
  /\ IF Denied \/ reg.head # cur \/ reg.base # job[cur].base \/ remote # reg
     THEN /\ FinishJob(cur, IF Denied THEN "blocked" ELSE "superseded")
          /\ Put("publish")
     ELSE /\ at' = "consult" /\ mat' = Inputs(cur) /\ seen' = reg.base
          /\ UNCHANGED <<cur, job, broken>>
  /\ UNCHANGED <<prVars, eff, netVars, countVars>>

\* The model answers, and what it saw still stands; or not; or it times out, breaks or says
\* something else.
run_consult ==
  LET other == Denied \/ Moved(cur) \/ Inputs(cur) # mat IN
  /\ at = "consult"
  /\ \/ ~other /\ Work("save") /\ UNCHANGED <<job, broken>>
     \/ other /\ Put("publish") /\ FinishJob(cur, IF Denied THEN "blocked" ELSE "superseded")
     \/ Put("publish") /\ FinishJob(cur, "failed")
  /\ UNCHANGED <<prVars, eff, netVars, countVars>>

save_report ==
  /\ at = "save" /\ Put("publish")
  /\ job' = IF job[cur].state # "running" THEN job
            ELSE [job EXCEPT ![cur].state = "reviewed", ![cur].required = FALSE,
                             ![cur].result = [has |-> TRUE, inputs |-> mat]]
  /\ UNCHANGED <<prVars, eff, netVars, countVars, broken>>

-----------------------------------------------------------------------------
(* _publish: reports become effects, and one effect is delivered.             *)

ReportOf(h) == [head |-> h, rev |-> job[h].rev]
Outstanding(h) == job[h].state = "reviewed" /\ eff[ReportOf(h)].state = "absent"

\* A round goes on at once where there is nothing to do.
Publishing == at = "publish" \/ (at = "idle" /\ ~\E h \in Heads : Ready(h))
Delivering == at = "deliver" \/ (Publishing /\ ~\E h \in Heads : Outstanding(h))

publication_jobs(h) ==
  /\ Publishing /\ Outstanding(h)
  /\ IF ~Denied /\ current_context(h)
     THEN /\ at' = "enqueue" /\ cur' = ReportOf(h) /\ seen' = job[h].base
          /\ UNCHANGED <<mat, job>>
     ELSE job' = BlockReady(h) /\ UNCHANGED workVars
  /\ UNCHANGED <<prVars, eff, netVars, countVars, broken>>

\* The provenance is copied from the task's projection, which shows the registered job.
enqueue_effect ==
  LET h == cur.head IN
  /\ at = "enqueue" /\ Put("deliver")
  /\ IF access /\ reg.base = seen
     THEN /\ eff' = [eff EXCEPT ![cur].state = "pending", ![cur].head = h, ![cur].base = seen,
                                ![cur].result = IF reg.head = h THEN job[h].result ELSE Nothing]
          /\ UNCHANGED job
     ELSE /\ job' = IF job[h].state = "reviewed" /\ job[h].rev = cur.rev THEN BlockReady(h) ELSE job
          /\ UNCHANGED eff
  /\ UNCHANGED <<prVars, netVars, countVars, broken>>

\* Mutant: an effect without an answer is left as it is.
RankOfUnsent(e) ==
  CASE eff[e].state = "pending" /\ eff[e].attempts < PostLimit -> 0
    [] eff[e].state = "blocked" /\ eff[e].attempts = 0         -> 2
    [] OTHER                                                   -> 3

\* The order in which claim serves the effects; 3 is never.
Rank(e) ==
  CASE eff[e].state = "pending" /\ eff[e].attempts < PostLimit -> 0
    [] eff[e].state = "uncertain" /\ eff[e].reads < ReadLimit  -> 1
    [] eff[e].state = "blocked" /\ eff[e].attempts = 0     -> 2
    [] OTHER                                               -> 3

Idle(e) == Rank(e) = 3

EndOfRound ==
  /\ at # "idle" /\ Delivering /\ \A e \in Effect : Idle(e)
  /\ Put("idle")
  /\ UNCHANGED <<prVars, job, eff, netVars, countVars, broken>>

\* Without access the group is put aside, and tried again later.
defer_group ==
  /\ Delivering /\ ~access /\ \E e \in Effect : ~Idle(e)
  /\ eff' = [e \in Effect |->
       IF eff[e].state = "pending" /\ eff[e].attempts = 0 THEN [eff[e] EXCEPT !.state = "blocked"]
       ELSE eff[e]]
  /\ Put("idle")
  /\ UNCHANGED <<prVars, job, netVars, countVars, broken>>

Claimable(e) ==
  /\ ~Idle(e) /\ \A f \in Effect : Rank(e) <= Rank(f)
  /\ \A f \in Effect : eff[f].state # "processing"

claim(e) ==
  /\ Delivering /\ access /\ Claimable(e)
  /\ eff' = [eff EXCEPT ![e].state = "processing"]
  /\ cur' = e /\ at' = (IF eff[e].state = "uncertain" THEN "observe" ELSE "guard")
  /\ UNCHANGED <<mat, seen, prVars, job, netVars, countVars, broken>>

\* finish
Settle(state) == eff' = [eff EXCEPT ![cur].state = state]
Done == Put("idle")

\* An uncertain effect is only read.
observe ==
  /\ at = "observe" /\ Done
  /\ \/ access /\ comments[cur] = 1 /\ Settle("confirmed")
     \/ eff' = [eff EXCEPT ![cur].state = "uncertain", ![cur].reads = @ + 1]
  /\ UNCHANGED <<prVars, job, netVars, countVars, broken>>

\* What the record can say against a report, besides that the commit moved.
OtherContext(e) == e \in Report /\ (reg.base # eff[e].base \/ job[e.head].rev # e.rev)
OtherInputs(e)  == e \in Report /\ eff[e].result # [has |-> TRUE, inputs |-> Inputs(e.head)]
Withdrawn(e)    == e \in Report /\ job[e.head].state # "reviewed"
Disabled(e)     == e \in Report /\ ~policy

Refusal(e) ==
  IF ~access THEN "blocked"
  ELSE IF reg.head # eff[e].head \/ OtherContext(e) THEN "stale"
  ELSE IF Withdrawn(e) \/ Disabled(e) THEN "blocked"
  ELSE IF OtherInputs(e) THEN "stale"
  ELSE "none"

\* The reads before a POST: the record, the pull request, and a comment that is already there.
\* Any of them may fail.
guard ==
  /\ at = "guard"
  /\ \/ Refusal(cur) # "none" /\ Settle(Refusal(cur)) /\ Done
     \/ /\ Refusal(cur) = "none" /\ remote.head = eff[cur].head
        /\ cur \in Report => remote.base = eff[cur].base
        /\ Work("admit") /\ UNCHANGED eff
     \/ Refusal(cur) = "none" /\ comments[cur] = 1 /\ Settle("confirmed") /\ Done
     \/ /\ Refusal(cur) = "none" /\ cur \in Report /\ remote.base # eff[cur].base
        /\ Settle("stale") /\ Done
     \/ Refusal(cur) = "none" /\ Settle("blocked") /\ Done
  /\ UNCHANGED <<prVars, job, netVars, countVars, broken>>

\* Mutant: the record is not looked at again.
RefusedBefore(e) == IF eff[e].attempts < PostLimit THEN "none" ELSE "blocked"

\* The same questions in the transaction that spends the attempt.
RefusedNow(e) ==
  IF eff[e].attempts >= PostLimit \/ ~access \/ Disabled(e) \/ reg.head # eff[e].head THEN "blocked"
  ELSE IF OtherContext(e) \/ OtherInputs(e) THEN "stale"
  ELSE IF Withdrawn(e) THEN "blocked"
  ELSE "none"

\* The account or the configuration may have changed too.  What is admitted is sent (and may be
\* lost before it leaves).
admit_attempt ==
  /\ at = "admit"
  /\ \/ /\ RefusedNow(cur) = "none" /\ Work("sent")
        /\ eff' = [eff EXCEPT ![cur].attempts = @ + 1] /\ wire' = wire \union {cur}
     \/ RefusedNow(cur) # "none" /\ Settle(RefusedNow(cur)) /\ Done /\ UNCHANGED wire
     \/ Settle("blocked") /\ Done /\ UNCHANGED wire
  /\ UNCHANGED <<prVars, job, comments, countVars, broken>>

\* GitHub accepted it; a search may not show it yet.
accepted ==
  /\ at = "sent" /\ Done
  /\ Settle("confirmed") \/ Settle("uncertain")
  /\ wire' = wire \ {cur} /\ comments' = [comments EXCEPT ![cur] = @ + 1]
  /\ UNCHANGED <<prVars, job, countVars, broken>>

rejected ==
  /\ at = "sent" /\ Done /\ Settle("rejected")
  /\ wire' = wire \ {cur} /\ UNCHANGED comments
  /\ UNCHANGED <<prVars, job, countVars, broken>>

\* Mutant: an answer that is missing is taken for a refusal.
LostIsRejected ==
  /\ at = "sent" /\ Done /\ Settle("rejected")
  /\ UNCHANGED <<prVars, job, netVars, countVars, broken>>

\* No answer, or one that says nothing: the request may still arrive.
unanswered ==
  /\ at = "sent" /\ Done /\ Settle("uncertain")
  /\ UNCHANGED <<prVars, job, netVars, countVars, broken>>

-----------------------------------------------------------------------------
(* The end of the process and its next start, when nothing of this is served. *)

Halt ==
  /\ stops < MaxStops /\ stops' = stops + 1 /\ Put("idle")
  /\ UNCHANGED events

\* stop() cancels the worker where it waits, and the handlers of the cancellation record what
\* is known.  (A transaction that had begun is committed: the step, and then the stop.)
Shutdown ==
  /\ Halt
  /\ \/ at \in {"read", "consult", "save"} /\ FinishJob(cur, "failed") /\ UNCHANGED eff
     \/ at \in {"guard", "admit"} /\ Settle("pending") /\ UNCHANGED <<job, broken>>
     \/ at \in {"observe", "sent"} /\ Settle("uncertain") /\ UNCHANGED <<job, broken>>
     \/ at \in {"idle", "publish", "enqueue", "deliver"} /\ UNCHANGED <<job, eff, broken>>
  /\ UNCHANGED <<prVars, netVars>>

\* Mutant: what a dead process had in hand is sent again.
RecoverPending(e) == "pending"

Recovered(e) == IF eff[e].attempts > 0 THEN "uncertain" ELSE "pending"

\* A crash, and recover() at the next start: a lost run is never repeated, and a lost POST
\* never sent again.
recover ==
  /\ Halt
  /\ job' = [h \in Heads |-> IF job[h].state = "running"
                             THEN [job[h] EXCEPT !.state = "failed", !.required = TRUE]
                             ELSE job[h]]
  /\ broken' = broken \union {h \in Heads : job[h].state = "running"}
  /\ eff' = [e \in Effect |-> IF eff[e].state = "processing"
                              THEN [eff[e] EXCEPT !.state = Recovered(e)] ELSE eff[e]]
  /\ UNCHANGED <<prVars, netVars>>

-----------------------------------------------------------------------------
ReviewStep ==
  \/ \E h \in Heads : claim_job(h) \/ publication_jobs(h)
  \/ read_context \/ run_consult \/ save_report
  \/ enqueue_effect

DeliverStep ==
  \/ EndOfRound \/ defer_group \/ \E e \in Effect : claim(e)
  \/ observe \/ guard \/ admit_attempt \/ accepted \/ rejected \/ unanswered

Next ==
  \/ ReviewStep \/ DeliverStep
  \/ Push \/ Configure \/ Arrive \/ refresh
  \/ \E k \in Evidence : add_evidence(k)
  \/ \E issue \in {"same", "changed", "unreadable"}, whole \in BOOLEAN : review_retry(issue, whole)
  \/ Shutdown \/ recover

Spec == Init /\ [][Next]_vars

\* The monitor starts the worker again and again, and an await of it ends.
FairSpec == Spec /\ WF_vars(ReviewStep) /\ WF_vars(DeliverStep)

-----------------------------------------------------------------------------
(* Properties.                                                                *)

\* "At-most-one-POST intents": whatever is lost, cancelled, restarted or retried, GitHub
\* never has, nor can still receive, the same comment twice.
PostedOnce ==
  \A e \in Effect : comments[e] + Cardinality(wire \intersect {e}) <= 1

\* What the outbox says is what happened: an effect shown as confirmed is at GitHub, and one
\* shown as not sent (pending, rejected, blocked, stale) is not there nor on its way.
OutcomeTrue ==
  \A e \in Effect :
    /\ eff[e].state = "confirmed" => comments[e] = 1
    /\ eff[e].state \in {"absent", "pending", "rejected", "blocked", "stale"} =>
         comments[e] = 0 /\ e \notin wire

\* An attempt to publish a report is only spent while the commit, the base and the evidence
\* the model saw are those registered, and its job stands: the model ran many steps before.
ReportIsCurrent ==
  [][\A e \in Report : eff'[e].attempts > eff[e].attempts =>
       /\ reg = [head |-> e.head, base |-> job[e.head].base]
       /\ job[e.head].state = "reviewed" /\ job[e.head].rev = e.rev
       /\ job[e.head].result = [has |-> TRUE, inputs |-> Inputs(e.head)]]_vars

\* A run of the model that was cut, failed or refused is not repeated until a person asks,
\* through restarts, pushes, new bases and changes of policy ("no se repitió el modelo").
NoRerunUnasked ==
  [][\A h \in Heads : job[h].state # "running" /\ job'[h].state = "running" =>
       h \notin broken]_vars

\* The outbox comes to rest again and again: every comment that was asked for is confirmed,
\* given up with its reason, or left to a person after its reads, unless its author loses access.
OutboxSettles ==
  []<>(\/ ~access
       \/ \A e \in Effect :
            \/ eff[e].state \in {"absent", "confirmed", "rejected", "blocked", "stale"}
            \/ eff[e].state = "uncertain" /\ eff[e].reads >= ReadLimit)
=============================================================================
