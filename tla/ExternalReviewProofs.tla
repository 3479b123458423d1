------------------------ MODULE ExternalReviewProofs ------------------------
(***************************************************************************)
(* What holds of ExternalReview for every value of its constants: the      *)
(* types, at most one comment per effect whatever is lost, the truth of    *)
(* what the outbox shows, and that no run that ended without a report is   *)
(* repeated unasked, and that what is published is current.                *)
(***************************************************************************)
EXTENDS ExternalReview, FiniteSetTheorems, TLAPS

Unsent(e) == comments[e] = 0 /\ e \notin wire

\* One comment at most; what is shown as not sent, or never spent an attempt, was not sent; and
\* what is being processed is in the worker's hands.
Ledger(e) ==
  /\ comments[e] = 0 \/ (comments[e] = 1 /\ e \notin wire)
  /\ eff[e].state = "confirmed" => comments[e] = 1
  /\ eff[e].state \in {"absent", "pending", "rejected", "blocked", "stale"} => Unsent(e)
  /\ eff[e].attempts = 0 => Unsent(e)
  /\ eff[e].state = "processing" => cur = e /\ at \in {"observe", "guard", "admit", "sent"}

\* What the worker knows of its row at each place.
InHand ==
  /\ at \in {"read", "consult", "save"} => cur \in Heads
  /\ at = "enqueue" => cur \in Report /\ eff[cur].state = "absent"
  /\ at \in {"observe", "guard", "admit", "sent"} => cur \in Effect /\ eff[cur].state = "processing"
  /\ at = "observe" => eff[cur].reads < ReadLimit
  /\ at \in {"guard", "admit"} => Unsent(cur)
  /\ at = "sent" => comments[cur] = 0 /\ eff[cur].attempts > 0

\* A run that gave no report waits for a person.
Waits == \A h \in broken : job[h].required /\ job[h].state \in RETRY

IInv == TypeOK /\ (\A e \in Effect : Ledger(e)) /\ InHand /\ Waits

-----------------------------------------------------------------------------
(* The rows of the two tables keep their shape.                               *)

LEMMA JobUpdate ==
  ASSUME job \in [Heads -> JobRow], NEW h \in Heads, NEW row \in JobRow
  PROVE  [job EXCEPT ![h] = row] \in [Heads -> JobRow]
OBVIOUS

LEMMA SettledRow ==
  ASSUME eff \in [Effect -> EffectRow], NEW e \in Effect, NEW s \in EffectState
  PROVE  [eff EXCEPT ![e].state = s] \in [Effect -> EffectRow]
BY DEF EffectRow

LEMMA InputsType == ASSUME NEW h \in Heads PROVE Inputs(h) \in SUBSET Evidence
BY DEF Inputs

LEMMA NothingType == Nothing \in Results
BY DEF Nothing, Results

LEMMA RequiredType ==
  ASSUME NEW j, NEW retry
  PROVE  Required(j, retry) \in BOOLEAN
BY Zenon DEF Required

LEMMA RewrittenType ==
  ASSUME TypeOK, NEW h \in Heads, NEW base \in Nat, NEW retry \in BOOLEAN, NEW c \in BOOLEAN,
         Rewritten(h, base, retry, c).rev \in Revisions
  PROVE  Rewritten(h, base, retry, c) \in JobRow
<1>. DEFINE row == Rewritten(h, base, retry, c)
<1>1. job[h] \in JobRow
  BY DEF TypeOK
<1>2. row.state \in {"queued", "reviewed"} \union RETRY
  <2>1. Fresh \in {"queued", "blocked"}
    BY Zenon DEF Fresh
  <2>. QED
    BY <2>1, Zenon DEF Rewritten, RETRY
<1>3. row.attempted \in BOOLEAN
  BY <1>1 DEF Rewritten, JobRow
<1>4. row.required \in BOOLEAN
  BY RequiredType DEF Rewritten
<1>5. row.result \in Results /\ row.base \in Nat
  BY <1>1, NothingType DEF Rewritten, JobRow
<1>6. row = [state |-> row.state, attempted |-> row.attempted, rev |-> row.rev,
             base |-> row.base, required |-> row.required, result |-> row.result]
  BY Zenon DEF Rewritten
<1>. HIDE DEF row
<1>7. row.rev \in Revisions
  BY DEF row
<1>. QED
  BY <1>2, <1>3, <1>4, <1>5, <1>6, <1>7 DEF JobRow, row

LEMMA RequeuedType ==
  ASSUME TypeOK, NEW h \in Heads, NEW base \in Nat, NEW retry \in BOOLEAN, NEW c \in BOOLEAN,
         Requeued(h, base, retry, c).rev \in Revisions
  PROVE  Requeued(h, base, retry, c) \in JobRow
<1>1. job[h] \in JobRow
  BY DEF TypeOK
<1>2. Fresh \in {"queued", "blocked"}
  BY Zenon DEF Fresh
<1>3. [Absent EXCEPT !.state = Fresh, !.base = base] \in JobRow
  BY <1>2, NothingType, RevisionsAssumption DEF Absent, JobRow, RETRY
<1>. QED
  BY <1>1, <1>3, RewrittenType DEF Requeued

LEMMA SupersededType ==
  ASSUME NEW j \in JobRow
  PROVE  Superseded(j) \in JobRow
<1>1. (j.required \/ j.attempted) \in BOOLEAN
  BY Zenon
<1>2. \A b \in BOOLEAN : [j EXCEPT !.state = "superseded", !.required = b] \in JobRow
  BY DEF JobRow, RETRY
<1>3. [j EXCEPT !.state = "superseded", !.required = (j.required \/ j.attempted)] \in JobRow
  BY <1>1, <1>2, Zenon
<1>. QED
  BY <1>3, Zenon DEF Superseded

LEMMA EnqueuedType ==
  ASSUME TypeOK, NEW pr \in PullRequest, NEW retry \in BOOLEAN, NEW c \in BOOLEAN,
         Room(pr, retry, c)
  PROVE  Enqueued(pr, retry, c) \in [Heads -> JobRow]
<1>1. pr.head \in Heads /\ pr.base \in Nat
  BY DEF PullRequest
<1>2. Requeued(pr.head, pr.base, retry, c) \in JobRow
  BY <1>1, RequeuedType DEF Room
<1>3. \A h \in Heads : Superseded(job[h]) \in JobRow
  BY SupersededType DEF TypeOK
<1>. QED
  BY <1>2, <1>3 DEF Enqueued

-----------------------------------------------------------------------------
(* A run without a report waits for a person.                                 *)

LEMMA RequeuedWaits ==
  ASSUME TypeOK, NEW h \in Heads, NEW base, NEW c,
         job[h].required, job[h].state \in RETRY
  PROVE  /\ Requeued(h, base, FALSE, c).required
         /\ Requeued(h, base, FALSE, c).state \in RETRY
<1>1. Required(job[h], FALSE)
  BY Zenon DEF Required
<1>2. job[h].state # "absent"
  BY DEF RETRY
<1>3. Rewritten(h, base, FALSE, c).required = Required(job[h], FALSE)
  BY Zenon DEF Rewritten
<1>4. Rewritten(h, base, FALSE, c).state = job[h].state
  BY <1>1, Zenon DEF Rewritten
<1>5. CASE Opens(h, base, FALSE, c)
  <2>1. Requeued(h, base, FALSE, c) = Rewritten(h, base, FALSE, c)
    BY <1>2, <1>5, Zenon DEF Requeued
  <2>. QED
    BY <2>1, <1>1, <1>3, <1>4, Zenon
<1>6. CASE ~Opens(h, base, FALSE, c)
  <2>1. Requeued(h, base, FALSE, c) = job[h]
    BY <1>2, <1>6, Zenon DEF Requeued
  <2>. QED
    BY <2>1, Zenon
<1>. QED
  BY <1>5, <1>6

LEMMA SupersededWaits ==
  ASSUME NEW j \in JobRow, j.required, j.state \in RETRY
  PROVE  Superseded(j).required /\ Superseded(j).state \in RETRY
<1>1. \A b \in BOOLEAN : LET k == [j EXCEPT !.state = "superseded", !.required = b]
                         IN  k.state = "superseded" /\ k.required = b
  BY DEF JobRow
<1>2. (j.required \/ j.attempted) = TRUE
  BY Zenon
<1>. QED
  BY <1>1, <1>2, Zenon DEF Superseded, RETRY

LEMMA EnqueuedWaits ==
  ASSUME TypeOK, Waits, NEW pr \in PullRequest, NEW retry \in BOOLEAN, NEW c \in BOOLEAN,
         NEW h \in broken, h = pr.head => ~retry
  PROVE  Enqueued(pr, retry, c)[h].required /\ Enqueued(pr, retry, c)[h].state \in RETRY
<1>1. h \in Heads /\ job[h].required /\ job[h].state \in RETRY
  BY DEF TypeOK, Waits
<1>2. CASE h = pr.head
  <2>1. retry = FALSE
    BY <1>2
  <2>2. Enqueued(pr, retry, c)[h] = Requeued(h, pr.base, FALSE, c)
    BY <1>1, <1>2, <2>1, Zenon DEF Enqueued
  <2>. QED
    BY <1>1, <2>2, RequeuedWaits
<1>3. CASE h # pr.head
  <2>1. Enqueued(pr, retry, c)[h] = Superseded(job[h])
    BY <1>1, <1>3, Zenon DEF Enqueued
  <2>2. job[h] \in JobRow
    BY <1>1 DEF TypeOK
  <2>. QED
    BY <1>1, <2>1, <2>2, SupersededWaits
<1>. QED
  BY <1>2, <1>3

-----------------------------------------------------------------------------
(* What each step does to the outbox.                                         *)

LEMMA SettleFacts ==
  ASSUME TypeOK, cur \in Effect, NEW s \in EffectState, Settle(s)
  PROVE  /\ eff' \in [Effect -> EffectRow]
         /\ \A e \in Effect : /\ eff'[e].state = IF e = cur THEN s ELSE eff[e].state
                              /\ eff'[e].attempts = eff[e].attempts
                              /\ eff'[e].reads = eff[e].reads
<1>1. eff \in [Effect -> EffectRow]
  BY DEF TypeOK
<1>. QED
  BY <1>1, SettledRow DEF Settle, EffectRow

\* The worker puts its effect down: nothing else may be in process.
LEMMA PutDown ==
  ASSUME TypeOK, \A e \in Effect : Ledger(e), cur \in Effect,
         at \in {"observe", "guard", "admit", "sent"},
         NEW s \in EffectState \ {"processing"}, Settle(s), Done, UNCHANGED netVars,
         s = "confirmed" => comments[cur] = 1,
         s # "confirmed" /\ s # "uncertain" => Unsent(cur)
  PROVE  (\A e \in Effect : Ledger(e)') /\ InHand'
<1>1. \A e \in Effect : /\ eff'[e].state = IF e = cur THEN s ELSE eff[e].state
                        /\ eff'[e].attempts = eff[e].attempts
  BY SettleFacts
<1>2. ASSUME NEW e \in Effect PROVE Ledger(e)'
  <2>1. Ledger(e)
    OBVIOUS
  <2>. QED
    BY <1>1, <2>1 DEF Ledger, Unsent, netVars, Done, Put, EffectState
<1>3. InHand'
  BY DEF InHand, Done, Put
<1>. QED
  BY <1>2, <1>3

LEMMA ClaimFacts ==
  ASSUME TypeOK, \A e \in Effect : Ledger(e), NEW c \in Effect, claim(c)
  PROVE  (\A e \in Effect : Ledger(e)') /\ InHand' /\ eff' \in [Effect -> EffectRow]
<1>1. eff \in [Effect -> EffectRow]
  BY DEF TypeOK
<1>2. eff' \in [Effect -> EffectRow]
  BY <1>1, SettledRow DEF claim, EffectState
<1>3. \A e \in Effect : /\ eff'[e].state = IF e = c THEN "processing" ELSE eff[e].state
                        /\ eff'[e].attempts = eff[e].attempts
                        /\ eff'[e].reads = eff[e].reads
  BY <1>1 DEF claim, EffectRow
<1>4. \A e \in Effect : eff[e].state # "processing"
  BY Zenon DEF claim, Claimable
<1>5. \/ eff[c].state \in {"pending", "blocked"}
      \/ eff[c].state = "uncertain" /\ eff[c].reads < ReadLimit
  BY Zenon DEF claim, Claimable, Idle, Rank
<1>6. cur' = c /\ at' = IF eff[c].state = "uncertain" THEN "observe" ELSE "guard"
  BY DEF claim
<1>7. ASSUME NEW e \in Effect PROVE Ledger(e)'
  <2>1. Ledger(e) /\ comments' = comments /\ wire' = wire
    BY DEF claim, netVars
  <2>. QED
    BY <1>3, <1>4, <1>6, <2>1 DEF Ledger, Unsent
<1>8. InHand'
  <2>1. Ledger(c) /\ comments' = comments /\ wire' = wire
    BY DEF claim, netVars
  <2>. QED
    BY <1>3, <1>5, <1>6, <2>1 DEF InHand, Ledger, Unsent
<1>. QED
  BY <1>2, <1>7, <1>8

-----------------------------------------------------------------------------
(* Waits is kept: job by job.                                                 *)

LEMMA OneJobWaits ==
  ASSUME TypeOK, Waits, NEW h \in Heads, job[h].state \notin RETRY,
         \A g \in Heads \ {h} : job'[g] = job[g], broken' = broken
  PROVE  Waits'
BY Zenon DEF Waits, TypeOK

LEMMA BlockReadyFacts ==
  ASSUME TypeOK, NEW h \in Heads
  PROVE  /\ BlockReady(h) \in [Heads -> JobRow]
         /\ \A g \in Heads \ {h} : BlockReady(h)[g] = job[g]
<1>1. job \in [Heads -> JobRow]
  BY DEF TypeOK
<1>2. [job[h] EXCEPT !.state = "blocked", !.required = TRUE] \in JobRow
  BY <1>1 DEF JobRow, RETRY
<1>3. BlockReady(h) = [job EXCEPT ![h] = [job[h] EXCEPT !.state = "blocked", !.required = TRUE]]
  BY <1>1 DEF BlockReady
<1>. QED
  BY <1>1, <1>2, <1>3

\* A run that ends without a report is a broken one, and waits.
LEMMA FinishFacts ==
  ASSUME TypeOK, Waits, NEW h \in Heads, NEW s \in RETRY, FinishJob(h, s)
  PROVE  job' \in [Heads -> JobRow] /\ broken' \in SUBSET Heads /\ Waits'
<1>. DEFINE row == [job[h] EXCEPT !.state = s, !.required = TRUE, !.result = Nothing]
<1>1. job \in [Heads -> JobRow] /\ broken \in SUBSET Heads
  BY DEF TypeOK
<1>2. CASE job[h].state # "running"
  BY <1>1, <1>2, Zenon DEF FinishJob, Waits
<1>3. CASE job[h].state = "running"
  <2>1. job' = [job EXCEPT ![h].state = s, ![h].required = TRUE, ![h].result = Nothing]
        /\ broken' = broken \union {h}
    BY <1>3, Zenon DEF FinishJob
  <2>2. job' = [job EXCEPT ![h] = row]
    BY <1>1, <2>1
  <2>3. row \in JobRow /\ row.required = TRUE /\ row.state = s
    BY <1>1, NothingType DEF JobRow
  <2>. HIDE DEF row
  <2>4. job'[h] = row /\ \A g \in Heads \ {h} : job'[g] = job[g]
    BY <1>1, <2>2
  <2>5. Waits'
    <3>. SUFFICES ASSUME NEW g \in broken'
                  PROVE  job'[g].required /\ job'[g].state \in RETRY
      BY DEF Waits
    <3>1. CASE g = h
      BY <3>1, <2>3, <2>4, Zenon
    <3>2. CASE g # h
      BY <3>2, <1>1, <2>1, <2>4, Zenon DEF Waits
    <3>. QED
      BY <3>1, <3>2
  <2>6. job' \in [Heads -> JobRow]
    BY <1>1, <2>2, <2>3
  <2>7. broken' \in SUBSET Heads
    BY <1>1, <2>1
  <2>. QED
    BY <2>5, <2>6, <2>7
<1>. QED
  BY <1>2, <1>3

LEMMA RecoverWaits == ASSUME TypeOK, Waits, recover PROVE Waits'
<1>. SUFFICES ASSUME NEW h \in broken'
              PROVE  job'[h].required /\ job'[h].state \in RETRY
  BY DEF Waits
<1>1. job \in [Heads -> JobRow] /\ broken \in SUBSET Heads
  BY DEF TypeOK
<1>2. broken' = broken \union {g \in Heads : job[g].state = "running"}
  BY DEF recover
<1>3. h \in Heads
  BY <1>1, <1>2
<1>4. job'[h] = IF job[h].state = "running"
                THEN [job[h] EXCEPT !.state = "failed", !.required = TRUE] ELSE job[h]
  BY <1>3, Zenon DEF recover
<1>5. CASE job[h].state = "running"
  <2>1. LET row == [job[h] EXCEPT !.state = "failed", !.required = TRUE]
        IN  row.state = "failed" /\ row.required = TRUE
    BY <1>1, <1>3 DEF JobRow
  <2>. QED
    BY <1>4, <1>5, <2>1, Zenon DEF RETRY
<1>6. CASE job[h].state # "running"
  BY <1>2, <1>4, <1>6, Zenon DEF Waits
<1>. QED
  BY <1>5, <1>6

LEMMA RetryWaits ==
  ASSUME TypeOK, Waits, NEW issue \in {"same", "changed", "unreadable"}, NEW whole \in BOOLEAN,
         review_retry(issue, whole)
  PROVE  Waits'
<1>1. reg \in PullRequest /\ reg.head \in Heads
  BY DEF TypeOK, PullRequest
<1>2. CASE issue = "unreadable" /\ job[reg.head].state = "reviewed"
  <2>1. job' = BlockReady(reg.head) /\ broken' = broken
    BY <1>2 DEF review_retry
  <2>. QED
    BY <1>1, <1>2, <2>1, BlockReadyFacts, OneJobWaits DEF RETRY
<1>3. CASE issue = "unreadable" /\ job[reg.head].state # "reviewed"
  <2>1. job' = job /\ broken' = broken
    BY <1>3 DEF review_retry
  <2>. QED
    BY <2>1, Zenon DEF Waits
<1>4. CASE issue # "unreadable"
  <2>. DEFINE c == issue = "changed"
  <2>1. job' = Enqueued(reg, TRUE, c) /\ broken' = broken \ {reg.head}
    BY <1>4, Zenon DEF review_retry
  <2>2. c \in BOOLEAN
    BY Zenon
  <2>. HIDE DEF c
  <2>. QED
    BY <1>1, <2>1, <2>2, EnqueuedWaits DEF Waits
<1>. QED
  BY <1>2, <1>3, <1>4

LEMMA WaitsStep ==
  ASSUME IInv, [Next]_vars
  PROVE  Waits'
<1>. USE DEF IInv
<1>1. ASSUME NEW h \in Heads, claim_job(h) PROVE Waits'
  <2>1. job[h].state \notin RETRY /\ broken' = broken
    BY <1>1 DEF claim_job, Ready, RETRY
  <2>2. \A g \in Heads \ {h} : job'[g] = job[g]
    BY <1>1 DEF claim_job, TypeOK
  <2>. QED
    BY <2>1, <2>2, OneJobWaits
<1>2. ASSUME NEW h \in Heads, publication_jobs(h) PROVE Waits'
  BY <1>2, BlockReadyFacts, OneJobWaits DEF publication_jobs, Outstanding, RETRY, Waits
<1>3. CASE read_context
  <2>1. cur \in Heads
    BY <1>3 DEF read_context, InHand
  <2>2. CASE UNCHANGED <<job, broken>>
    BY <2>2, Zenon DEF Waits
  <2>3. CASE \E s \in RETRY : FinishJob(cur, s)
    BY <2>1, <2>3, FinishFacts
  <2>. QED
    BY <1>3, <2>2, <2>3, Zenon DEF read_context, RETRY
<1>4. CASE run_consult
  <2>1. cur \in Heads
    BY <1>4 DEF run_consult, InHand
  <2>2. CASE UNCHANGED <<job, broken>>
    BY <2>2, Zenon DEF Waits
  <2>3. CASE \E s \in RETRY : FinishJob(cur, s)
    BY <2>1, <2>3, FinishFacts
  <2>. QED
    BY <1>4, <2>2, <2>3, Zenon DEF run_consult, RETRY
<1>5. CASE save_report
  <2>1. cur \in Heads /\ broken' = broken
    BY <1>5 DEF save_report, InHand
  <2>2. CASE job[cur].state # "running"
    BY <1>5, <2>1, <2>2 DEF save_report, Waits
  <2>3. CASE job[cur].state = "running"
    <3>1. \A g \in Heads \ {cur} : job'[g] = job[g]
      BY <1>5, <2>3 DEF save_report, TypeOK
    <3>. QED
      BY <2>1, <2>3, <3>1, OneJobWaits DEF RETRY
  <2>. QED
    BY <2>2, <2>3
<1>6. CASE enqueue_effect
  <2>1. cur.head \in Heads /\ broken' = broken
    BY <1>6 DEF enqueue_effect, InHand, Report
  <2>2. CASE job' = job
    BY <2>1, <2>2 DEF Waits
  <2>3. CASE job[cur.head].state = "reviewed" /\ job' = BlockReady(cur.head)
    BY <2>1, <2>3, BlockReadyFacts, OneJobWaits DEF RETRY
  <2>. QED
    BY <1>6, <2>2, <2>3, Zenon DEF enqueue_effect
<1>7. CASE DeliverStep \/ Push \/ Configure \/ Arrive \/ UNCHANGED vars
  <2>1. job' = job /\ broken' = broken
    BY <1>7 DEF DeliverStep, EndOfRound, defer_group, claim, observe, guard, admit_attempt, accepted,
                rejected, unanswered, Push, Configure, Arrive, vars
  <2>. QED
    BY <2>1, Zenon DEF Waits
<1>8. CASE refresh
  <2>1. remote \in PullRequest /\ Room(remote, FALSE, FALSE)
    BY <1>8 DEF refresh, TypeOK
  <2>. QED
    BY <1>8, <2>1, EnqueuedWaits DEF refresh, Waits
<1>9. ASSUME NEW e \in Evidence, add_evidence(e) PROVE Waits'
  <2>1. reg \in PullRequest
    BY DEF TypeOK
  <2>. QED
    BY <1>9, <2>1, EnqueuedWaits DEF add_evidence, Waits
<1>10. ASSUME NEW issue \in {"same", "changed", "unreadable"}, NEW whole \in BOOLEAN,
              review_retry(issue, whole)
       PROVE  Waits'
  BY <1>10, RetryWaits
<1>11. CASE Shutdown
  <2>1. CASE UNCHANGED <<job, broken>>
    BY <2>1, Zenon DEF Waits
  <2>2. CASE at \in {"read", "consult", "save"} /\ FinishJob(cur, "failed")
    BY <2>2, FinishFacts DEF InHand, RETRY
  <2>. QED
    BY <1>11, <2>1, <2>2 DEF Shutdown
<1>12. CASE recover
  BY <1>12, RecoverWaits
<1>. QED
  BY <1>1, <1>2, <1>3, <1>4, <1>5, <1>6, <1>7, <1>8, <1>9, <1>10, <1>11, <1>12 DEF Next, ReviewStep

-----------------------------------------------------------------------------
(* The ledger and the worker's hands are kept.                                *)

\* A step that touches no effect, while the worker has none in hand.
LEMMA NotDelivering ==
  ASSUME \A e \in Effect : Ledger(e), UNCHANGED <<eff, netVars>>,
         at \notin {"observe", "guard", "admit", "sent"}
  PROVE  \A e \in Effect : Ledger(e)'
BY DEF Ledger, Unsent, netVars

\* A step of others.
LEMMA Outside ==
  ASSUME \A e \in Effect : Ledger(e), InHand, UNCHANGED <<eff, netVars, workVars>>
  PROVE  (\A e \in Effect : Ledger(e)') /\ InHand'
<1>1. eff' = eff /\ wire' = wire /\ comments' = comments /\ at' = at /\ cur' = cur
  BY DEF netVars, workVars
<1>. QED
  BY <1>1 DEF Ledger, Unsent, InHand

LEMMA ArriveFacts ==
  ASSUME TypeOK, \A e \in Effect : Ledger(e), InHand, Arrive
  PROVE  (\A e \in Effect : Ledger(e)') /\ InHand'
<1>1. PICK p \in wire :
        /\ at = "sent" => cur # p
        /\ wire' = wire \ {p}
        /\ comments' = [comments EXCEPT ![p] = @ + 1] \/ comments' = comments
  BY DEF Arrive
<1>2. p \in Effect /\ comments \in [Effect -> Nat] /\ eff' = eff /\ at' = at /\ cur' = cur
  BY DEF TypeOK, Arrive, workVars
<1>3. comments[p] = 0 /\ ~Unsent(p)
  BY <1>2 DEF Ledger, Unsent
<1>. DEFINE c == comments'
<1>4. \A e \in Effect : e # p => comments'[e] = comments[e] /\ (e \in wire' <=> e \in wire)
  <2>1. \A e \in Effect : e # p => (e \in wire' <=> e \in wire)
    BY <1>1
  <2>2. CASE c = [comments EXCEPT ![p] = @ + 1]
    BY <1>2, <2>1, <2>2
  <2>3. CASE c = comments
    BY <2>1, <2>3
  <2>. QED
    BY <1>1, <2>2, <2>3, Zenon
<1>5. comments'[p] \in {0, 1} /\ p \notin wire'
  <2>1. p \notin wire'
    BY <1>1
  <2>2. CASE c = [comments EXCEPT ![p] = @ + 1]
    BY <1>2, <1>3, <2>1, <2>2
  <2>3. CASE c = comments
    BY <1>3, <2>1, <2>3
  <2>. QED
    BY <1>1, <2>2, <2>3, Zenon
<1>6. ASSUME NEW e \in Effect PROVE Ledger(e)'
  <2>1. CASE e = p
    <3>1. Ledger(p)
      BY <1>2
    <3>. QED
      BY <1>2, <1>3, <1>5, <2>1, <3>1 DEF Ledger, Unsent
  <2>2. CASE e # p
    <3>1. Ledger(e)
      OBVIOUS
    <3>. QED
      BY <1>2, <1>4, <2>2, <3>1 DEF Ledger, Unsent
  <2>. QED
    BY <2>1, <2>2
<1>7. InHand'
  BY <1>1, <1>2, <1>3, <1>4, Zenon DEF InHand, Unsent
<1>. QED
  BY <1>6, <1>7

\* Rows that were never posted, and are not in hand, become pending or blocked.
LEMMA OutboxFacts ==
  ASSUME \A e \in Effect : Ledger(e), UNCHANGED netVars, NEW D,
         \A e \in Effect : eff'[e].attempts = eff[e].attempts,
         \A e \in Effect \ D : eff'[e].state = eff[e].state,
         \A e \in Effect \intersect D :
           eff[e].state # "processing" /\ Unsent(e) /\ eff'[e].state \in {"pending", "blocked"},
         \/ cur' = cur /\ at' = at
         \/ at \notin {"observe", "guard", "admit", "sent"}
  PROVE  \A e \in Effect : Ledger(e)'
<1>1. wire' = wire /\ comments' = comments
  BY DEF netVars
<1>. SUFFICES ASSUME NEW e \in Effect PROVE Ledger(e)'
  OBVIOUS
<1>2. Ledger(e)
  OBVIOUS
<1>. QED
  BY <1>1, <1>2 DEF Ledger, Unsent

LEMMA AddFacts ==
  ASSUME TypeOK, \A e \in Effect : Ledger(e), InHand, NEW k \in Evidence, add_evidence(k)
  PROVE  (\A e \in Effect : Ledger(e)') /\ InHand' /\ eff' \in [Effect -> EffectRow]
<1>. DEFINE row == [eff[k] EXCEPT !.state = "pending", !.head = reg.head]
<1>1. eff \in [Effect -> EffectRow] /\ reg.head \in Heads /\ k \in Effect
  BY DEF TypeOK, PullRequest, Effect
<1>2. eff' = [eff EXCEPT ![k] = row]
  BY <1>1 DEF add_evidence
<1>3. row \in EffectRow /\ row.state = "pending" /\ row.attempts = eff[k].attempts
  BY <1>1 DEF EffectRow, EffectState
<1>. HIDE DEF row
<1>4. eff' \in [Effect -> EffectRow] /\ eff'[k] = row
      /\ \A e \in Effect : e # k => eff'[e] = eff[e]
  BY <1>1, <1>2, <1>3
<1>5. eff[k].state = "absent" /\ at' = at /\ cur' = cur /\ UNCHANGED netVars
  BY DEF add_evidence, workVars
<1>6. Unsent(k)
  BY <1>1, <1>5 DEF Ledger
<1>7. \A e \in Effect : Ledger(e)'
  <2>. DEFINE D == {k}
  <2>1. \A e \in Effect : eff'[e].attempts = eff[e].attempts
    BY <1>3, <1>4, Zenon
  <2>2. \A e \in Effect \ D : eff'[e].state = eff[e].state
    BY <1>4
  <2>3. \A e \in Effect \intersect D :
          eff[e].state # "processing" /\ Unsent(e) /\ eff'[e].state \in {"pending", "blocked"}
    BY <1>3, <1>4, <1>5, <1>6
  <2>. HIDE DEF D
  <2>. QED
    BY <1>5, <2>1, <2>2, <2>3, OutboxFacts
<1>8. InHand'
  <2>1. at = "enqueue" => cur # k
    BY EvidenceAssumption DEF InHand
  <2>2. at \in {"observe", "guard", "admit", "sent"} => cur # k
    BY <1>5 DEF InHand
  <2>3. at = "enqueue" => cur \in Effect
    BY DEF InHand, Effect
  <2>4. wire' = wire /\ comments' = comments
    BY <1>5 DEF netVars
  <2>. QED
    BY <1>4, <1>5, <2>1, <2>2, <2>3, <2>4, Zenon DEF InHand, Unsent
<1>. QED
  BY <1>4, <1>7, <1>8

LEMMA DeferFacts ==
  ASSUME TypeOK, \A e \in Effect : Ledger(e), defer_group
  PROVE  (\A e \in Effect : Ledger(e)') /\ InHand' /\ eff' \in [Effect -> EffectRow]
<1>. DEFINE D == {e \in Effect : eff[e].state = "pending" /\ eff[e].attempts = 0}
<1>1. eff \in [Effect -> EffectRow]
  BY DEF TypeOK
<1>2. \A e \in Effect : eff'[e] = IF e \in D THEN [eff[e] EXCEPT !.state = "blocked"] ELSE eff[e]
  BY Zenon DEF defer_group
<1>3. \A e \in Effect : [eff[e] EXCEPT !.state = "blocked"] \in EffectRow
  BY <1>1 DEF EffectRow, EffectState
<1>4. eff' \in [Effect -> EffectRow]
  BY <1>1, <1>3 DEF defer_group
<1>5. \A e \in Effect : eff'[e].attempts = eff[e].attempts
  BY <1>1, <1>2 DEF EffectRow
<1>6. \A e \in Effect \ D : eff'[e].state = eff[e].state
  BY <1>2, Zenon
<1>7. \A e \in Effect \intersect D :
        eff[e].state # "processing" /\ Unsent(e) /\ eff'[e].state \in {"pending", "blocked"}
  BY <1>1, <1>2 DEF EffectRow, Ledger
<1>8. at \notin {"observe", "guard", "admit", "sent"} /\ UNCHANGED netVars
  BY DEF defer_group, Delivering, Publishing
<1>. HIDE DEF D
<1>9. \A e \in Effect : Ledger(e)'
  BY <1>5, <1>6, <1>7, <1>8, OutboxFacts
<1>10. InHand'
  BY DEF defer_group, Put, InHand
<1>. QED
  BY <1>4, <1>9, <1>10

LEMMA EnqueueFacts ==
  ASSUME TypeOK, \A e \in Effect : Ledger(e), InHand, enqueue_effect
  PROVE  (\A e \in Effect : Ledger(e)') /\ InHand' /\ eff' \in [Effect -> EffectRow]
<1>1. eff \in [Effect -> EffectRow] /\ cur \in Effect /\ cur.head \in Heads /\ seen \in Nat
      /\ eff[cur].state = "absent" /\ at = "enqueue" /\ UNCHANGED netVars
  BY DEF TypeOK, InHand, enqueue_effect, Effect, Report
<1>2. InHand'
  BY DEF enqueue_effect, Put, InHand
<1>3. CASE eff' = eff
  BY <1>1, <1>2, <1>3, NotDelivering
<1>4. CASE eff' # eff
  <2>. DEFINE res == IF reg.head = cur.head THEN job[cur.head].result ELSE Nothing
              row == [eff[cur] EXCEPT !.state = "pending", !.head = cur.head, !.base = seen,
                                      !.result = res]
              D == {cur}
  <2>1. res \in Results
    BY <1>1, NothingType DEF TypeOK, JobRow
  <2>2. eff' = [eff EXCEPT ![cur].state = "pending", ![cur].head = cur.head, ![cur].base = seen,
                           ![cur].result = res]
    BY <1>4, Zenon DEF enqueue_effect
  <2>. HIDE DEF res
  <2>3. eff' = [eff EXCEPT ![cur] = row]
    BY <1>1, <2>2
  <2>4. row \in EffectRow /\ row.state = "pending" /\ row.attempts = eff[cur].attempts
    BY <1>1, <2>1 DEF EffectRow, EffectState
  <2>. HIDE DEF row
  <2>5. eff' \in [Effect -> EffectRow] /\ eff'[cur] = row
        /\ \A e \in Effect : e # cur => eff'[e] = eff[e]
    BY <1>1, <2>3, <2>4
  <2>6. \A e \in Effect : eff'[e].attempts = eff[e].attempts
    BY <2>4, <2>5, Zenon
  <2>7. \A e \in Effect \ D : eff'[e].state = eff[e].state
    BY <2>5
  <2>8. \A e \in Effect \intersect D :
          eff[e].state # "processing" /\ Unsent(e) /\ eff'[e].state \in {"pending", "blocked"}
    BY <1>1, <2>4, <2>5 DEF Ledger
  <2>. HIDE DEF D
  <2>9. \A e \in Effect : Ledger(e)'
    BY <1>1, <2>6, <2>7, <2>8, OutboxFacts
  <2>. QED
    BY <1>2, <2>5, <2>9
<1>. QED
  BY <1>3, <1>4

LEMMA RetriedFacts ==
  ASSUME TypeOK, \A e \in Effect : Ledger(e), InHand, eff' = Retried,
         UNCHANGED <<netVars, workVars>>
  PROVE  (\A e \in Effect : Ledger(e)') /\ InHand' /\ eff' \in [Effect -> EffectRow]
<1>. DEFINE D == {e \in Effect : eff[e].state = "rejected" /\ eff[e].attempts < PostLimit}
            row(e) == CASE e \in D                    -> [eff[e] EXCEPT !.state = "pending"]
                        [] eff[e].state = "uncertain" -> [eff[e] EXCEPT !.reads = 0]
                        [] OTHER                      -> eff[e]
<1>1. eff \in [Effect -> EffectRow] /\ at' = at /\ cur' = cur /\ UNCHANGED netVars
      /\ wire' = wire /\ comments' = comments
  BY DEF TypeOK, workVars, netVars
<1>2. eff' = [e \in Effect |-> row(e)]
  BY Zenon DEF Retried
<1>3. \A e \in Effect : /\ row(e) \in EffectRow
                        /\ row(e).attempts = eff[e].attempts
                        /\ e \in D => row(e).state = "pending"
                        /\ e \notin D => row(e).state = eff[e].state
                        /\ eff[e].state = "processing" => row(e) = eff[e]
                        /\ eff[e].state = "absent" => row(e) = eff[e]
  <2>. SUFFICES ASSUME NEW e \in Effect
                PROVE  /\ row(e) \in EffectRow
                       /\ row(e).attempts = eff[e].attempts
                       /\ e \in D => row(e).state = "pending"
                       /\ e \notin D => row(e).state = eff[e].state
                       /\ eff[e].state = "processing" => row(e) = eff[e]
                       /\ eff[e].state = "absent" => row(e) = eff[e]
    OBVIOUS
  <2>1. CASE e \in D
    BY <1>1, <2>1 DEF EffectRow, EffectState
  <2>2. CASE e \notin D /\ eff[e].state = "uncertain"
    BY <1>1, <2>2, LimitAssumption DEF EffectRow, EffectState
  <2>3. CASE e \notin D /\ eff[e].state # "uncertain"
    BY <1>1, <2>3
  <2>. QED
    BY <2>1, <2>2, <2>3
<1>4. \A e \in Effect \intersect D : eff[e].state # "processing" /\ Unsent(e)
  BY DEF Ledger
<1>. HIDE DEF row, D
<1>5. eff' \in [Effect -> EffectRow] /\ \A e \in Effect : eff'[e] = row(e)
  BY <1>2, <1>3
<1>6. \A e \in Effect : Ledger(e)'
  <2>1. \A e \in Effect : eff'[e].attempts = eff[e].attempts
    BY <1>3, <1>5
  <2>2. \A e \in Effect \ D : eff'[e].state = eff[e].state
    BY <1>3, <1>5
  <2>3. \A e \in Effect \intersect D :
          eff[e].state # "processing" /\ Unsent(e) /\ eff'[e].state \in {"pending", "blocked"}
    BY <1>3, <1>4, <1>5
  <2>. QED
    BY <1>1, <2>1, <2>2, <2>3, OutboxFacts
<1>7. InHand'
  <2>1. at = "enqueue" => cur \in Effect /\ eff'[cur] = eff[cur]
    BY <1>3, <1>5 DEF InHand, Effect
  <2>2. at \in {"observe", "guard", "admit", "sent"} => cur \in Effect /\ eff'[cur] = eff[cur]
    BY <1>3, <1>5 DEF InHand
  <2>. QED
    BY <1>1, <2>1, <2>2, Zenon DEF InHand, Unsent
<1>. QED
  BY <1>5, <1>6, <1>7

LEMMA RecoverFacts ==
  ASSUME TypeOK, \A e \in Effect : Ledger(e), recover
  PROVE  (\A e \in Effect : Ledger(e)') /\ InHand' /\ eff' \in [Effect -> EffectRow]
<1>1. eff \in [Effect -> EffectRow] /\ wire' = wire /\ comments' = comments
  BY DEF TypeOK, recover, netVars
<1>2. \A e \in Effect : Recovered(e) \in {"uncertain", "pending"}
  BY DEF Recovered
<1>3. \A e \in Effect : [eff[e] EXCEPT !.state = Recovered(e)] \in EffectRow
  BY <1>1, <1>2 DEF EffectRow, EffectState
<1>4. eff' \in [Effect -> EffectRow]
  BY <1>1, <1>3 DEF recover
<1>5. ASSUME NEW e \in Effect PROVE Ledger(e)'
  <2>1. eff'[e].attempts = eff[e].attempts
        /\ eff'[e].state = IF eff[e].state = "processing" THEN Recovered(e) ELSE eff[e].state
    BY <1>1 DEF recover, EffectRow
  <2>2. Ledger(e) /\ eff[e].attempts \in Nat
    BY <1>1, LimitAssumption DEF EffectRow
  <2>. QED
    BY <1>1, <2>1, <2>2 DEF Ledger, Unsent, Recovered
<1>6. InHand'
  BY DEF recover, Halt, Put, InHand
<1>. QED
  BY <1>4, <1>5, <1>6

LEMMA ObserveFacts ==
  ASSUME TypeOK, \A e \in Effect : Ledger(e), InHand, observe
  PROVE  (\A e \in Effect : Ledger(e)') /\ InHand' /\ eff' \in [Effect -> EffectRow]
<1>1. eff \in [Effect -> EffectRow] /\ cur \in Effect /\ at = "observe" /\ UNCHANGED netVars
      /\ eff[cur].reads < ReadLimit
  BY DEF TypeOK, InHand, observe
<1>2. CASE comments[cur] = 1 /\ Settle("confirmed")
  <2>1. "confirmed" \in EffectState \ {"processing"}
    BY DEF EffectState
  <2>. QED
    BY <1>1, <1>2, <2>1, PutDown, SettleFacts DEF observe
<1>3. CASE eff' = [eff EXCEPT ![cur].state = "uncertain", ![cur].reads = @ + 1]
  <2>. DEFINE row == [eff[cur] EXCEPT !.state = "uncertain", !.reads = @ + 1]
  <2>1. eff' = [eff EXCEPT ![cur] = row]
    BY <1>1, <1>3
  <2>2. row \in EffectRow /\ row.state = "uncertain" /\ row.attempts = eff[cur].attempts
    <3>1. eff[cur] \in EffectRow
      BY <1>1
    <3>2. eff[cur].reads + 1 \in 0..ReadLimit
      BY <1>1, <3>1, LimitAssumption DEF EffectRow
    <3>. QED
      BY <3>1, <3>2 DEF EffectRow, EffectState
  <2>. HIDE DEF row
  <2>3. eff' \in [Effect -> EffectRow] /\ eff'[cur] = row
        /\ \A e \in Effect : e # cur => eff'[e] = eff[e]
    BY <1>1, <2>1, <2>2
  <2>4. ASSUME NEW e \in Effect PROVE Ledger(e)'
    <3>1. Ledger(e) /\ wire' = wire /\ comments' = comments
      BY <1>1 DEF netVars
    <3>2. CASE e = cur
      BY <1>1, <2>2, <2>3, <3>1, <3>2 DEF Ledger, Unsent
    <3>3. CASE e # cur
      BY <1>1, <2>3, <3>1, <3>3 DEF Ledger, Unsent
    <3>. QED
      BY <3>2, <3>3
  <2>5. InHand'
    BY DEF observe, Done, Put, InHand
  <2>. QED
    BY <2>3, <2>4, <2>5
<1>. QED
  BY <1>2, <1>3 DEF observe

LEMMA GuardFacts ==
  ASSUME TypeOK, \A e \in Effect : Ledger(e), InHand, guard
  PROVE  (\A e \in Effect : Ledger(e)') /\ InHand' /\ eff' \in [Effect -> EffectRow]
<1>1. eff \in [Effect -> EffectRow] /\ cur \in Effect /\ at = "guard" /\ UNCHANGED netVars
      /\ Unsent(cur)
  BY DEF TypeOK, InHand, guard
<1>2. CASE Work("admit") /\ eff' = eff
  <2>1. eff' = eff /\ wire' = wire /\ comments' = comments /\ at' = "admit" /\ cur' = cur
    BY <1>1, <1>2 DEF Work, netVars
  <2>2. \A e \in Effect : Ledger(e)'
    BY <1>1, <2>1 DEF Ledger, Unsent
  <2>3. InHand'
    BY <1>1, <2>1 DEF InHand, Unsent
  <2>. QED
    BY <1>1, <2>1, <2>2, <2>3
<1>3. CASE Done /\ \E s \in {"confirmed", "stale", "blocked"} :
                     Settle(s) /\ (s = "confirmed" => comments[cur] = 1)
  <2>1. PICK s \in {"confirmed", "stale", "blocked"} :
               Settle(s) /\ (s = "confirmed" => comments[cur] = 1)
    BY <1>3
  <2>2. s \in EffectState \ {"processing"}
    BY DEF EffectState
  <2>. QED
    BY <1>1, <1>3, <2>1, <2>2, PutDown, SettleFacts
<1>4. Refusal(cur) \in {"none", "blocked", "stale"}
  BY Zenon DEF Refusal
<1>. QED
  BY <1>2, <1>3, <1>4, Zenon DEF guard

LEMMA AdmitFacts ==
  ASSUME TypeOK, \A e \in Effect : Ledger(e), InHand, admit_attempt
  PROVE  /\ \A e \in Effect : Ledger(e)'
         /\ InHand' /\ eff' \in [Effect -> EffectRow] /\ wire' \in SUBSET Effect
<1>1. eff \in [Effect -> EffectRow] /\ cur \in Effect /\ at = "admit" /\ comments' = comments
      /\ Unsent(cur) /\ wire \in SUBSET Effect /\ eff[cur].state = "processing"
  BY DEF TypeOK, InHand, admit_attempt
<1>2. CASE /\ RefusedNow(cur) = "none" /\ Work("sent")
           /\ eff' = [eff EXCEPT ![cur].attempts = @ + 1] /\ wire' = wire \union {cur}
  <2>. DEFINE row == [eff[cur] EXCEPT !.attempts = @ + 1]
  <2>1. eff' = [eff EXCEPT ![cur] = row]
    BY <1>1, <1>2
  <2>2. eff[cur].attempts \in Nat /\ eff[cur].attempts < PostLimit
    <3>1. ~(eff[cur].attempts >= PostLimit)
      BY <1>2 DEF RefusedNow
    <3>. QED
      BY <1>1, <3>1, LimitAssumption DEF EffectRow
  <2>3. row \in EffectRow /\ row.state = "processing" /\ row.attempts > 0
    BY <1>1, <2>2, LimitAssumption DEF EffectRow
  <2>. HIDE DEF row
  <2>4. eff' \in [Effect -> EffectRow] /\ eff'[cur] = row
        /\ \A e \in Effect : e # cur => eff'[e] = eff[e]
    BY <1>1, <2>1, <2>3
  <2>5. cur' = cur /\ at' = "sent"
    BY <1>2 DEF Work
  <2>6. \A e \in Effect : e # cur => (e \in wire' <=> e \in wire)
    BY <1>2
  <2>7. ASSUME NEW e \in Effect PROVE Ledger(e)'
    <3>1. Ledger(e)
      OBVIOUS
    <3>2. CASE e = cur
      BY <1>1, <2>3, <2>4, <2>5, <3>2 DEF Ledger, Unsent
    <3>3. CASE e # cur
      BY <1>1, <2>4, <2>5, <2>6, <3>1, <3>3 DEF Ledger, Unsent
    <3>. QED
      BY <3>2, <3>3
  <2>8. InHand'
    BY <1>1, <2>3, <2>4, <2>5 DEF InHand, Unsent
  <2>. QED
    BY <1>1, <1>2, <2>4, <2>7, <2>8
<1>3. CASE Done /\ wire' = wire /\ \E s \in {"stale", "blocked"} : Settle(s)
  <2>1. PICK s \in {"stale", "blocked"} : Settle(s)
    BY <1>3
  <2>2. s \in EffectState \ {"processing"} /\ UNCHANGED netVars
    BY <1>1, <1>3 DEF EffectState, netVars
  <2>. QED
    BY <1>1, <1>3, <2>1, <2>2, PutDown, SettleFacts
<1>4. RefusedNow(cur) \in {"none", "blocked", "stale"}
  BY Zenon DEF RefusedNow
<1>. QED
  BY <1>2, <1>3, <1>4, Zenon DEF admit_attempt

\* The answers: what arrived is counted once, what was refused will not arrive.
LEMMA AnswerFacts ==
  ASSUME TypeOK, \A e \in Effect : Ledger(e), InHand, accepted \/ rejected
  PROVE  /\ \A e \in Effect : Ledger(e)'
         /\ InHand' /\ eff' \in [Effect -> EffectRow]
         /\ wire' \in SUBSET Effect /\ comments' \in [Effect -> Nat]
<1>1. cur \in Effect /\ at = "sent" /\ comments[cur] = 0 /\ Done /\ wire' = wire \ {cur}
      /\ wire \in SUBSET Effect /\ comments \in [Effect -> Nat]
  BY DEF TypeOK, InHand, accepted, rejected
<1>. DEFINE c == comments'
<1>2. PICK s \in {"confirmed", "uncertain", "rejected"} :
        /\ Settle(s)
        /\ IF s = "rejected" THEN c = comments ELSE c = [comments EXCEPT ![cur] = @ + 1]
  BY DEF accepted, rejected
<1>3. c \in [Effect -> Nat] /\ \A e \in Effect : e # cur => c[e] = comments[e]
  <2>1. CASE s = "rejected"
    BY <1>1, <1>2, <2>1
  <2>2. CASE s # "rejected"
    BY <1>1, <1>2, <2>2
  <2>. QED
    BY <2>1, <2>2
<1>4. c[cur] = IF s = "rejected" THEN 0 ELSE 1
  BY <1>1, <1>2
<1>. HIDE DEF c
<1>5. s \in EffectState
  BY DEF EffectState
<1>6. eff' \in [Effect -> EffectRow]
      /\ \A e \in Effect : /\ eff'[e].state = IF e = cur THEN s ELSE eff[e].state
                           /\ eff'[e].attempts = eff[e].attempts
  BY <1>1, <1>2, <1>5, SettleFacts
<1>7. ASSUME NEW e \in Effect PROVE (Ledger(e))'
  <2>1. Ledger(e) /\ eff[cur].attempts # 0 /\ comments'[e] = c[e]
    BY LimitAssumption DEF InHand, TypeOK, EffectRow, c, accepted, rejected
  <2>2. CASE e = cur
    BY <1>1, <1>4, <1>6, <2>1, <2>2 DEF Ledger, Unsent
  <2>3. CASE e # cur
    <3>1. e \in wire' <=> e \in wire
      BY <1>1, <2>3
    <3>. QED
      BY <1>1, <1>3, <1>6, <2>1, <2>3, <3>1 DEF Ledger, Unsent
  <2>. QED
    BY <2>2, <2>3
<1>8. InHand'
  BY <1>1 DEF Done, Put, InHand
<1>. QED
  BY <1>1, <1>3, <1>6, <1>7, <1>8 DEF c

\* What is put down because the process stops, or nobody answered.
LEMMA StopFacts ==
  ASSUME TypeOK, \A e \in Effect : Ledger(e), InHand, Shutdown \/ unanswered
  PROVE  (\A e \in Effect : Ledger(e)') /\ InHand' /\ eff' \in [Effect -> EffectRow]
<1>1. Done /\ UNCHANGED netVars /\ eff \in [Effect -> EffectRow]
  BY DEF Shutdown, unanswered, Halt, Done, TypeOK
<1>2. CASE eff' = eff /\ at \notin {"observe", "guard", "admit", "sent"}
  <2>1. InHand'
    BY <1>1 DEF Done, Put, InHand
  <2>. QED
    BY <1>1, <1>2, <2>1, NotDelivering
<1>3. CASE at \in {"guard", "admit"} /\ Settle("pending")
  <2>1. "pending" \in EffectState \ {"processing"} /\ Unsent(cur) /\ cur \in Effect
    BY <1>3 DEF EffectState, InHand
  <2>. QED
    BY <1>1, <1>3, <2>1, PutDown, SettleFacts
<1>4. CASE at \in {"observe", "sent"} /\ Settle("uncertain")
  <2>1. "uncertain" \in EffectState \ {"processing"} /\ cur \in Effect
    BY <1>4 DEF EffectState, InHand
  <2>. QED
    BY <1>1, <1>4, <2>1, PutDown, SettleFacts
<1>. QED
  BY <1>2, <1>3, <1>4 DEF Shutdown, unanswered

LEMMA OutboxStep ==
  ASSUME IInv, [Next]_vars
  PROVE  /\ \A e \in Effect : Ledger(e)'
         /\ InHand' /\ eff' \in [Effect -> EffectRow]
         /\ wire' \in SUBSET Effect /\ comments' \in [Effect -> Nat]
<1>. USE DEF IInv
<1>1. eff \in [Effect -> EffectRow] /\ wire \in SUBSET Effect /\ comments \in [Effect -> Nat]
  BY DEF TypeOK
<1>2. ASSUME NEW h \in Heads, claim_job(h)
      PROVE  (\A e \in Effect : Ledger(e)') /\ InHand' /\ UNCHANGED <<eff, netVars>>
  <2>1. at = "idle" /\ UNCHANGED <<eff, netVars>> /\ at' = "read" /\ cur' = h
    BY <1>2 DEF claim_job
  <2>2. \A e \in Effect : Ledger(e)'
    BY <2>1, NotDelivering
  <2>. QED
    BY <2>1, <2>2 DEF InHand
<1>3. ASSUME NEW h \in Heads, publication_jobs(h)
      PROVE  (\A e \in Effect : Ledger(e)') /\ InHand' /\ UNCHANGED <<eff, netVars>>
  <2>1. at \in {"idle", "publish"} /\ UNCHANGED <<eff, netVars>>
    BY <1>3 DEF publication_jobs, Publishing
  <2>2. \A e \in Effect : Ledger(e)'
    BY <2>1, NotDelivering
  <2>3. CASE at' = "enqueue" /\ cur' = ReportOf(h)
    <3>1. ReportOf(h) \in Report /\ eff[ReportOf(h)].state = "absent"
      BY <1>3 DEF publication_jobs, Outstanding, ReportOf, Report, TypeOK, JobRow
    <3>. QED
      BY <2>1, <2>2, <2>3, <3>1 DEF InHand
  <2>4. CASE UNCHANGED workVars
    BY <2>1, <2>4, Outside
  <2>. QED
    BY <1>3, <2>1, <2>2, <2>3, <2>4, Zenon DEF publication_jobs
<1>4. CASE read_context \/ run_consult \/ save_report
  <2>1. /\ at \in {"read", "consult", "save"} /\ UNCHANGED <<eff, netVars>>
        /\ at' = "publish" \/ (at' \in {"consult", "save"} /\ cur' = cur)
    BY <1>4 DEF read_context, run_consult, save_report, Put, Work
  <2>2. \A e \in Effect : Ledger(e)'
    BY <2>1, NotDelivering
  <2>3. InHand'
    BY <2>1 DEF InHand
  <2>. QED
    BY <1>1, <2>1, <2>2, <2>3 DEF netVars
<1>5. CASE enqueue_effect
  BY <1>1, <1>5, EnqueueFacts DEF enqueue_effect, netVars
<1>6. CASE EndOfRound
  <2>1. at \notin {"observe", "guard", "admit", "sent"} /\ UNCHANGED <<eff, netVars>> /\ at' = "idle"
    BY <1>6 DEF EndOfRound, Delivering, Publishing, Put
  <2>2. \A e \in Effect : Ledger(e)'
    BY <2>1, NotDelivering
  <2>. QED
    BY <1>1, <2>1, <2>2 DEF InHand, netVars
<1>7. CASE defer_group
  BY <1>1, <1>7, DeferFacts DEF defer_group, netVars
<1>8. ASSUME NEW e \in Effect, claim(e)
      PROVE  /\ \A f \in Effect : Ledger(f)'
             /\ InHand' /\ eff' \in [Effect -> EffectRow] /\ UNCHANGED netVars
  BY <1>8, ClaimFacts DEF claim
<1>9. CASE observe
  BY <1>1, <1>9, ObserveFacts DEF observe, netVars
<1>10. CASE guard
  BY <1>1, <1>10, GuardFacts DEF guard, netVars
<1>11. CASE admit_attempt
  BY <1>1, <1>11, AdmitFacts DEF admit_attempt
<1>12. CASE accepted \/ rejected
  BY <1>12, AnswerFacts
<1>13. CASE unanswered \/ Shutdown
  BY <1>1, <1>13, StopFacts DEF unanswered, Shutdown, netVars
<1>14. CASE Push \/ Configure \/ refresh \/ UNCHANGED vars
  <2>1. UNCHANGED <<eff, netVars, workVars>>
    BY <1>14 DEF Push, Configure, refresh, vars
  <2>. QED
    BY <1>1, <2>1, Outside DEF netVars
<1>15. CASE Arrive
  <2>1. wire' \in SUBSET Effect /\ eff' = eff
    BY <1>1, <1>15 DEF Arrive
  <2>2. comments' \in [Effect -> Nat]
    <3>1. PICK p \in wire : comments' = [comments EXCEPT ![p] = @ + 1] \/ comments' = comments
      BY <1>15 DEF Arrive
    <3>. DEFINE c == comments'
    <3>2. CASE c = [comments EXCEPT ![p] = @ + 1]
      BY <1>1, <3>2
    <3>3. CASE c = comments
      BY <1>1, <3>3
    <3>. QED
      BY <3>1, <3>2, <3>3, Zenon
  <2>. QED
    BY <1>1, <1>15, <2>1, <2>2, ArriveFacts
<1>16. ASSUME NEW e \in Evidence, add_evidence(e)
       PROVE  /\ \A f \in Effect : Ledger(f)'
              /\ InHand' /\ eff' \in [Effect -> EffectRow] /\ UNCHANGED netVars
  BY <1>16, AddFacts DEF add_evidence
<1>17. ASSUME NEW issue \in {"same", "changed", "unreadable"}, NEW whole \in BOOLEAN,
              review_retry(issue, whole)
       PROVE  /\ \A f \in Effect : Ledger(f)'
              /\ InHand' /\ eff' \in [Effect -> EffectRow] /\ UNCHANGED netVars
  <2>1. UNCHANGED <<netVars, workVars>>
    BY <1>17 DEF review_retry
  <2>2. CASE eff' = eff
    BY <1>1, <2>1, <2>2, Outside
  <2>3. CASE eff' = Retried
    BY <2>1, <2>3, RetriedFacts
  <2>. QED
    BY <1>17, <2>1, <2>2, <2>3, Zenon DEF review_retry
<1>18. CASE recover
  BY <1>1, <1>18, RecoverFacts DEF recover, netVars
<1>. QED
  <2>1. UNCHANGED <<eff, netVars>> => eff' \in [Effect -> EffectRow]
    BY <1>1
  <2>2. UNCHANGED netVars => wire' \in SUBSET Effect /\ comments' \in [Effect -> Nat]
    BY <1>1 DEF netVars
  <2>. QED
    BY <1>2, <1>3, <1>4, <1>5, <1>6, <1>7, <1>8, <1>9, <1>10, <1>11, <1>12, <1>13, <1>14, <1>15,
       <1>16, <1>17, <1>18, <2>1, <2>2, Zenon DEF Next, ReviewStep, DeliverStep

-----------------------------------------------------------------------------
(* Types.                                                                     *)

LEMMA JobStep ==
  ASSUME IInv, [Next]_vars
  PROVE  job' \in [Heads -> JobRow] /\ broken' \in SUBSET Heads
<1>. USE DEF IInv
<1>1. job \in [Heads -> JobRow] /\ broken \in SUBSET Heads
      /\ reg \in PullRequest /\ reg.head \in Heads /\ remote \in PullRequest
  BY DEF TypeOK, PullRequest
<1>2. ASSUME NEW h \in Heads, claim_job(h) PROVE job' \in [Heads -> JobRow] /\ broken' = broken
  <2>. DEFINE row == [job[h] EXCEPT !.state = "running", !.attempted = TRUE]
  <2>1. job' = [job EXCEPT ![h] = row] /\ broken' = broken
    BY <1>1, <1>2 DEF claim_job
  <2>2. row \in JobRow
    BY <1>1 DEF JobRow
  <2>. HIDE DEF row
  <2>. QED
    BY <1>1, <2>1, <2>2
<1>3. ASSUME NEW h \in Heads, publication_jobs(h) PROVE job' \in [Heads -> JobRow] /\ broken' = broken
  BY <1>1, <1>3, BlockReadyFacts DEF publication_jobs
<1>4. CASE read_context \/ run_consult \/ Shutdown
  <2>1. CASE UNCHANGED <<job, broken>>
    BY <1>1, <2>1
  <2>2. CASE at \in {"read", "consult", "save"} /\ \E s \in RETRY : FinishJob(cur, s)
    BY <2>2, FinishFacts DEF InHand
  <2>. QED
    BY <1>4, <2>1, <2>2, Zenon DEF read_context, run_consult, Shutdown, RETRY
<1>5. CASE save_report
  <2>1. cur \in Heads /\ mat \in SUBSET Evidence
    BY <1>5 DEF save_report, InHand, TypeOK
  <2>2. CASE job' = job
    BY <1>1, <1>5, <2>2 DEF save_report
  <2>3. CASE job' # job
    <3>. DEFINE row == [job[cur] EXCEPT !.state = "reviewed", !.required = FALSE,
                                        !.result = [has |-> TRUE, inputs |-> mat]]
    <3>1. job' = [job EXCEPT ![cur].state = "reviewed", ![cur].required = FALSE,
                             ![cur].result = [has |-> TRUE, inputs |-> mat]]
      BY <1>5, <2>3, Zenon DEF save_report
    <3>2. job' = [job EXCEPT ![cur] = row]
      BY <1>1, <2>1, <3>1
    <3>3. row \in JobRow
      BY <1>1, <2>1 DEF JobRow, Results
    <3>. HIDE DEF row
    <3>. QED
      BY <1>1, <1>5, <2>1, <3>2, <3>3 DEF save_report
  <2>. QED
    BY <2>2, <2>3
<1>6. CASE enqueue_effect
  <2>1. cur.head \in Heads
    BY <1>6 DEF enqueue_effect, InHand, Report
  <2>2. job' = job \/ job' = BlockReady(cur.head)
    BY <1>6, Zenon DEF enqueue_effect
  <2>. QED
    BY <1>1, <1>6, <2>1, <2>2, BlockReadyFacts DEF enqueue_effect
<1>7. CASE DeliverStep \/ Push \/ Configure \/ Arrive \/ UNCHANGED vars
  BY <1>1, <1>7 DEF DeliverStep, EndOfRound, defer_group, claim, observe, guard, admit_attempt, accepted,
                    rejected, unanswered, Push, Configure, Arrive, vars
<1>8. CASE refresh
  BY <1>1, <1>8, EnqueuedType DEF refresh
<1>9. ASSUME NEW e \in Evidence, add_evidence(e) PROVE job' \in [Heads -> JobRow] /\ broken' = broken
  BY <1>1, <1>9, EnqueuedType DEF add_evidence
<1>10. ASSUME NEW issue \in {"same", "changed", "unreadable"}, NEW whole \in BOOLEAN,
              review_retry(issue, whole)
       PROVE  job' \in [Heads -> JobRow] /\ broken' \in SUBSET Heads
  <2>1. CASE issue = "unreadable"
    BY <1>1, <1>10, <2>1, BlockReadyFacts DEF review_retry
  <2>2. CASE issue # "unreadable"
    <3>. DEFINE c == issue = "changed"
    <3>1. c \in BOOLEAN
      BY Zenon
    <3>2. Room(reg, TRUE, c) /\ job' = Enqueued(reg, TRUE, c) /\ broken' = broken \ {reg.head}
      BY <1>10, <2>2, Zenon DEF review_retry
    <3>. HIDE DEF c
    <3>. QED
      BY <1>1, <3>1, <3>2, EnqueuedType
  <2>. QED
    BY <2>1, <2>2
<1>11. CASE recover
  <2>1. \A h \in Heads : [job[h] EXCEPT !.state = "failed", !.required = TRUE] \in JobRow
    BY <1>1 DEF JobRow, RETRY
  <2>. QED
    BY <1>1, <1>11, <2>1 DEF recover
<1>. QED
  BY <1>1, <1>2, <1>3, <1>4, <1>5, <1>6, <1>7, <1>8, <1>9, <1>10, <1>11 DEF Next, ReviewStep

\* The pull request, the policy and the access.
LEMMA WorldStep ==
  ASSUME IInv, [Next]_vars
  PROVE  /\ remote' \in PullRequest /\ reg' \in PullRequest
         /\ policy' \in BOOLEAN /\ access' \in BOOLEAN
<1>1. /\ remote \in PullRequest /\ reg \in PullRequest
      /\ policy \in BOOLEAN /\ access \in BOOLEAN
  BY DEF IInv, TypeOK
<1>2. CASE UNCHANGED prVars
  BY <1>1, <1>2 DEF prVars
<1>3. CASE Push
  <2>1. reg' = reg /\ policy' = policy /\ access' = access
    BY <1>3 DEF Push
  <2>2. CASE \E h \in Heads \ {remote.head} : remote' = [remote EXCEPT !.head = h]
    BY <1>1, <2>1, <2>2 DEF PullRequest
  <2>3. CASE remote' = [remote EXCEPT !.base = @ + 1]
    BY <1>1, <2>1, <2>3 DEF PullRequest
  <2>. QED
    BY <1>3, <2>2, <2>3 DEF Push
<1>4. CASE Configure
  <2>1. remote' = remote /\ reg' = reg
    BY <1>4 DEF Configure
  <2>2. policy' \in BOOLEAN /\ access' \in BOOLEAN
    BY <1>1, <1>4, Zenon DEF Configure
  <2>. QED
    BY <1>1, <2>1, <2>2
<1>5. CASE refresh
  BY <1>1, <1>5 DEF refresh
<1>. QED
  BY <1>2, <1>3, <1>4, <1>5, Zenon
     DEF Next, ReviewStep, DeliverStep, claim_job, publication_jobs, read_context, run_consult,
         save_report, enqueue_effect, EndOfRound, defer_group, claim, observe, guard, admit_attempt,
         accepted, rejected, unanswered, Arrive, add_evidence, review_retry, Shutdown, recover, vars

\* The worker's place, its row, and what it read.
LEMMA PlaceStep ==
  ASSUME IInv, [Next]_vars
  PROVE  /\ at' \in Place /\ cur' \in Heads \union Effect \union {NoRow}
         /\ mat' \in SUBSET Evidence /\ seen' \in Nat
<1>1. /\ at \in Place /\ cur \in Heads \union Effect \union {NoRow}
      /\ mat \in SUBSET Evidence /\ seen \in Nat
      /\ reg \in PullRequest /\ job \in [Heads -> JobRow]
  BY DEF IInv, TypeOK
<1>2. CASE UNCHANGED workVars
  BY <1>1, <1>2 DEF workVars
<1>3. CASE \E p \in Place : Put(p)
  BY <1>3 DEF Put
<1>4. CASE \E p \in Place : Work(p)
  BY <1>1, <1>4 DEF Work
<1>5. ASSUME NEW h \in Heads, claim_job(h)
      PROVE  /\ at' \in Place /\ cur' \in Heads \union Effect \union {NoRow}
             /\ mat' \in SUBSET Evidence /\ seen' \in Nat
  BY <1>1, <1>5 DEF claim_job, Place
<1>6. ASSUME NEW h \in Heads, publication_jobs(h)
      PROVE  /\ at' \in Place /\ cur' \in Heads \union Effect \union {NoRow}
             /\ mat' \in SUBSET Evidence /\ seen' \in Nat
  <2>1. CASE at' = "enqueue" /\ cur' = ReportOf(h) /\ seen' = job[h].base /\ mat' = mat
    <3>1. ReportOf(h) \in Report /\ job[h].base \in Nat
      BY <1>1 DEF ReportOf, Report, JobRow
    <3>. QED
      BY <1>1, <2>1, <3>1 DEF Place, Effect
  <2>. QED
    BY <1>2, <1>6, <2>1, Zenon DEF publication_jobs
<1>7. CASE read_context
  <2>1. CASE at' = "consult" /\ mat' = Inputs(cur) /\ seen' = reg.base /\ cur' = cur
    <3>1. cur \in Heads
      BY <1>7 DEF read_context, IInv, InHand
    <3>2. Inputs(cur) \in SUBSET Evidence /\ reg.base \in Nat
      BY <1>1, <3>1, InputsType DEF PullRequest
    <3>. QED
      BY <1>1, <2>1, <3>2 DEF Place
  <2>2. CASE Put("publish")
    BY <1>3, <2>2 DEF Place
  <2>. QED
    BY <1>7, <2>1, <2>2, Zenon DEF read_context
<1>8. ASSUME NEW e \in Effect, claim(e)
      PROVE  /\ at' \in Place /\ cur' \in Heads \union Effect \union {NoRow}
             /\ mat' \in SUBSET Evidence /\ seen' \in Nat
  BY <1>1, <1>8 DEF claim, Place
<1>9. CASE run_consult \/ save_report \/ enqueue_effect \/ EndOfRound \/ defer_group \/ observe
           \/ guard \/ admit_attempt \/ accepted \/ rejected \/ unanswered \/ Shutdown \/ recover
  <2>1. {"publish", "save", "deliver", "idle", "admit", "sent"} \subseteq Place
    BY DEF Place
  <2>. QED
    BY <1>3, <1>4, <1>9, <2>1, Zenon
       DEF run_consult, save_report, enqueue_effect, EndOfRound, defer_group, observe, guard,
           admit_attempt, accepted, rejected, unanswered, Shutdown, recover, Halt, Done
<1>10. CASE Push \/ Configure \/ Arrive \/ refresh \/ (\E k \in Evidence : add_evidence(k))
            \/ (\E issue \in {"same", "changed", "unreadable"}, whole \in BOOLEAN :
                   review_retry(issue, whole))
            \/ UNCHANGED vars
  BY <1>2, <1>10, Zenon DEF Push, Configure, Arrive, refresh, add_evidence, review_retry, vars, workVars
<1>. QED
  BY <1>5, <1>6, <1>7, <1>8, <1>9, <1>10, Zenon DEF Next, ReviewStep, DeliverStep

LEMMA CountStep ==
  ASSUME IInv, [Next]_vars
  PROVE  events' \in Nat /\ stops' \in Nat
<1>1. events \in Nat /\ stops \in Nat
  BY DEF IInv, TypeOK
<1>2. /\ events' = events \/ events' = events + 1
      /\ stops' = stops \/ stops' = stops + 1
  BY Zenon
     DEF Next, ReviewStep, DeliverStep, claim_job, publication_jobs, read_context, run_consult,
         save_report, enqueue_effect, EndOfRound, defer_group, claim, observe, guard, admit_attempt,
         accepted, rejected, unanswered, Arrive, add_evidence, review_retry, Shutdown, recover, vars,
         Push, Configure, refresh, Halt, Event, countVars
<1>. QED
  BY <1>1, <1>2

-----------------------------------------------------------------------------
(* The invariant, and what follows from it.                                   *)

LEMMA Initially == Init => IInv
<1>. SUFFICES ASSUME Init PROVE IInv
  OBVIOUS
<1>1. remote \in PullRequest /\ reg \in PullRequest /\ reg.head \in Heads
  BY DEF Init, PullRequest
<1>2. job \in [Heads -> JobRow]
  <2>1. Absent \in JobRow /\ [Absent EXCEPT !.state = "queued"] \in JobRow
    BY NothingType, RevisionsAssumption DEF Absent, JobRow
  <2>. QED
    BY <2>1 DEF Init
<1>3. eff \in [Effect -> EffectRow]
  BY <1>1, NothingType, LimitAssumption DEF Init, EffectRow, EffectState
<1>4. policy \in BOOLEAN /\ access \in BOOLEAN
  BY DEF Init
<1>5. TypeOK
  BY <1>1, <1>2, <1>3, <1>4 DEF Init, TypeOK, Place
<1>6. \A e \in Effect : Ledger(e)
  BY DEF Init, Ledger, Unsent
<1>7. InHand
  BY DEF Init, InHand
<1>8. Waits
  BY DEF Init, Waits
<1>. QED
  BY <1>5, <1>6, <1>7, <1>8 DEF IInv

LEMMA Inductive == IInv /\ [Next]_vars => IInv'
<1>. SUFFICES ASSUME IInv, [Next]_vars PROVE IInv'
  OBVIOUS
<1>1. TypeOK'
  BY JobStep, OutboxStep, WorldStep, PlaceStep, CountStep DEF TypeOK
<1>. QED
  BY <1>1, OutboxStep, WaitsStep DEF IInv

\* In every state of every behaviour: the types, the ledger of each effect, what the worker
\* holds, and that a run without a report waits for a person.
THEOREM Invariance == Spec => []IInv
BY Initially, Inductive, PTL DEF Spec

\* The rows of the two tables, the worker and the network keep their types: an attempt is never
\* spent beyond the limit, a read never counted beyond its own.
THEOREM TypeCorrect == Spec => []TypeOK
<1>1. IInv => TypeOK
  BY DEF IInv
<1>. QED
  BY Invariance, <1>1, PTL

\* However many effects, attempts, shutdowns, crashes and lost answers: no comment is at
\* GitHub, or on its way, twice.
THEOREM PostedOnceHolds == Spec => []PostedOnce
<1>1. ASSUME IInv, NEW e \in Effect
      PROVE  comments[e] + Cardinality(wire \intersect {e}) <= 1
  <2>1. Ledger(e) /\ comments[e] \in Nat
    BY <1>1 DEF IInv, TypeOK
  <2>2. CASE e \in wire
    <3>1. wire \intersect {e} = {e}
      BY <2>2
    <3>2. Cardinality(wire \intersect {e}) = 1
      BY <3>1, FS_Singleton
    <3>3. comments[e] = 0
      BY <2>1, <2>2 DEF Ledger
    <3>. QED
      BY <3>2, <3>3
  <2>3. CASE e \notin wire
    <3>1. wire \intersect {e} = {}
      BY <2>3
    <3>2. Cardinality(wire \intersect {e}) = 0
      BY <3>1, FS_EmptySet
    <3>3. comments[e] <= 1
      BY <2>1 DEF Ledger
    <3>. QED
      BY <2>1, <3>2, <3>3
  <2>. QED
    BY <2>2, <2>3
<1>2. IInv => PostedOnce
  BY <1>1 DEF PostedOnce
<1>. QED
  BY Invariance, <1>2, PTL

\* What the outbox shows as confirmed is at GitHub; what it shows as not sent is not there, and
\* cannot arrive any more.
THEOREM OutcomeTrueHolds == Spec => []OutcomeTrue
<1>1. IInv => OutcomeTrue
  BY DEF IInv, OutcomeTrue, Ledger, Unsent
<1>. QED
  BY Invariance, <1>1, PTL

\* No step starts again, unasked, a run of the model that ended without a report.
THEOREM NoRerunUnaskedHolds == Spec => NoRerunUnasked
<1>. DEFINE Kept == \A h \in Heads : job[h].state # "running" /\ job'[h].state = "running" =>
                      h \notin broken
<1>1. ASSUME IInv, [Next]_vars PROVE Kept
  <2>. SUFFICES ASSUME NEW h \in Heads, job[h].state # "running", job'[h].state = "running",
                       h \in broken
                PROVE  FALSE
    OBVIOUS
  <2>1. job[h].state \in RETRY
    BY <1>1 DEF IInv, Waits
  <2>2. CASE h \in broken'
    BY <1>1, <2>2, WaitsStep DEF Waits, RETRY
  <2>3. CASE h \notin broken'
    <3>1. PICK issue \in {"same", "changed", "unreadable"}, whole \in BOOLEAN :
                 review_retry(issue, whole)
      BY <1>1, <2>3
         DEF Next, ReviewStep, DeliverStep, claim_job, publication_jobs, read_context, run_consult,
             save_report, enqueue_effect, EndOfRound, defer_group, claim, observe, guard,
             admit_attempt, accepted, rejected, unanswered, Arrive, add_evidence, Shutdown,
             recover, vars, Push, Configure, refresh, FinishJob
    <3>2. h = reg.head
      BY <2>3, <3>1, Zenon DEF review_retry
    <3>. DEFINE c == issue = "changed"
    <3>3. job'[h] = Requeued(h, reg.base, TRUE, c)
      <4>1. job' = Enqueued(reg, TRUE, c)
        BY <2>3, <3>1, Zenon DEF review_retry
      <4>. QED
        BY <3>2, <4>1, Zenon DEF Enqueued
    <3>4. Requeued(h, reg.base, TRUE, c).state # "running"
      <4>1. Fresh # "running"
        BY Zenon DEF Fresh
      <4>2. Rewritten(h, reg.base, TRUE, c).state # "running"
        BY <2>1, <4>1, Zenon DEF Rewritten, Required
      <4>3. [Absent EXCEPT !.state = Fresh, !.base = reg.base].state # "running"
        BY <4>1 DEF Absent
      <4>. QED
        BY <2>1, <4>2, <4>3, Zenon DEF Requeued, RETRY
    <3>. QED
      BY <3>3, <3>4
  <2>. QED
    BY <2>2, <2>3
<1>2. IInv /\ [Next]_vars => [Kept]_vars
  BY <1>1
<1>. QED
  BY Invariance, <1>2, PTL DEF Spec, NoRerunUnasked

-----------------------------------------------------------------------------
(* What an attempt to publish rests on: the registered job is of the         *)
(* registered base, and an effect keeps the inputs of its job's report.       *)

Open(j) == j.state \in {"queued", "running"}

\* A report comes from a run.
Whole(j) ==
  /\ j.state = "reviewed" => j.result.has
  /\ j.result.has \/ j.state = "running" => j.attempted

Registered == job[reg.head].state # "absent" /\ job[reg.head].base = reg.base

\* The effect of a report, from the step that decides to create it.
Exists(e) == eff[e].state # "absent" \/ (at = "enqueue" /\ cur = e)

\* No other run is under way, or to come, for the revision of an effect.
Settled(e) ==
  Exists(e) =>
    /\ job[e.head].state # "absent" /\ e.rev <= job[e.head].rev
    /\ e.rev = job[e.head].rev => ~Open(job[e.head]) /\ job[e.head].attempted

\* What an effect says of its report is what the job says of it.
Copied(e) ==
  eff[e].state # "absent" =>
    /\ eff[e].head = e.head
    /\ e.rev = job[e.head].rev /\ eff[e].result.has /\ job[e.head].result.has
         => eff[e].result = job[e.head].result

Current ==
  /\ Registered /\ \A h \in Heads : Whole(job[h])
  /\ \A e \in Report : Settled(e) /\ Copied(e)

\* How a job may move: a revision that was attempted and closed is never open again, and its
\* report is kept or dropped.
Moves(j, k) ==
  /\ Whole(k)
  /\ j.state # "absent" =>
       /\ k.state # "absent" /\ j.rev <= k.rev
       /\ k.rev = j.rev =>
            /\ j.attempted => k.attempted
            /\ j.attempted /\ ~Open(j) => ~Open(k)
            /\ ~Open(j) /\ k.result.has => k.result = j.result

\* The effects of reports that a step neither creates nor rewrites.
EffectsKept ==
  \A e \in Report :
    /\ Exists(e)' => Exists(e)
    /\ eff'[e].state # "absent" => eff[e].state # "absent"
    /\ eff'[e].head = eff[e].head /\ eff'[e].result = eff[e].result

\* Revisions are numbers, and reports are effects.
LEMMA RevisionIsNat ==
  /\ \A j \in JobRow : j.rev \in Nat
  /\ \A e \in Report : e.rev \in Nat /\ e.head \in Heads /\ e \in Effect
BY RevisionsAssumption DEF JobRow, Report, Effect

\* Jobs that only move so, and effects that stay, keep what is said of them together.
LEMMA CurrentKept ==
  ASSUME TypeOK, TypeOK', Current, EffectsKept, Registered',
         \A h \in Heads : Moves(job[h], job'[h])
  PROVE  Current'
<1>1. ASSUME NEW e \in Report PROVE Settled(e)' /\ Copied(e)'
  <2>1. /\ Settled(e) /\ Copied(e) /\ Moves(job[e.head], job'[e.head])
        /\ job[e.head].rev \in Nat /\ job'[e.head].rev \in Nat /\ e.rev \in Nat
    BY RevisionIsNat DEF Current, TypeOK
  <2>2. CASE ~Exists(e)' BY <2>2 DEF Settled, Copied, Exists
  <2>3. CASE Exists(e)'
    <3>1. Exists(e) BY <2>3 DEF EffectsKept
    <3>2. /\ job[e.head].state # "absent" /\ e.rev <= job[e.head].rev
          /\ e.rev = job[e.head].rev => ~Open(job[e.head]) /\ job[e.head].attempted
      BY <2>1, <3>1 DEF Settled
    <3>3. job'[e.head].state # "absent" /\ job[e.head].rev <= job'[e.head].rev
      BY <2>1, <3>2 DEF Moves
    <3>4. CASE e.rev # job'[e.head].rev
      BY <2>1, <3>2, <3>3, <3>4 DEF Settled, Copied, EffectsKept
    <3>5. CASE e.rev = job'[e.head].rev
      <4>1. e.rev = job[e.head].rev BY <2>1, <3>2, <3>3, <3>5
      <4>2. ~Open(job'[e.head]) /\ job'[e.head].attempted
            /\ (job'[e.head].result.has => job'[e.head].result = job[e.head].result)
        BY <2>1, <3>2, <3>5, <4>1 DEF Moves
      <4>3. Settled(e)' BY <3>3, <3>5, <4>2, <2>1 DEF Settled
      <4>4. Copied(e)' BY <2>1, <3>5, <4>1, <4>2 DEF Copied, EffectsKept
      <4> QED BY <4>3, <4>4
    <3> QED BY <3>4, <3>5
  <2> QED BY <2>2, <2>3
<1>2. \A h \in Heads : Whole(job[h])' BY DEF Moves, Whole
<1> QED BY <1>1, <1>2 DEF Current

\* The row as it is, put aside, or superseded, is the same revision, closed.
LEMMA SameMoves == ASSUME NEW j \in JobRow, Whole(j) PROVE Moves(j, j)
BY RevisionIsNat DEF Moves

\* A row put aside with a state that waits for a person moves so.
LEMMA ClosedMoves ==
  ASSUME NEW j \in JobRow, NEW k \in JobRow, Whole(j),
         k.rev = j.rev, k.attempted = j.attempted, k.result \in {j.result, Nothing},
         k.state \in RETRY
  PROVE  Moves(j, k)
<1>1. j.rev <= k.rev BY RevisionIsNat
<1>2. k.state \notin {"absent", "queued", "running", "reviewed"} BY DEF RETRY
<1>3. k.result.has => k.result = j.result BY DEF Nothing
<1>4. k.result.has => k.attempted BY <1>3 DEF Whole
<1> QED BY <1>1, <1>2, <1>3, <1>4 DEF Moves, Whole, Open

\* So does a row that is rewritten: with the same revision it is not queued again.
LEMMA RewrittenMoves ==
  ASSUME TypeOK, NEW h \in Heads, NEW base \in Nat, NEW retry \in BOOLEAN, NEW c \in BOOLEAN,
         Rewritten(h, base, retry, c) \in JobRow, Whole(job[h]), Opens(h, base, retry, c)
  PROVE  /\ Moves(job[h], Rewritten(h, base, retry, c))
         /\ Rewritten(h, base, retry, c).base = base
         /\ Rewritten(h, base, retry, c).state # "absent"
<1> DEFINE j == job[h]
           k == Rewritten(h, base, retry, c)
           changed  == Changed(h, base, retry, c)
           reusable == ~changed /\ policy /\ completed_result(j)
           replaced == changed \/ (retry /\ ~completed_result(j))
<1>1. /\ k.state = IF Required(j, retry) THEN (IF j.state \in RETRY THEN j.state ELSE "blocked")
                   ELSE IF reusable THEN "reviewed" ELSE Fresh
      /\ k.attempted = IF changed THEN FALSE ELSE j.attempted
      /\ k.rev = IF replaced THEN j.rev + 1 ELSE j.rev
      /\ k.base = base
      /\ k.result = IF reusable THEN j.result ELSE Nothing
  BY Zenon DEF Rewritten
<1>2. j \in JobRow /\ j.rev \in Nat /\ j.attempted \in BOOLEAN /\ policy \in BOOLEAN
  BY RevisionIsNat DEF TypeOK, JobRow
<1>3. Fresh = IF policy THEN "queued" ELSE "blocked" BY DEF Fresh
<1>4. ~replaced /\ ~reusable /\ policy => ~j.attempted
  BY DEF Opens, completed_result
<1>5. PICK ch \in BOOLEAN : ch <=> changed BY Zenon
<1>6. PICK rq \in BOOLEAN : rq <=> Required(j, retry) BY Zenon
<1>7. completed_result(j) <=> j.result.has BY DEF completed_result
<1> HIDE DEF changed, k, j
<1>8. k.state # "absent"
  BY <1>1, <1>3 DEF RETRY
<1>9. j.rev <= k.rev /\ (k.rev = j.rev => ~replaced)
  BY <1>1, <1>2
<1>10. Whole(k)
  <2>1. CASE reusable
    <3>1. k.result = j.result /\ k.attempted = j.attempted BY <1>1, <2>1
    <3>2. j.result.has BY <1>7, <2>1
    <3>3. j.attempted BY <3>2 DEF Whole, j
    <3> QED BY <3>1, <3>2, <3>3 DEF Whole
  <2>2. CASE ~reusable
    <3>1. ~k.result.has BY <1>1, <2>2 DEF Nothing
    <3>2. k.state \notin {"reviewed", "running"} BY <1>1, <1>3, <2>2 DEF RETRY
    <3> QED BY <3>1, <3>2 DEF Whole
  <2> QED BY <2>1, <2>2
<1>11. ASSUME k.rev = j.rev
       PROVE  /\ j.attempted => k.attempted
              /\ j.attempted => ~Open(k)
              /\ k.result.has => k.result = j.result
  <2>1. ~replaced /\ ~changed BY <1>9, <1>11
  <2>2. k.attempted = j.attempted BY <1>1, <2>1
  <2>3. j.attempted => ~Open(k)
    BY <1>1, <1>2, <1>3, <1>4, <2>1 DEF Open, RETRY
  <2>4. k.result.has => k.result = j.result BY <1>1 DEF Nothing
  <2> QED BY <2>2, <2>3, <2>4
<1> QED BY <1>1, <1>8, <1>9, <1>10, <1>11 DEF Moves, j, k

\* An enqueue moves every job so, and leaves the registered one of the new base.
LEMMA EnqueuedMoves ==
  ASSUME TypeOK, Current, NEW pr \in PullRequest, NEW retry \in BOOLEAN, NEW c \in BOOLEAN,
         Room(pr, retry, c), job' = Enqueued(pr, retry, c), reg' = pr
  PROVE  Registered' /\ \A h \in Heads : Moves(job[h], job'[h])
<1>1. /\ pr.head \in Heads /\ pr.base \in Nat /\ Enqueued(pr, retry, c) \in [Heads -> JobRow]
      /\ job \in [Heads -> JobRow] /\ \A h \in Heads : Whole(job[h])
  BY EnqueuedType DEF PullRequest, TypeOK, Current
<1>2. ASSUME NEW h \in Heads, h # pr.head PROVE Moves(job[h], job'[h])
  <2>1. job'[h] = Superseded(job[h]) BY <1>2, Zenon DEF Enqueued
  <2>2. CASE job[h].state \in {"absent", "superseded"}
    BY <1>1, <2>1, <2>2, SameMoves DEF Superseded
  <2>3. CASE job[h].state \notin {"absent", "superseded"}
    <3>1. job'[h] = [job[h] EXCEPT !.state = "superseded",
                                   !.required = (job[h].required \/ job[h].attempted)]
      BY <2>1, <2>3, Zenon DEF Superseded
    <3>2. /\ job'[h].rev = job[h].rev /\ job'[h].attempted = job[h].attempted
          /\ job'[h].result = job[h].result /\ job'[h].state = "superseded"
          /\ job[h] \in JobRow /\ job'[h] \in JobRow
      BY <1>1, <3>1 DEF JobRow
    <3> QED BY <1>1, <3>2, ClosedMoves DEF RETRY
  <2> QED BY <2>2, <2>3
<1>3. /\ Moves(job[pr.head], job'[pr.head])
      /\ job'[pr.head].state # "absent" /\ job'[pr.head].base = pr.base
  <2> DEFINE h == pr.head
             k == Requeued(h, pr.base, retry, c)
  <2>1. job'[h] = k /\ k \in JobRow
    <3>1. job'[h] = k BY <1>1, Zenon DEF Enqueued
    <3> QED BY <1>1, <3>1
  <2>2. CASE job[h].state = "absent"
    <3>1. k = [Absent EXCEPT !.state = Fresh, !.base = pr.base]
      BY <2>2, Zenon DEF Requeued
    <3>2. Fresh \in {"queued", "blocked"} BY Zenon DEF Fresh
    <3>3. k.state = Fresh /\ k.base = pr.base /\ k.result = Nothing
      BY <3>1 DEF Absent
    <3> QED BY <2>1, <2>2, <3>2, <3>3 DEF Moves, Whole, Nothing
  <2>3. CASE job[h].state # "absent" /\ Opens(h, pr.base, retry, c)
    <3>1. k = Rewritten(h, pr.base, retry, c) BY <2>3, Zenon DEF Requeued
    <3> QED BY <1>1, <2>1, <2>3, <3>1, RewrittenMoves
  <2>4. CASE job[h].state # "absent" /\ ~Opens(h, pr.base, retry, c)
    <3>1. k = job[h] BY <2>4, Zenon DEF Requeued
    <3>2. job[h].base = pr.base BY <2>4, Zenon DEF Opens, Changed
    <3> QED BY <1>1, <2>1, <2>4, <3>1, <3>2, SameMoves
  <2> QED BY <2>2, <2>3, <2>4
<1> QED BY <1>2, <1>3 DEF Registered

\* One job that moves so, and the others as they were.
LEMMA OneMoves ==
  ASSUME TypeOK, NEW h \in Heads, Current, Moves(job[h], job'[h]),
         \A g \in Heads \ {h} : job'[g] = job[g]
  PROVE  \A g \in Heads : Moves(job[g], job'[g])
BY SameMoves DEF Current, TypeOK

\* The rows that the worker moves.
LEMMA WorkMoves ==
  ASSUME TypeOK, TypeOK', Current, NEW h \in Heads,
         \/ job' = job
         \/ job' = BlockReady(h)
         \/ \E s \in RETRY : FinishJob(h, s)
         \/ job[h].state = "queued" /\ job' = [job EXCEPT ![h].state = "running",
                                                         ![h].attempted = TRUE]
         \/ /\ job[h].state = "running"
            /\ job' = [job EXCEPT ![h].state = "reviewed", ![h].required = FALSE,
                                  ![h].result = [has |-> TRUE, inputs |-> mat]]
  PROVE  /\ \A g \in Heads : Moves(job[g], job'[g])
         /\ \A g \in Heads : /\ job'[g].base = job[g].base
                             /\ job[g].state # "absent" => job'[g].state # "absent"
<1>1. job \in [Heads -> JobRow] /\ job' \in [Heads -> JobRow] /\ \A g \in Heads : Whole(job[g])
  BY DEF TypeOK, Current
<1>2. CASE job' = job
  BY <1>1, <1>2, SameMoves
<1>3. ASSUME NEW s \in RETRY, job'[h].state = s, job'[h].result \in {job[h].result, Nothing},
             job'[h].rev = job[h].rev, job'[h].attempted = job[h].attempted,
             job'[h].base = job[h].base, \A g \in Heads \ {h} : job'[g] = job[g]
      PROVE  /\ \A g \in Heads : Moves(job[g], job'[g])
             /\ \A g \in Heads : /\ job'[g].base = job[g].base
                                 /\ job[g].state # "absent" => job'[g].state # "absent"
  <2>1. Moves(job[h], job'[h]) BY <1>1, <1>3, ClosedMoves
  <2> QED BY <1>3, <2>1, OneMoves DEF RETRY
<1>4. CASE job' = BlockReady(h)
  <2>1. /\ job'[h].state = "blocked" /\ job'[h].result = job[h].result
        /\ job'[h].rev = job[h].rev /\ job'[h].attempted = job[h].attempted
        /\ job'[h].base = job[h].base /\ \A g \in Heads \ {h} : job'[g] = job[g]
    BY <1>1, <1>4 DEF BlockReady, JobRow
  <2> QED BY <1>3, <2>1 DEF RETRY
<1>5. CASE \E s \in RETRY : FinishJob(h, s)
  <2>1. PICK s \in RETRY : FinishJob(h, s) BY <1>5
  <2>2. CASE job[h].state = "running"
    <3>1. job' = [job EXCEPT ![h].state = s, ![h].required = TRUE, ![h].result = Nothing]
      BY <2>1, <2>2, Zenon DEF FinishJob
    <3>2. /\ job'[h].state = s /\ job'[h].result = Nothing
          /\ job'[h].rev = job[h].rev /\ job'[h].attempted = job[h].attempted
          /\ job'[h].base = job[h].base /\ \A g \in Heads \ {h} : job'[g] = job[g]
      BY <1>1, <3>1 DEF JobRow
    <3> QED BY <1>3, <3>2
  <2> QED BY <1>2, <2>1, <2>2, Zenon DEF FinishJob
<1>6. CASE job[h].state = "queued" /\ job' = [job EXCEPT ![h].state = "running",
                                                         ![h].attempted = TRUE]
  <2>1. /\ job'[h].state = "running" /\ job'[h].result = job[h].result
        /\ job'[h].attempted = TRUE /\ job'[h].rev = job[h].rev /\ job'[h].base = job[h].base
        /\ \A g \in Heads \ {h} : job'[g] = job[g]
    BY <1>1, <1>6 DEF JobRow
  <2>2. Moves(job[h], job'[h])
    BY <1>1, <1>6, <2>1, RevisionIsNat DEF Moves, Whole, Open
  <2> QED BY <2>1, <2>2, OneMoves
<1>7. CASE /\ job[h].state = "running"
           /\ job' = [job EXCEPT ![h].state = "reviewed", ![h].required = FALSE,
                                 ![h].result = [has |-> TRUE, inputs |-> mat]]
  <2>1. /\ job'[h].state = "reviewed" /\ job'[h].result.has
        /\ job'[h].attempted = job[h].attempted /\ job'[h].rev = job[h].rev
        /\ job'[h].base = job[h].base
        /\ \A g \in Heads \ {h} : job'[g] = job[g]
    BY <1>1, <1>7 DEF JobRow
  <2>2. job[h].attempted BY <1>1, <1>7 DEF Whole
  <2>3. job'[h].attempted BY <2>1, <2>2
  <2>4. Moves(job[h], job'[h])
    BY <1>1, <1>7, <2>1, <2>2, <2>3, RevisionIsNat DEF Moves, Whole, Open
  <2> QED BY <2>1, <2>4, OneMoves
<1> QED BY <1>2, <1>4, <1>5, <1>6, <1>7

\* What the steps of the outbox leave of the effects of reports.
LEMMA OutboxKeepsEffects ==
  ASSUME TypeOK, InHand,
         \/ DeliverStep \/ Arrive \/ Shutdown \/ recover
         \/ eff' = Retried /\ UNCHANGED workVars
         \/ \E k \in Evidence : add_evidence(k)
         \/ eff' = eff /\ (at' # "enqueue" \/ UNCHANGED workVars)
  PROVE  EffectsKept
<1>1. eff \in [Effect -> EffectRow] /\ (at = "enqueue" \/ at # "enqueue") BY DEF TypeOK
<1>2. \A e \in Report : e \in Effect /\ e \notin Evidence
  BY EvidenceAssumption DEF Effect
<1>3. CASE eff' = eff /\ (at' # "enqueue" \/ UNCHANGED workVars)
  BY <1>3 DEF EffectsKept, Exists, workVars
<1>4. ASSUME cur \in Effect, eff[cur].state # "absent", at' # "enqueue",
             NEW row \in EffectRow, eff' = [eff EXCEPT ![cur] = row],
             row.head = eff[cur].head, row.result = eff[cur].result
      PROVE  EffectsKept
  BY <1>1, <1>2, <1>4 DEF EffectsKept, Exists
<1>5. ASSUME cur \in Effect, eff[cur].state # "absent", at' # "enqueue",
             NEW s \in EffectState, Settle(s)
      PROVE  EffectsKept
  <2>1. [eff[cur] EXCEPT !.state = s] \in EffectRow BY <1>1, <1>5 DEF EffectRow
  <2>2. eff' = [eff EXCEPT ![cur] = [eff[cur] EXCEPT !.state = s]]
    BY <1>1, <1>5 DEF Settle
  <2>3. /\ [eff[cur] EXCEPT !.state = s].head = eff[cur].head
        /\ [eff[cur] EXCEPT !.state = s].result = eff[cur].result
    BY <1>1, <1>5 DEF EffectRow
  <2> QED BY <1>4, <1>5, <2>1, <2>2, <2>3
<1>6. at \in {"observe", "guard", "admit", "sent"} => cur \in Effect /\ eff[cur].state # "absent"
  BY DEF InHand
<1>7. {"confirmed", "uncertain", "rejected", "blocked", "stale", "pending", "processing"}
        \subseteq EffectState
  BY DEF EffectState
<1>8. CASE EndOfRound
  BY <1>3, <1>8 DEF EndOfRound, Put
<1>9. CASE defer_group
  <2>1. at' = "idle" BY <1>9 DEF defer_group, Put
  <2>2. \A e \in Effect : eff'[e] = IF eff[e].state = "pending" /\ eff[e].attempts = 0
                                    THEN [eff[e] EXCEPT !.state = "blocked"] ELSE eff[e]
    BY <1>9 DEF defer_group
  <2>3. \A e \in Effect : /\ eff'[e].head = eff[e].head /\ eff'[e].result = eff[e].result
                          /\ eff'[e].state # "absent" => eff[e].state # "absent"
    BY <1>1, <2>2 DEF EffectRow
  <2> QED BY <1>2, <2>1, <2>3 DEF EffectsKept, Exists
<1>10. ASSUME NEW c \in Effect, claim(c) PROVE EffectsKept
  <2>1. at' # "enqueue" /\ eff' = [eff EXCEPT ![c].state = "processing"]
    BY <1>10 DEF claim
  <2>2. eff[c].state # "absent" BY <1>10, Zenon DEF claim, Claimable, Idle, Rank
  <2>3. \A e \in Effect : /\ eff'[e].head = eff[e].head /\ eff'[e].result = eff[e].result
                          /\ eff'[e].state # "absent" => eff[e].state # "absent"
    BY <1>1, <2>1, <2>2 DEF EffectRow
  <2> QED BY <1>2, <2>1, <2>3 DEF EffectsKept, Exists
<1>11. CASE observe
  <2>1. at' # "enqueue" /\ at = "observe" BY <1>11 DEF observe, Done, Put
  <2>2. CASE Settle("confirmed") BY <1>5, <1>6, <1>7, <2>1, <2>2
  <2>3. CASE eff' = [eff EXCEPT ![cur].state = "uncertain", ![cur].reads = @ + 1]
    <3>1. \A e \in Effect : /\ eff'[e].head = eff[e].head /\ eff'[e].result = eff[e].result
                            /\ eff'[e].state # "absent" => eff[e].state # "absent"
      BY <1>1, <1>6, <2>1, <2>3 DEF EffectRow
    <3> QED BY <1>2, <2>1, <3>1 DEF EffectsKept, Exists
  <2> QED BY <1>11, <2>2, <2>3 DEF observe
<1>12. CASE guard
  <2>1. at' # "enqueue" /\ at = "guard" /\ (eff' = eff \/ \E s \in EffectState : Settle(s))
    <3>1. at' # "enqueue" /\ at = "guard" BY <1>12, Zenon DEF guard, Done, Put, Work
    <3>2. Refusal(cur) \in EffectState \union {"none"} BY <1>7, Zenon DEF Refusal
    <3> QED BY <1>7, <1>12, <3>1, <3>2, Zenon DEF guard
  <2> QED BY <1>3, <1>5, <1>6, <2>1
<1>13. CASE admit_attempt
  <2>1. at' # "enqueue" /\ at = "admit" BY <1>13, Zenon DEF admit_attempt, Done, Put, Work
  <2>2. CASE \E s \in EffectState : Settle(s) BY <1>5, <1>6, <2>1, <2>2
  <2>3. CASE eff' = [eff EXCEPT ![cur].attempts = @ + 1]
    <3>1. \A e \in Effect : /\ eff'[e].head = eff[e].head /\ eff'[e].result = eff[e].result
                            /\ eff'[e].state # "absent" => eff[e].state # "absent"
      BY <1>1, <2>3 DEF EffectRow
    <3> QED BY <1>2, <2>1, <3>1 DEF EffectsKept, Exists
  <2> QED
    <3>1. RefusedNow(cur) \in EffectState \union {"none"} BY <1>7, Zenon DEF RefusedNow
    <3> QED BY <1>7, <1>13, <2>2, <2>3, <3>1, Zenon DEF admit_attempt
<1>14. CASE accepted \/ rejected \/ unanswered
  <2>1. at' # "enqueue" /\ at = "sent" /\ \E s \in EffectState : Settle(s)
    BY <1>7, <1>14, Zenon DEF accepted, rejected, unanswered, Done, Put
  <2> QED BY <1>5, <1>6, <2>1
<1>15. CASE Arrive
  BY <1>3, <1>15 DEF Arrive
<1>16. CASE Shutdown
  <2>1. at' # "enqueue" BY <1>16 DEF Shutdown, Halt, Put
  <2>2. \/ eff' = eff
        \/ at \in {"observe", "guard", "admit", "sent"} /\ \E s \in EffectState : Settle(s)
    BY <1>7, <1>16, Zenon DEF Shutdown
  <2> QED BY <1>3, <1>5, <1>6, <2>1, <2>2
<1>17. CASE recover
  <2>1. at' # "enqueue" BY <1>17 DEF recover, Halt, Put
  <2>2. \A e \in Effect : eff'[e] = IF eff[e].state = "processing"
                                    THEN [eff[e] EXCEPT !.state = Recovered(e)] ELSE eff[e]
    BY <1>17 DEF recover
  <2>3. \A e \in Effect : /\ eff'[e].head = eff[e].head /\ eff'[e].result = eff[e].result
                          /\ eff'[e].state # "absent" => eff[e].state # "absent"
    BY <1>1, <2>2 DEF EffectRow
  <2> QED BY <1>2, <2>1, <2>3 DEF EffectsKept, Exists
<1>18. CASE eff' = Retried /\ UNCHANGED workVars
  <2>1. \A e \in Effect : /\ eff'[e].head = eff[e].head /\ eff'[e].result = eff[e].result
                          /\ eff'[e].state # "absent" => eff[e].state # "absent"
    <3> SUFFICES ASSUME NEW e \in Effect
                 PROVE /\ eff'[e].head = eff[e].head /\ eff'[e].result = eff[e].result
                       /\ eff'[e].state # "absent" => eff[e].state # "absent"
      OBVIOUS
    <3>1. \/ eff[e].state = "rejected" /\ eff'[e] = [eff[e] EXCEPT !.state = "pending"]
          \/ eff'[e] = [eff[e] EXCEPT !.reads = 0]
          \/ eff'[e] = eff[e]
      BY <1>18, Zenon DEF Retried
    <3> QED BY <1>1, <3>1 DEF EffectRow
  <2> QED BY <1>2, <1>18, <2>1 DEF EffectsKept, Exists, workVars
<1>19. ASSUME NEW k \in Evidence, add_evidence(k) PROVE EffectsKept
  <2>1. \A e \in Report : eff'[e] = eff[e]
    BY <1>1, <1>2, <1>19 DEF add_evidence
  <2>2. UNCHANGED workVars BY <1>19 DEF add_evidence
  <2> QED BY <1>2, <2>1, <2>2 DEF EffectsKept, Exists, workVars
<1> QED
  BY <1>3, <1>8, <1>9, <1>10, <1>11, <1>12, <1>13, <1>14, <1>15, <1>16, <1>17, <1>18, <1>19,
     Zenon DEF DeliverStep

\* At first there are no effects, and the registered job is of the registered base.
LEMMA InitCurrent ==
  ASSUME Init PROVE Current
<1>1. reg.head \in Heads BY DEF Init
<1>2. \A h \in Heads : job[h].result = Nothing /\ job[h].state \in {"absent", "queued"}
  BY DEF Init, Absent
<1>3. \A h \in Heads : Whole(job[h]) BY <1>2 DEF Whole, Nothing
<1>4. Registered BY <1>1 DEF Init, Registered, Absent
<1>5. \A e \in Report : e \in Effect BY DEF Effect
<1>6. \A e \in Report : Settled(e) /\ Copied(e)
  BY <1>5 DEF Init, Settled, Copied, Exists
<1> QED BY <1>3, <1>4, <1>6 DEF Current

\* Every step keeps it.
LEMMA CurrentStep ==
  ASSUME TypeOK, TypeOK', InHand, Current, [Next]_vars
  PROVE  Current'
<1>1. /\ reg \in PullRequest /\ remote \in PullRequest /\ job \in [Heads -> JobRow]
      /\ reg.head \in Heads /\ eff \in [Effect -> EffectRow]
  BY DEF TypeOK, PullRequest
\* The worker, and whoever moves one row of a job.
<1>2. ASSUME NEW h \in Heads, reg' = reg, EffectsKept,
             \/ job' = job
             \/ job' = BlockReady(h)
             \/ \E s \in RETRY : FinishJob(h, s)
             \/ job[h].state = "queued" /\ job' = [job EXCEPT ![h].state = "running",
                                                             ![h].attempted = TRUE]
             \/ /\ job[h].state = "running"
                /\ job' = [job EXCEPT ![h].state = "reviewed", ![h].required = FALSE,
                                      ![h].result = [has |-> TRUE, inputs |-> mat]]
      PROVE  Current'
  <2>1. /\ \A g \in Heads : Moves(job[g], job'[g])
        /\ \A g \in Heads : /\ job'[g].base = job[g].base
                            /\ job[g].state # "absent" => job'[g].state # "absent"
    BY <1>2, WorkMoves
  <2>2. Registered' BY <1>1, <1>2, <2>1 DEF Current, Registered
  <2> QED BY <1>2, <2>1, <2>2, CurrentKept
\* Whoever enqueues the registered head.
<1>3. ASSUME NEW pr \in PullRequest, NEW retry \in BOOLEAN, NEW c \in BOOLEAN,
             Room(pr, retry, c), job' = Enqueued(pr, retry, c), reg' = pr, EffectsKept
      PROVE  Current'
  BY <1>3, EnqueuedMoves, CurrentKept
<1>4. CASE DeliverStep \/ Arrive
  <2>1. EffectsKept BY <1>4, OutboxKeepsEffects
  <2>2. job' = job /\ reg' = reg
    BY <1>4, Zenon DEF DeliverStep, EndOfRound, defer_group, claim, observe, guard, admit_attempt,
       accepted, rejected, unanswered, Arrive, prVars
  <2> QED BY <1>1, <1>2, <2>1, <2>2
<1>5. CASE Push \/ Configure \/ UNCHANGED vars
  <2>1. eff' = eff /\ UNCHANGED workVars /\ job' = job /\ reg' = reg
    BY <1>5, Zenon DEF Push, Configure, vars, prVars
  <2>2. EffectsKept BY <2>1, OutboxKeepsEffects
  <2> QED BY <1>1, <1>2, <2>1, <2>2
<1>6. ASSUME NEW h \in Heads, claim_job(h) PROVE Current'
  <2>1. eff' = eff /\ at' # "enqueue" /\ reg' = reg BY <1>6 DEF claim_job, prVars
  <2>2. EffectsKept BY <2>1, OutboxKeepsEffects
  <2>3. job[h].state = "queued" /\ job' = [job EXCEPT ![h].state = "running",
                                                    ![h].attempted = TRUE]
    BY <1>6 DEF claim_job, Ready
  <2> QED BY <1>2, <2>1, <2>2, <2>3
<1>7. CASE read_context \/ run_consult
  <2>1. /\ eff' = eff /\ at' # "enqueue" /\ reg' = reg /\ cur \in Heads
        /\ job' = job \/ \E s \in RETRY : FinishJob(cur, s)
    <3>1. at \in {"read", "consult"} /\ eff' = eff /\ reg' = reg
      BY <1>7, Zenon DEF read_context, run_consult, prVars
    <3>2. {"blocked", "superseded", "failed"} \subseteq RETRY BY DEF RETRY
    <3>3. at' # "enqueue" BY <1>7, Zenon DEF read_context, run_consult, Put, Work
    <3>4. job' = job \/ \E s \in RETRY : FinishJob(cur, s)
      BY <1>7, <3>2, Zenon DEF read_context, run_consult
    <3> QED BY <3>1, <3>3, <3>4 DEF InHand
  <2>2. EffectsKept BY <2>1, OutboxKeepsEffects
  <2> QED BY <1>2, <2>1, <2>2
<1>8. CASE save_report
  <2>1. eff' = eff /\ at' # "enqueue" /\ reg' = reg /\ cur \in Heads
    BY <1>8 DEF save_report, Put, InHand, prVars
  <2>2. EffectsKept BY <2>1, OutboxKeepsEffects
  <2>3. \/ job' = job
        \/ /\ job[cur].state = "running"
           /\ job' = [job EXCEPT ![cur].state = "reviewed", ![cur].required = FALSE,
                                 ![cur].result = [has |-> TRUE, inputs |-> mat]]
    BY <1>8, Zenon DEF save_report
  <2> QED BY <1>2, <2>1, <2>2, <2>3
<1>9. CASE Shutdown
  <2>1. EffectsKept BY <1>9, OutboxKeepsEffects
  <2>2. reg' = reg BY <1>9 DEF Shutdown, prVars
  <2>3. CASE job' = job BY <1>1, <1>2, <2>1, <2>2, <2>3
  <2>4. CASE job' # job
    <3>1. at \in {"read", "consult", "save"} /\ FinishJob(cur, "failed")
      BY <1>9, <2>4, Zenon DEF Shutdown
    <3> QED BY <1>2, <2>1, <2>2, <3>1 DEF InHand, RETRY
  <2> QED BY <2>3, <2>4
<1>10. CASE refresh
  <2>1. eff' = eff /\ UNCHANGED workVars BY <1>10 DEF refresh
  <2>2. EffectsKept BY <2>1, OutboxKeepsEffects
  <2>3. Room(remote, FALSE, FALSE) /\ job' = Enqueued(remote, FALSE, FALSE) /\ reg' = remote
    BY <1>10 DEF refresh
  <2> QED BY <1>1, <1>3, <2>2, <2>3
<1>11. ASSUME NEW k \in Evidence, add_evidence(k) PROVE Current'
  <2>1. EffectsKept BY <1>11, OutboxKeepsEffects
  <2>2. Room(reg, FALSE, FALSE) /\ job' = Enqueued(reg, FALSE, FALSE) /\ reg' = reg
    BY <1>11 DEF add_evidence, prVars
  <2> QED BY <1>1, <1>3, <2>1, <2>2
<1>12. ASSUME NEW issue \in {"same", "changed", "unreadable"}, NEW whole \in BOOLEAN,
              review_retry(issue, whole)
       PROVE  Current'
  <2>1. reg' = reg /\ UNCHANGED workVars BY <1>12 DEF review_retry, prVars
  <2>2. EffectsKept
    <3>1. eff' = eff \/ eff' = Retried BY <1>12, Zenon DEF review_retry
    <3> QED BY <2>1, <3>1, OutboxKeepsEffects
  <2>3. CASE issue = "unreadable"
    <3>1. job' = job \/ job' = BlockReady(reg.head) BY <1>12, <2>3, Zenon DEF review_retry
    <3> QED BY <1>1, <1>2, <2>1, <2>2, <3>1
  <2>4. CASE issue # "unreadable"
    <3>1. PICK c \in BOOLEAN : c = (issue = "changed") BY Zenon
    <3>2. Room(reg, TRUE, c) /\ job' = Enqueued(reg, TRUE, c)
      BY <1>12, <2>4, <3>1, Zenon DEF review_retry
    <3> QED BY <1>1, <1>3, <2>1, <2>2, <3>2
  <2> QED BY <2>3, <2>4
<1>13. CASE recover
  <2>1. EffectsKept BY <1>13, OutboxKeepsEffects
  <2>2. reg' = reg BY <1>13 DEF recover, prVars
  <2>3. ASSUME NEW h \in Heads
        PROVE  /\ Moves(job[h], job'[h]) /\ job'[h].base = job[h].base
               /\ job[h].state # "absent" => job'[h].state # "absent"
    <3>1. job[h] \in JobRow /\ job'[h] \in JobRow /\ Whole(job[h])
      BY DEF TypeOK, Current
    <3>2. CASE job[h].state # "running"
      BY <1>13, <3>1, <3>2, SameMoves DEF recover
    <3>3. CASE job[h].state = "running"
      <4>1. job'[h] = [job[h] EXCEPT !.state = "failed", !.required = TRUE]
        BY <1>13, <3>3 DEF recover
      <4>2. /\ job'[h].state = "failed" /\ job'[h].rev = job[h].rev
            /\ job'[h].attempted = job[h].attempted /\ job'[h].result = job[h].result
            /\ job'[h].base = job[h].base
        BY <3>1, <4>1 DEF JobRow
      <4> QED BY <3>1, <4>2, ClosedMoves DEF RETRY
    <3> QED BY <3>2, <3>3
  <2>4. Registered' BY <1>1, <2>2, <2>3 DEF Current, Registered
  <2> QED BY <2>1, <2>3, <2>4, CurrentKept
\* A report that is registered and whole becomes an effect: its decision, and its row.
<1>14. ASSUME NEW h \in Heads, publication_jobs(h) PROVE Current'
  <2>1. eff' = eff /\ reg' = reg BY <1>14, Zenon DEF publication_jobs, prVars
  <2>2. CASE UNCHANGED workVars
    <3>1. EffectsKept BY <2>1, <2>2, OutboxKeepsEffects
    <3>2. job' = job \/ job' = BlockReady(h) BY <1>14, Zenon DEF publication_jobs
    <3> QED BY <1>2, <2>1, <3>1, <3>2
  <2>3. CASE at' = "enqueue" /\ cur' = ReportOf(h) /\ job' = job
    <3>1. job[h].state = "reviewed" /\ Whole(job[h]) /\ job[h] \in JobRow
      BY <1>1, <1>14, Zenon DEF publication_jobs, Outstanding, Current
    <3>2. /\ job[h].attempted /\ ~Open(job[h]) BY <3>1 DEF Whole, Open
    <3>3. ReportOf(h).head = h /\ ReportOf(h).rev = job[h].rev BY DEF ReportOf
    <3>4. ASSUME NEW e \in Report PROVE Settled(e)' /\ Copied(e)'
      <4>1. Settled(e) /\ Copied(e) BY DEF Current
      <4>2. Copied(e)' BY <2>1, <2>3, <4>1 DEF Copied
      <4>3. CASE e # ReportOf(h) BY <2>1, <2>3, <4>1, <4>2, <4>3 DEF Settled, Exists
      <4>4. CASE e = ReportOf(h)
        <5>1. e.rev \in Nat BY RevisionIsNat
        <5> QED BY <2>3, <3>1, <3>2, <3>3, <4>2, <4>4, <5>1 DEF Settled
      <4> QED BY <4>3, <4>4
    <3> QED BY <2>1, <2>3, <3>4 DEF Current, Registered
  <2> QED BY <1>14, <2>2, <2>3, Zenon DEF publication_jobs
<1>15. CASE enqueue_effect
  <2>1. cur \in Report /\ cur.head \in Heads /\ eff[cur].state = "absent" /\ at = "enqueue"
        /\ cur \in Effect /\ at' = "deliver" /\ reg' = reg
    BY <1>15, RevisionIsNat DEF enqueue_effect, InHand, Put, prVars
  <2>2. CASE eff' = eff
    <3>1. EffectsKept BY <2>1, <2>2, OutboxKeepsEffects
    <3>2. job' = job \/ job' = BlockReady(cur.head)
      BY <1>15, Zenon DEF enqueue_effect
    <3> QED BY <1>2, <2>1, <3>1, <3>2
  <2>3. CASE eff' # eff
    <3>1. /\ eff' = [eff EXCEPT ![cur].state = "pending", ![cur].head = cur.head,
                                ![cur].base = seen,
                                ![cur].result = IF reg.head = cur.head
                                                THEN job[cur.head].result ELSE Nothing]
          /\ job' = job
      BY <1>15, <2>3, Zenon DEF enqueue_effect
    <3>2. /\ eff'[cur].head = cur.head /\ eff'[cur].result \in {job[cur.head].result, Nothing}
          /\ \A e \in Effect \ {cur} : eff'[e] = eff[e]
      BY <1>1, <2>1, <3>1 DEF EffectRow
    <3>3. ASSUME NEW e \in Report PROVE Settled(e)' /\ Copied(e)'
      <4>1. Settled(e) /\ Copied(e) /\ e \in Effect BY RevisionIsNat DEF Current
      <4>2. CASE e # cur
        BY <2>1, <3>1, <3>2, <4>1, <4>2 DEF Settled, Copied, Exists
      <4>3. CASE e = cur
        <5>1. Settled(e)' BY <2>1, <3>1, <4>1, <4>3 DEF Settled, Exists
        <5>2. Copied(e)' BY <3>1, <3>2, <4>3 DEF Copied, Nothing
        <5> QED BY <5>1, <5>2
      <4> QED BY <4>2, <4>3
    <3> QED BY <2>1, <3>1, <3>3 DEF Current, Registered
  <2> QED BY <2>2, <2>3
<1> QED
  BY <1>4, <1>5, <1>6, <1>7, <1>8, <1>9, <1>10, <1>11, <1>12, <1>13, <1>14, <1>15, Zenon
     DEF Next, ReviewStep

\* Only an admission spends an attempt, after it has read everything again.
LEMMA SpentInAdmission ==
  ASSUME TypeOK, InHand, Next, NEW e \in Report, eff'[e].attempts > eff[e].attempts
  PROVE  at = "admit" /\ e = cur /\ RefusedNow(e) = "none"
<1>1. /\ eff \in [Effect -> EffectRow] /\ e \in Effect /\ eff[e].attempts \in Nat
  BY LimitAssumption, RevisionIsNat DEF TypeOK, EffectRow
<1>2. ASSUME eff'[e].attempts = eff[e].attempts PROVE FALSE
  BY <1>1, <1>2
<1>3. ASSUME NEW s \in EffectState, cur \in Effect, Settle(s) PROVE FALSE
  BY <1>1, <1>2, <1>3, SettleFacts
<1>4. at \in {"observe", "guard", "admit", "sent"} => cur \in Effect
  BY DEF InHand
<1>5. {"confirmed", "uncertain", "rejected", "blocked", "stale", "pending", "processing"}
        \subseteq EffectState
  BY DEF EffectState
<1>6. CASE admit_attempt
  <2>1. CASE RefusedNow(cur) = "none" /\ eff' = [eff EXCEPT ![cur].attempts = @ + 1]
    BY <1>1, <1>6, <2>1 DEF admit_attempt, EffectRow
  <2>2. CASE at = "admit" /\ \E s \in EffectState : Settle(s) BY <1>3, <1>4, <2>2
  <2>3. RefusedNow(cur) \in EffectState \union {"none"} BY <1>5, Zenon DEF RefusedNow
  <2> QED BY <1>5, <1>6, <2>1, <2>2, <2>3, Zenon DEF admit_attempt
<1>7. CASE guard \/ accepted \/ rejected \/ unanswered
  <2>1. Refusal(cur) \in EffectState \union {"none"} BY <1>5, Zenon DEF Refusal
  <2>2. /\ at \in {"guard", "sent"}
        /\ eff' = eff \/ \E s \in EffectState : Settle(s)
    BY <1>5, <1>7, <2>1, Zenon DEF guard, accepted, rejected, unanswered
  <2> QED BY <1>2, <1>3, <1>4, <2>2
<1>8. CASE observe
  <2>1. CASE Settle("confirmed") BY <1>3, <1>4, <1>5, <1>8, <2>1 DEF observe
  <2>2. CASE eff' = [eff EXCEPT ![cur].state = "uncertain", ![cur].reads = @ + 1]
    BY <1>1, <1>2, <2>2 DEF EffectRow
  <2> QED BY <1>8, <2>1, <2>2 DEF observe
<1>9. CASE EndOfRound \/ defer_group \/ (\E c \in Effect : claim(c))
  <2>1. eff'[e].attempts = eff[e].attempts
    <3>1. CASE EndOfRound BY <3>1 DEF EndOfRound
    <3>2. CASE defer_group BY <1>1, <3>2 DEF defer_group, EffectRow
    <3>3. CASE \E c \in Effect : claim(c) BY <1>1, <3>3 DEF claim, EffectRow
    <3> QED BY <1>9, <3>1, <3>2, <3>3
  <2> QED BY <1>2, <2>1
<1>10. CASE Shutdown \/ recover
  <2>1. CASE Shutdown
    <3>1. eff' = eff \/ (at \in {"observe", "guard", "admit", "sent"}
                         /\ \E s \in EffectState : Settle(s))
      BY <1>5, <2>1, Zenon DEF Shutdown
    <3> QED BY <1>2, <1>3, <1>4, <3>1
  <2>2. CASE recover BY <1>1, <1>2, <2>2 DEF recover, EffectRow
  <2> QED BY <1>10, <2>1, <2>2
<1>11. CASE ReviewStep
  <2>1. CASE enqueue_effect
    <3>1. cur \in Report BY <2>1 DEF enqueue_effect, InHand
    <3>2. eff'[e].attempts = eff[e].attempts BY <1>1, <2>1, <3>1 DEF enqueue_effect, EffectRow
    <3> QED BY <1>2, <3>2
  <2>2. CASE eff' = eff BY <1>2, <2>2
  <2> QED BY <1>11, <2>1, <2>2, Zenon
          DEF ReviewStep, claim_job, publication_jobs, read_context, run_consult, save_report
<1>12. CASE Push \/ Configure \/ Arrive \/ refresh
  BY <1>2, <1>12 DEF Push, Configure, Arrive, refresh
<1>13. ASSUME NEW k \in Evidence, add_evidence(k) PROVE FALSE
  BY <1>1, <1>2, <1>13 DEF add_evidence, EffectRow
<1>14. ASSUME NEW issue \in {"same", "changed", "unreadable"}, NEW whole \in BOOLEAN,
              review_retry(issue, whole)
       PROVE  FALSE
  <2>1. CASE eff' = eff BY <1>2, <2>1
  <2>2. CASE eff' = Retried
    <3>1. \/ eff'[e] = [eff[e] EXCEPT !.state = "pending"] \/ eff'[e] = [eff[e] EXCEPT !.reads = 0]
          \/ eff'[e] = eff[e]
      BY <1>1, <2>2, Zenon DEF Retried
    <3> QED BY <1>1, <1>2, <3>1 DEF EffectRow
  <2> QED BY <1>14, <2>1, <2>2, Zenon DEF review_retry
<1> QED
  BY <1>6, <1>7, <1>8, <1>9, <1>10, <1>11, <1>12, <1>13, <1>14, Zenon DEF Next, DeliverStep

\* An attempt to publish a report is spent only while it is the report of the registered
\* commit and base, over the evidence now declared: the registered job is always of the
\* registered base, and the inputs kept with an effect are those of its job's report.
THEOREM ReportIsCurrentHolds == Spec => ReportIsCurrent
<1> DEFINE Now == \A e \in Report : eff'[e].attempts > eff[e].attempts =>
                    /\ reg = [head |-> e.head, base |-> job[e.head].base]
                    /\ job[e.head].state = "reviewed" /\ job[e.head].rev = e.rev
                    /\ job[e.head].result = [has |-> TRUE, inputs |-> Inputs(e.head)]
<1>1. Init => Current BY InitCurrent
<1>2. IInv /\ IInv' /\ Current /\ [Next]_vars => Current'
  BY CurrentStep DEF IInv
<1>3. IInv /\ Current /\ [Next]_vars => [Now]_vars
  <2> SUFFICES ASSUME IInv, Current, Next, NEW e \in Report,
                      eff'[e].attempts > eff[e].attempts
               PROVE  /\ reg = [head |-> e.head, base |-> job[e.head].base]
                      /\ job[e.head].state = "reviewed" /\ job[e.head].rev = e.rev
                      /\ job[e.head].result = [has |-> TRUE, inputs |-> Inputs(e.head)]
    OBVIOUS
  <2>1. at = "admit" /\ e = cur /\ RefusedNow(e) = "none" BY SpentInAdmission DEF IInv
  <2>2. /\ reg.head = eff[e].head /\ ~OtherContext(e) /\ ~OtherInputs(e) /\ ~Withdrawn(e)
    BY <2>1, Zenon DEF RefusedNow
  <2>3. /\ job[e.head].rev = e.rev /\ job[e.head].state = "reviewed"
        /\ eff[e].result = [has |-> TRUE, inputs |-> Inputs(e.head)]
    BY <2>2, Zenon DEF OtherContext, OtherInputs, Withdrawn
  <2>4. eff[e].state # "absent" BY <2>1 DEF IInv, InHand
  <2>5. eff[e].head = e.head /\ reg.head = e.head BY <2>2, <2>4 DEF Current, Copied
  <2>6. job[e.head].result.has BY <2>3, RevisionIsNat DEF Current, Whole
  <2>7. job[e.head].result = eff[e].result BY <2>3, <2>4, <2>6 DEF Current, Copied
  <2>8. reg = [head |-> e.head, base |-> job[e.head].base]
    BY <2>5 DEF Current, Registered, IInv, TypeOK, PullRequest
  <2> QED BY <2>3, <2>7, <2>8
<1> QED
  BY <1>1, <1>2, <1>3, Invariance, PTL DEF Spec, ReportIsCurrent

=============================================================================
