-------------------- MODULE ExternalReviewRefinementProofs --------------------
(***************************************************************************)
(* The review implements the outbox of comments, for any number of them:   *)
(* every step of the worker, of the people, of the network and of a        *)
(* restart is one step of CommentOutbox on the mapped state, or leaves it  *)
(* alone.                                                                  *)
(*                                                                         *)
(* The invariant of ExternalReviewProofs says which row the worker has in  *)
(* hand and that a row shown as not sent was not.  One more is needed: a   *)
(* comment that is in doubt has spent an attempt, or a restart would take  *)
(* it for one that was never sent.                                         *)
(***************************************************************************)
EXTENDS ExternalReviewOutbox, ExternalReviewProofs

Doubtful == \A e \in Effect : Says(e) \in {"trying", "doubt"} => eff[e].attempts > 0

InHandPlace == {"observe", "guard", "admit", "sent"}

\* A step shows nothing new of an effect.
Same(e) == eff'[e].attempts = eff[e].attempts /\ Shown(eff'[e].state, at') = Says(e)

Still == (\A e \in Effect : Same(e)) /\ UNCHANGED <<wire, comments>>

\* A step shows something new of one effect only: what it is, whether an attempt was spent.
Turns(e, s, spent) ==
  /\ \A d \in Effect \ {e} : Same(d)
  /\ Shown(eff'[e].state, at') = s
  /\ eff'[e].attempts = eff[e].attempts + (IF spent THEN 1 ELSE 0)

-----------------------------------------------------------------------------
(* The mapped state.                                                          *)

\* The worker is nowhere near an effect that is not in its hands.
LEMMA NotInHand ==
  ASSUME NEW e \in Effect, Ledger(e), e # cur \/ at \notin InHandPlace
  PROVE  eff[e].state # "processing"
BY DEF Ledger, InHandPlace

LEMMA SameRow ==
  ASSUME NEW e \in Effect, eff'[e].state = eff[e].state, eff'[e].attempts = eff[e].attempts,
         eff[e].state # "processing" \/ at' = at
  PROVE  Same(e)
BY DEF Same, Says, Shown

LEMMA StillMaps ==
  ASSUME Still
  PROVE  UNCHANGED Outbox!outbox
<1>1. [e \in Effect |-> Says(e)]' = [e \in Effect |-> Says(e)]
  BY DEF Still, Same, Says
<1>2. [e \in Effect |-> eff[e].attempts]' = [e \in Effect |-> eff[e].attempts]
  BY DEF Still, Same
<1>. QED
  BY <1>1, <1>2 DEF Still, Outbox!outbox

LEMMA TurnMaps ==
  ASSUME TypeOK, NEW e \in Effect, NEW s, NEW spent \in BOOLEAN, Turns(e, s, spent)
  PROVE  /\ [d \in Effect |-> Says(d)]' = [[d \in Effect |-> Says(d)] EXCEPT ![e] = s]
         /\ [d \in Effect |-> eff[d].attempts]' =
              IF spent THEN [[d \in Effect |-> eff[d].attempts] EXCEPT ![e] = @ + 1]
              ELSE [d \in Effect |-> eff[d].attempts]
<1>1. eff[e].attempts \in Nat
  BY LimitAssumption DEF TypeOK, EffectRow
<1>2. [d \in Effect |-> Says(d)]' = [[d \in Effect |-> Says(d)] EXCEPT ![e] = s]
  BY DEF Turns, Same, Says
<1>3. CASE spent
  BY <1>2, <1>3 DEF Turns, Same
<1>4. CASE ~spent
  BY <1>1, <1>2, <1>4 DEF Turns, Same
<1>. QED
  BY <1>3, <1>4

-----------------------------------------------------------------------------
(* Steps that show nothing new.                                               *)

\* A step that leaves the effects alone, and moves a worker that holds none.
LEMMA Untouched ==
  ASSUME IInv, UNCHANGED <<eff, netVars>>, at' = at \/ at \notin InHandPlace
  PROVE  Still
<1>1. wire' = wire /\ comments' = comments /\ eff' = eff
  BY DEF netVars
<1>2. ASSUME NEW e \in Effect PROVE Same(e)
  <2>1. Ledger(e)
    BY DEF IInv
  <2>. QED
    BY <1>1, <2>1, NotInHand, SameRow
<1>. QED
  BY <1>1, <1>2 DEF Still

\* The worker puts its effect down: what it shows is its new state.
LEMMA Laid ==
  ASSUME IInv, at \in InHandPlace, NEW s \in EffectState \ {"processing"}, Settle(s),
         NEW shown, shown = Shown(s, "idle")
  PROVE  cur \in Effect /\ Turns(cur, shown, FALSE)
<1>1. cur \in Effect /\ eff[cur].attempts \in Nat
  BY LimitAssumption DEF IInv, InHand, TypeOK, EffectRow, InHandPlace
<1>2. \A e \in Effect : /\ eff'[e].state = IF e = cur THEN s ELSE eff[e].state
                        /\ eff'[e].attempts = eff[e].attempts
  BY <1>1, SettleFacts DEF IInv
<1>3. \A e \in Effect \ {cur} : Same(e)
  BY <1>2, NotInHand, SameRow DEF IInv
<1>4. Shown(eff'[cur].state, at') = shown
  BY <1>1, <1>2 DEF Shown
<1>. QED
  BY <1>1, <1>2, <1>3, <1>4 DEF Turns

\* An effect that shows as not sent, or in doubt, is put down as such.
LEMMA Rests ==
  ASSUME IInv, cur \in Effect, NEW s, Turns(cur, s, FALSE), Says(cur) = s,
         UNCHANGED <<wire, comments>>
  PROVE  Still
<1>1. eff[cur].attempts \in Nat
  BY LimitAssumption DEF IInv, TypeOK, EffectRow
<1>. QED
  BY <1>1 DEF Turns, Same, Still

LEMMA DeferIsStill ==
  ASSUME IInv, defer_group
  PROVE  Still
<1>1. eff \in [Effect -> EffectRow] /\ wire' = wire /\ comments' = comments
  BY DEF IInv, TypeOK, defer_group, netVars
<1>2. at \notin InHandPlace
  BY DEF defer_group, Delivering, Publishing, InHandPlace
<1>3. ASSUME NEW e \in Effect PROVE Same(e)
  <2>1. eff[e].state # "processing"
    BY <1>2, NotInHand DEF IInv
  <2>2. eff'[e] = IF eff[e].state = "pending" /\ eff[e].attempts = 0
                  THEN [eff[e] EXCEPT !.state = "blocked"] ELSE eff[e]
    BY DEF defer_group
  <2>3. eff[e] \in EffectRow
    BY <1>1
  <2>. QED
    BY <2>1, <2>2, <2>3 DEF Same, Says, Shown, EffectRow
<1>. QED
  BY <1>1, <1>3 DEF Still

\* What is claimed shows as it did: an effect in doubt is only read.
LEMMA ClaimIsStill ==
  ASSUME IInv, NEW e \in Effect, claim(e)
  PROVE  Still
<1>1. eff \in [Effect -> EffectRow] /\ wire' = wire /\ comments' = comments
  BY DEF IInv, TypeOK, claim, netVars
<1>2. at \notin InHandPlace
  BY DEF claim, Delivering, Publishing, InHandPlace
<1>3. ASSUME NEW d \in Effect PROVE Same(d)
  <2>1. eff[d].state # "processing" /\ eff[d] \in EffectRow
    BY <1>1, <1>2, NotInHand DEF IInv
  <2>2. CASE d = e
    <3>1. eff[e].state \in {"pending", "uncertain", "blocked"}
      BY DEF claim, Claimable, Idle, Rank
    <3>2. eff'[e] = [eff[e] EXCEPT !.state = "processing"]
          /\ at' = (IF eff[e].state = "uncertain" THEN "observe" ELSE "guard")
      BY <1>1 DEF claim
    <3>. QED
      BY <2>1, <2>2, <3>1, <3>2 DEF Same, Says, Shown, EffectRow
  <2>3. CASE d # e
    <3>1. eff'[d] = eff[d]
      BY <1>1, <2>3 DEF claim
    <3>. QED
      BY <2>1, <3>1, SameRow
  <2>. QED
    BY <2>2, <2>3
<1>. QED
  BY <1>1, <1>3 DEF Still

LEMMA RetryIsStill ==
  ASSUME IInv, eff' = Retried, UNCHANGED <<netVars, workVars>>
  PROVE  Still
<1>1. eff \in [Effect -> EffectRow] /\ wire' = wire /\ comments' = comments /\ at' = at
  BY DEF IInv, TypeOK, netVars, workVars
<1>2. ASSUME NEW e \in Effect PROVE Same(e)
  <2>1. eff[e] \in EffectRow
    BY <1>1
  <2>2. CASE eff[e].state = "rejected" /\ eff[e].attempts < PostLimit
    <3>1. eff'[e] = [eff[e] EXCEPT !.state = "pending"]
      BY <2>2 DEF Retried
    <3>. QED
      BY <2>1, <2>2, <3>1 DEF Same, Says, Shown, EffectRow
  <2>3. CASE eff[e].state = "uncertain"
    <3>1. eff'[e] = [eff[e] EXCEPT !.reads = 0]
      BY <2>3 DEF Retried
    <3>. QED
      BY <2>1, <2>3, <3>1 DEF Same, Says, Shown, EffectRow
  <2>4. CASE ~(eff[e].state = "rejected" /\ eff[e].attempts < PostLimit) /\ eff[e].state # "uncertain"
    <3>1. eff'[e] = eff[e]
      BY <2>4 DEF Retried
    <3>. QED
      BY <1>1, <3>1 DEF Same, Says, Shown
  <2>. QED
    BY <2>2, <2>3, <2>4
<1>. QED
  BY <1>1, <1>2 DEF Still

-----------------------------------------------------------------------------
(* Steps that show something new of one effect.                               *)

\* A comment is asked for.
LEMMA AskTurns ==
  ASSUME IInv, NEW e \in Effect, eff[e].state = "absent", eff'[e].state = "pending",
         \A d \in Effect : d # e => eff'[d] = eff[d],
         eff'[e].attempts = eff[e].attempts, UNCHANGED netVars,
         at' = at \/ at \notin InHandPlace
  PROVE  Outbox!Next
<1>1. wire' = wire /\ comments' = comments /\ eff[e].attempts \in Nat
  BY LimitAssumption DEF IInv, TypeOK, EffectRow, netVars
<1>2. \A d \in Effect \ {e} : Same(d)
  <2>. SUFFICES ASSUME NEW d \in Effect \ {e} PROVE Same(d)
    OBVIOUS
  <2>1. eff'[d] = eff[d] /\ Ledger(d)
    BY DEF IInv
  <2>. QED
    BY <2>1, NotInHand, SameRow
<1>3. Turns(e, "unsent", FALSE)
  BY <1>1, <1>2 DEF Turns, Says, Shown
<1>4. Says(e) = "none"
  BY DEF Says, Shown
<1>5. Outbox!Ask(e)
  BY <1>1, <1>3, <1>4, TurnMaps DEF IInv, Outbox!Ask
<1>. QED
  BY <1>5 DEF Outbox!Next

\* A POST is admitted: the effect was in hand and not sent, and nothing else is being tried.
LEMMA AdmitSends ==
  ASSUME IInv, admit_attempt
  PROVE  Still \/ Outbox!Next
<1>1. /\ eff \in [Effect -> EffectRow] /\ cur \in Effect /\ at = "admit" /\ comments' = comments
      /\ eff[cur].state = "processing" /\ eff[cur].attempts \in Nat
  BY LimitAssumption DEF IInv, TypeOK, InHand, admit_attempt, EffectRow
<1>2. Says(cur) = "unsent"
  BY <1>1 DEF Says, Shown
<1>3. CASE /\ RefusedNow(cur) = "none" /\ Work("sent")
           /\ eff' = [eff EXCEPT ![cur].attempts = @ + 1] /\ wire' = wire \union {cur}
  <2>1. eff[cur].attempts < PostLimit
    <3>1. ~(eff[cur].attempts >= PostLimit)
      BY <1>3 DEF RefusedNow
    <3>. QED
      BY <1>1, <3>1, LimitAssumption
  <2>2. \A d \in Effect \ {cur} : eff'[d] = eff[d]
    BY <1>1, <1>3
  <2>3. \A d \in Effect \ {cur} : Same(d)
    BY <2>2, NotInHand, SameRow DEF IInv
  <2>4. eff'[cur].state = "processing" /\ eff'[cur].attempts = eff[cur].attempts + 1 /\ at' = "sent"
    BY <1>1, <1>3 DEF Work, EffectRow
  <2>5. Turns(cur, "trying", TRUE)
    BY <2>3, <2>4 DEF Turns, Says, Shown
  <2>6. \A d \in Effect : Says(d) # "trying"
    BY <1>1 DEF Says, Shown
  <2>7. PICK c \in Effect : c = cur
    BY <1>1
  <2>8. Turns(c, "trying", TRUE)
    BY <2>5, <2>7 DEF Turns
  <2>9. Outbox!Send(c)
    BY <1>1, <1>2, <1>3, <2>1, <2>6, <2>7, <2>8, TurnMaps DEF IInv, Outbox!Send
  <2>. QED
    BY <2>9 DEF Outbox!Next
<1>4. CASE wire' = wire /\ \E s \in {"stale", "blocked"} : Settle(s)
  <2>1. PICK s \in {"stale", "blocked"} : Settle(s)
    BY <1>4
  <2>2. Turns(cur, "unsent", FALSE)
    BY <1>1, <2>1, Laid DEF EffectState, InHandPlace, Shown
  <2>. QED
    BY <1>1, <1>2, <1>4, <2>2, Rests
<1>5. RefusedNow(cur) \in {"none", "blocked", "stale"}
  BY Zenon DEF RefusedNow
<1>. QED
  BY <1>3, <1>4, <1>5, Zenon DEF admit_attempt

\* The answers.
LEMMA AnswerTurns ==
  ASSUME IInv, accepted \/ rejected \/ unanswered
  PROVE  Outbox!Next
<1>1. cur \in Effect /\ at = "sent" /\ at \in InHandPlace /\ eff[cur].state = "processing"
  BY DEF IInv, InHand, accepted, rejected, unanswered, InHandPlace
<1>2. Says(cur) = "trying"
  BY <1>1 DEF Says, Shown
<1>3. CASE accepted
  <2>1. PICK s \in {"confirmed", "uncertain"} : Settle(s)
    BY <1>3 DEF accepted
  <2>2. PICK t \in {"sent", "doubt"} : Turns(cur, t, FALSE)
    BY <1>1, <2>1, Laid DEF EffectState, Shown
  <2>3. wire' = wire \ {cur} /\ comments' = [comments EXCEPT ![cur] = @ + 1]
    BY <1>3 DEF accepted
  <2>4. Outbox!Accept(cur)
    BY <1>1, <1>2, <2>2, <2>3, TurnMaps DEF IInv, Outbox!Accept
  <2>. QED
    BY <1>1, <2>4 DEF Outbox!Next
<1>4. CASE rejected
  <2>1. "rejected" \in EffectState \ {"processing"} /\ "unsent" = Shown("rejected", "idle")
    BY DEF EffectState, Shown
  <2>2. Turns(cur, "unsent", FALSE)
    BY <1>1, <1>4, <2>1, Laid DEF rejected
  <2>3. Outbox!Refuse(cur)
    BY <1>1, <1>2, <1>4, <2>2, TurnMaps DEF IInv, Outbox!Refuse, rejected
  <2>. QED
    BY <1>1, <2>3 DEF Outbox!Next
<1>5. CASE unanswered
  <2>1. Turns(cur, "doubt", FALSE)
    BY <1>1, <1>5, Laid DEF EffectState, unanswered, Shown
  <2>2. Outbox!Lose(cur)
    BY <1>1, <1>2, <1>5, <2>1, TurnMaps DEF IInv, Outbox!Lose, unanswered, netVars
  <2>. QED
    BY <1>1, <2>2 DEF Outbox!Next
<1>. QED
  BY <1>3, <1>4, <1>5

\* An uncertain effect is read.
LEMMA ObserveTurns ==
  ASSUME IInv, observe
  PROVE  Still \/ Outbox!Next
<1>1. /\ eff \in [Effect -> EffectRow] /\ cur \in Effect /\ at = "observe" /\ at \in InHandPlace
      /\ eff[cur].state = "processing" /\ wire' = wire /\ comments' = comments
      /\ eff[cur] \in EffectRow
  BY DEF IInv, TypeOK, InHand, observe, netVars, InHandPlace
<1>2. Says(cur) = "doubt"
  BY <1>1 DEF Says, Shown
<1>3. CASE comments[cur] = 1 /\ Settle("confirmed")
  <2>1. Turns(cur, "sent", FALSE)
    BY <1>1, <1>3, Laid DEF EffectState, Shown
  <2>2. Outbox!Read(cur)
    BY <1>1, <1>2, <1>3, <2>1, TurnMaps DEF IInv, Outbox!Read
  <2>. QED
    BY <1>1, <2>2 DEF Outbox!Next
<1>4. CASE eff' = [eff EXCEPT ![cur].state = "uncertain", ![cur].reads = @ + 1]
  <2>1. eff'[cur].state = "uncertain" /\ eff'[cur].attempts = eff[cur].attempts
    BY <1>1, <1>4 DEF EffectRow
  <2>2. \A d \in Effect \ {cur} : eff'[d] = eff[d]
    BY <1>1, <1>4
  <2>3. \A d \in Effect \ {cur} : Same(d)
    BY <2>2, NotInHand, SameRow DEF IInv
  <2>4. Same(cur)
    BY <1>2, <2>1 DEF Same, Says, Shown
  <2>. QED
    BY <1>1, <2>3, <2>4 DEF Still
<1>. QED
  BY <1>3, <1>4 DEF observe

\* Before a POST: every answer but one puts down an effect that was not sent, and that it is
\* there already cannot be.
LEMMA GuardIsStill ==
  ASSUME IInv, guard
  PROVE  Still
<1>1. /\ cur \in Effect /\ at = "guard" /\ at \in InHandPlace /\ eff[cur].state = "processing"
      /\ wire' = wire /\ comments' = comments /\ comments[cur] = 0
  BY DEF IInv, InHand, guard, netVars, InHandPlace, Unsent
<1>2. Says(cur) = "unsent"
  BY <1>1 DEF Says, Shown
<1>3. CASE Work("admit") /\ eff' = eff
  <2>1. at' = "admit"
    BY <1>3 DEF Work
  <2>2. \A d \in Effect \ {cur} : Same(d)
    BY <1>3, NotInHand, SameRow DEF IInv
  <2>3. Same(cur)
    BY <1>1, <1>2, <1>3, <2>1 DEF Same, Says, Shown
  <2>. QED
    BY <1>1, <2>2, <2>3 DEF Still
<1>4. CASE \E s \in {"stale", "blocked"} : Settle(s)
  <2>1. Turns(cur, "unsent", FALSE)
    BY <1>1, <1>4, Laid DEF EffectState, Shown
  <2>. QED
    BY <1>1, <1>2, <2>1, Rests
<1>5. Refusal(cur) \in {"none", "blocked", "stale"}
  BY Zenon DEF Refusal
<1>. QED
  BY <1>1, <1>3, <1>4, <1>5 DEF guard

\* A late request arrives, or not: only one in doubt can.
LEMMA ArriveMaps ==
  ASSUME IInv, Arrive
  PROVE  Outbox!Next
<1>1. PICK e \in wire :
        /\ at = "sent" => cur # e
        /\ wire' = wire \ {e}
        /\ comments' = [comments EXCEPT ![e] = @ + 1] \/ comments' = comments
  BY DEF Arrive
<1>2. e \in Effect /\ Ledger(e) /\ eff[e] \in EffectRow /\ comments \in [Effect -> Nat]
  BY DEF IInv, TypeOK
<1>3. eff' = eff /\ at' = at
  BY DEF Arrive, workVars
<1>4. Says(e) = "doubt"
  BY <1>1, <1>2 DEF Ledger, Unsent, Says, Shown, EffectRow, EffectState, IInv, InHand
<1>5. /\ [d \in Effect |-> Says(d)]' = [d \in Effect |-> Says(d)]
      /\ [d \in Effect |-> eff[d].attempts]' = [d \in Effect |-> eff[d].attempts]
  BY <1>3 DEF Says, Shown
<1>6. Outbox!Arrive(e)
  BY <1>1, <1>2, <1>4, <1>5 DEF Outbox!Arrive
<1>. QED
  BY <1>2, <1>6 DEF Outbox!Next

-----------------------------------------------------------------------------
(* The end of the process.                                                    *)

LEMMA ShutdownMaps ==
  ASSUME IInv, Shutdown
  PROVE  Still \/ Outbox!Next
<1>1. wire' = wire /\ comments' = comments
  BY DEF Shutdown, netVars
<1>2. CASE eff' = eff /\ at \notin InHandPlace
  BY <1>2, Untouched DEF Shutdown
<1>3. CASE at \in {"guard", "admit"} /\ Settle("pending")
  <2>1. cur \in Effect /\ Says(cur) = "unsent"
    BY <1>3 DEF IInv, InHand, Says, Shown
  <2>2. "pending" \in EffectState \ {"processing"} /\ "unsent" = Shown("pending", "idle")
    BY DEF EffectState, Shown
  <2>3. Turns(cur, "unsent", FALSE)
    BY <1>3, <2>2, Laid DEF InHandPlace
  <2>. QED
    BY <1>1, <2>1, <2>3, Rests
<1>4. CASE at = "observe" /\ Settle("uncertain")
  <2>1. cur \in Effect /\ Says(cur) = "doubt"
    BY <1>4 DEF IInv, InHand, Says, Shown
  <2>2. Turns(cur, "doubt", FALSE)
    BY <1>4, Laid DEF EffectState, InHandPlace, Shown
  <2>. QED
    BY <1>1, <2>1, <2>2, Rests
<1>5. CASE at = "sent" /\ Settle("uncertain")
  <2>1. cur \in Effect /\ Says(cur) = "trying"
    BY <1>5 DEF IInv, InHand, Says, Shown
  <2>2. Turns(cur, "doubt", FALSE)
    BY <1>5, Laid DEF EffectState, InHandPlace, Shown
  <2>3. Outbox!Lose(cur)
    BY <1>1, <2>1, <2>2, TurnMaps DEF IInv, Outbox!Lose
  <2>. QED
    BY <2>1, <2>3 DEF Outbox!Next
<1>. QED
  BY <1>2, <1>3, <1>4, <1>5 DEF Shutdown, InHandPlace

\* A crash: the one effect in hand is in doubt from then on if it ever spent an attempt.
LEMMA RecoverMaps ==
  ASSUME IInv, Doubtful, recover
  PROVE  Still \/ Outbox!Next
<1>1. eff \in [Effect -> EffectRow] /\ wire' = wire /\ comments' = comments
  BY DEF IInv, TypeOK, recover, netVars
<1>2. ASSUME NEW e \in Effect
      PROVE  /\ eff'[e].attempts = eff[e].attempts /\ eff[e].attempts \in Nat
             /\ eff'[e].state = IF eff[e].state = "processing" THEN Recovered(e) ELSE eff[e].state
  <2>1. eff'[e] = IF eff[e].state = "processing" THEN [eff[e] EXCEPT !.state = Recovered(e)]
                  ELSE eff[e]
    BY Zenon DEF recover
  <2>2. eff[e] \in EffectRow /\ eff[e].attempts \in Nat
    BY <1>1, LimitAssumption DEF EffectRow
  <2>. QED
    BY <2>1, <2>2 DEF EffectRow
<1>3. ASSUME NEW e \in Effect, e # cur \/ at \notin InHandPlace PROVE Same(e)
  BY <1>2, <1>3, NotInHand, SameRow DEF IInv
<1>4. CASE at \notin InHandPlace
  BY <1>1, <1>3, <1>4 DEF Still
<1>5. CASE at \in InHandPlace
  <2>1. cur \in Effect /\ eff[cur].state = "processing"
    BY <1>5 DEF IInv, InHand, InHandPlace
  <2>2. \A d \in Effect \ {cur} : Same(d)
    BY <1>3
  <2>3. CASE eff[cur].attempts = 0
    <3>1. Says(cur) = "unsent"
      BY <1>5, <2>1, <2>3 DEF Doubtful, Says, Shown, InHandPlace
    <3>2. Turns(cur, "unsent", FALSE)
      BY <1>2, <2>1, <2>2, <2>3 DEF Turns, Says, Shown, Recovered
    <3>. QED
      BY <1>1, <2>1, <3>1, <3>2, Rests
  <2>4. CASE eff[cur].attempts > 0
    <3>1. Turns(cur, "doubt", FALSE)
      BY <1>2, <2>1, <2>2, <2>4 DEF Turns, Says, Shown, Recovered
    <3>2. CASE at = "observe"
      BY <1>1, <2>1, <3>1, <3>2, Rests DEF Says, Shown
    <3>3. CASE at = "sent"
      <4>1. Outbox!Lose(cur)
        BY <1>1, <2>1, <3>1, <3>3, TurnMaps DEF IInv, Outbox!Lose, Says, Shown
      <4>. QED
        BY <2>1, <4>1 DEF Outbox!Next
    <3>4. CASE at \in {"guard", "admit"}
      <4>1. Outbox!Forget(cur)
        BY <1>1, <2>1, <2>4, <3>1, <3>4, TurnMaps DEF IInv, Outbox!Forget, Says, Shown
      <4>. QED
        BY <2>1, <4>1 DEF Outbox!Next
    <3>. QED
      BY <1>5, <3>2, <3>3, <3>4 DEF InHandPlace
  <2>. QED
    BY <1>2, <2>1, <2>3, <2>4
<1>. QED
  BY <1>4, <1>5

-----------------------------------------------------------------------------
(* The theorem.                                                               *)

LEMMA NextMaps ==
  ASSUME IInv, Doubtful, [Next]_vars
  PROVE  Still \/ Outbox!Next
<1>1. CASE ReviewStep
  <2>1. ASSUME NEW h \in Heads, claim_job(h) \/ publication_jobs(h) PROVE Still
    BY <2>1, Untouched DEF claim_job, publication_jobs, Publishing, InHandPlace
  <2>2. CASE read_context \/ run_consult \/ save_report
    BY <2>2, Untouched DEF read_context, run_consult, save_report, InHandPlace
  <2>3. CASE enqueue_effect
    <3>1. /\ eff \in [Effect -> EffectRow] /\ cur \in Effect /\ eff[cur].state = "absent"
          /\ at = "enqueue" /\ UNCHANGED netVars
      BY <2>3 DEF IInv, TypeOK, InHand, enqueue_effect, Effect
    <3>2. CASE eff' = eff
      BY <3>1, <3>2, Untouched DEF InHandPlace
    <3>3. CASE eff' # eff
      <4>1. PICK r : eff' = [eff EXCEPT ![cur].state = "pending", ![cur].head = cur.head,
                                        ![cur].base = seen, ![cur].result = r]
        BY <2>3, <3>3, Zenon DEF enqueue_effect
      <4>2. eff'[cur].state = "pending" /\ eff'[cur].attempts = eff[cur].attempts
            /\ \A d \in Effect : d # cur => eff'[d] = eff[d]
        BY <3>1, <4>1 DEF EffectRow
      <4>. QED
        BY <3>1, <4>2, AskTurns DEF InHandPlace
    <3>. QED
      BY <3>2, <3>3
  <2>. QED
    BY <1>1, <2>1, <2>2, <2>3 DEF ReviewStep
<1>2. CASE DeliverStep
  <2>1. CASE EndOfRound
    BY <2>1, Untouched DEF EndOfRound, Delivering, Publishing, InHandPlace
  <2>. QED
    BY <1>2, <2>1, DeferIsStill, ClaimIsStill, ObserveTurns, GuardIsStill, AdmitSends, AnswerTurns
       DEF DeliverStep
<1>3. CASE Push \/ Configure \/ refresh
  BY <1>3, Untouched DEF Push, Configure, refresh, workVars
<1>4. ASSUME NEW k \in Evidence, add_evidence(k) PROVE Outbox!Next
  <2>1. /\ eff \in [Effect -> EffectRow] /\ k \in Effect /\ eff[k].state = "absent"
        /\ eff' = [eff EXCEPT ![k].state = "pending", ![k].head = reg.head]
        /\ UNCHANGED netVars /\ at' = at
    BY <1>4 DEF IInv, TypeOK, add_evidence, workVars, Effect
  <2>2. eff'[k].state = "pending" /\ eff'[k].attempts = eff[k].attempts
        /\ \A d \in Effect : d # k => eff'[d] = eff[d]
    BY <2>1 DEF EffectRow
  <2>. QED
    BY <2>1, <2>2, AskTurns
<1>5. ASSUME NEW issue, NEW whole \in BOOLEAN, review_retry(issue, whole) PROVE Still
  <2>1. UNCHANGED <<netVars, workVars>> /\ (eff' = eff \/ eff' = Retried)
    BY <1>5 DEF review_retry
  <2>. QED
    BY <2>1, RetryIsStill, Untouched DEF workVars
<1>6. CASE UNCHANGED vars
  BY <1>6, Untouched DEF vars, workVars
<1>. QED
  BY <1>1, <1>2, <1>3, <1>4, <1>5, <1>6, ArriveMaps, ShutdownMaps, RecoverMaps DEF Next

\* A step of the outbox leaves no comment in doubt that spent no attempt.
LEMMA DoubtfulStep ==
  ASSUME IInv, IInv', Doubtful, Still \/ Outbox!Next
  PROVE  Doubtful'
<1>1. CASE Still
  BY <1>1 DEF Still, Same, Doubtful, Says
<1>2. CASE Outbox!Next
  <2>. SUFFICES ASSUME NEW e \in Effect, Says(e)' \in {"trying", "doubt"}
                PROVE  eff'[e].attempts > 0
    BY DEF Doubtful
  <2>. DEFINE says == [d \in Effect |-> Says(d)]
              tries == [d \in Effect |-> eff[d].attempts]
  <2>1. says[e] = Says(e) /\ tries[e] = eff[e].attempts
        /\ says'[e] = Says(e)' /\ tries'[e] = eff'[e].attempts
    OBVIOUS
  <2>2. tries \in [Effect -> Nat] /\ (says[e] \in {"trying", "doubt"} => tries[e] > 0)
    BY LimitAssumption DEF IInv, TypeOK, EffectRow, Doubtful
  <2>3. says = [d \in Effect |-> says[d]]
    OBVIOUS
  <2>4. PICK c \in Effect :
          \/ says[c] = "none" /\ says' = [says EXCEPT ![c] = "unsent"] /\ tries' = tries
          \/ says' = [says EXCEPT ![c] = "trying"] /\ tries' = [tries EXCEPT ![c] = @ + 1]
          \/ says[c] \in {"trying", "doubt"} /\ tries' = tries
             /\ \E s \in {"sent", "doubt", "unsent"} : says' = [says EXCEPT ![c] = s]
          \/ tries[c] > 0 /\ says' = [says EXCEPT ![c] = "doubt"] /\ tries' = tries
          \/ says' = says /\ tries' = tries
    BY <1>2 DEF Outbox!Next, Outbox!Ask, Outbox!Send, Outbox!Accept, Outbox!Refuse, Outbox!Lose,
                Outbox!Forget, Outbox!Arrive, Outbox!Read
  <2>. HIDE DEF says, tries
  <2>5. says'[e] \in {"trying", "doubt"}
    BY <2>1
  <2>6. tries'[e] > 0
    BY <2>2, <2>3, <2>4, <2>5
  <2>. QED
    BY <2>1, <2>6
<1>. QED
  BY <1>1, <1>2

LEMMA InitMaps == Init => Outbox!Init /\ Doubtful
<1>. SUFFICES ASSUME Init PROVE Outbox!Init /\ Doubtful
  OBVIOUS
<1>1. \A e \in Effect : eff[e].state = "absent" /\ eff[e].attempts = 0
  BY DEF Init
<1>2. \A e \in Effect : Says(e) = "none"
  BY <1>1 DEF Says, Shown
<1>. QED
  BY <1>1, <1>2 DEF Init, Outbox!Init, Doubtful

\* Every behaviour of the review, with its lost answers, restarts and retries, is a behaviour
\* of the outbox of comments: claim, admit_attempt, finish, retry and recover of the outbox keep
\* its promises together, for any number of commits, declarations and attempts.
THEOREM Refinement == Spec => ImplementsOutbox
<1>1. IInv /\ Doubtful /\ [Next]_vars => [Outbox!Next]_(Outbox!outbox)
  BY NextMaps, StillMaps
<1>2. IInv /\ IInv' /\ Doubtful /\ [Next]_vars => Doubtful'
  BY NextMaps, DoubtfulStep
<1>. QED
  BY <1>1, <1>2, InitMaps, Invariance, PTL DEF Spec, ImplementsOutbox, Outbox!Spec
=============================================================================
