----------------------------- MODULE EventLedger -----------------------------
(***************************************************************************)
(* What the durable queue of a conversation promises its users, without    *)
(* saying how: an event waits, is taken or dropped, and is closed.  One is *)
(* taken at a time, a taken event is never waiting again, and the executor *)
(* starts at most once for each.  Taken means "being run, or its outcome   *)
(* is not known yet".                                                      *)
(***************************************************************************)
EXTENDS Naturals

CONSTANT Id                \* the events, in order of arrival

VARIABLES status, runs

ledger == <<status, runs>>

Init ==
  /\ status \in [Id -> {"absent", "waiting"}]
  /\ runs = [e \in Id |-> 0]

Add(e) ==
  /\ status[e] = "absent"
  /\ status' = [status EXCEPT ![e] = "waiting"]
  /\ UNCHANGED runs

\* Nothing is taken over an event that is running or unknown.
Take(e) ==
  /\ status[e] = "waiting"
  /\ \A d \in Id : status[d] # "taken"
  /\ status' = [status EXCEPT ![e] = "taken"]
  /\ UNCHANGED runs

\* A cancellation drops events that wait.
Drop(S) ==
  /\ \A e \in S : status[e] = "waiting"
  /\ status' = [e \in Id |-> IF e \in S THEN "closed" ELSE status[e]]
  /\ UNCHANGED runs

Close(e) ==
  /\ status[e] = "taken"
  /\ status' = [status EXCEPT ![e] = "closed"]
  /\ UNCHANGED runs

\* A run that was already admitted may begin after its event was closed.
Start(e) ==
  /\ status[e] \in {"taken", "closed"} /\ runs[e] = 0
  /\ runs' = [runs EXCEPT ![e] = 1]
  /\ UNCHANGED status

Next ==
  \/ \E e \in Id : Add(e) \/ Take(e) \/ Close(e) \/ Start(e)
  \/ \E S \in SUBSET Id : Drop(S)

Spec == Init /\ [][Next]_ledger
=============================================================================
