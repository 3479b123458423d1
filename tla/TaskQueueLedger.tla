--------------------------- MODULE TaskQueueLedger ---------------------------
(***************************************************************************)
(* The queue implements the ledger: the refinement mapping.                *)
(***************************************************************************)
EXTENDS TaskQueue

Status(s) ==
  CASE s = "absent"  -> "absent"
    [] s = "pending" -> "waiting"
    [] s \in {"processing", "uncertain"} -> "taken"
    [] s \in {"applied", "cancelled"} -> "closed"

Ledger == INSTANCE EventLedger WITH
  status <- [e \in Id |-> Status(state[e])], runs <- started

\* Every behaviour of the queue, with its crashes, cancellations and stale
\* writes, is a behaviour of the ledger.
ImplementsLedger == Ledger!Spec
=============================================================================
