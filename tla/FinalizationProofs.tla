-------------------------- MODULE FinalizationProofs --------------------------
(***************************************************************************)
(* What holds of Finalization for every set of runs and every number of    *)
(* failures and ends of the process: the types, that a saved result is     *)
(* final, that no result is dropped, that exported means written and,      *)
(* where operations do not fail, that an answer is written once.           *)
(***************************************************************************)
EXTENDS Finalization, TLAPS

Exporting == {"export", "reexport", "export2"}

\* What holds of a run at each place of its handler and of its recovery.
Shape(c) ==
  /\ pc[c] \in {"idle", "run", "close", "finish", "refinish"} => out[c] = "none"
  /\ pc[c] \in {"close", "finish", "refinish"} \union Exporting => known[c] # "none"
  /\ pc[c] = "recover" => cause[c] # "none"
  /\ pc[c] \in Exporting => out[c] # "none"
  /\ durable[c] \/ c \in batch \/ exported[c] => out[c] # "none"
  /\ out[c] # "none" => row[c] = out[c]

\* The export in course is of a saved result; one that a handler asked for is its own.
InJob ==
  /\ lock # Free => job.chat \in Chats /\ job.step # "none" /\ out[job.chat] # "none"
  /\ lock \in Chats => job.chat = lock /\ pc[lock] \in Exporting

IInv == TypeOK /\ (\A c \in Chats : Shape(c)) /\ InJob /\ ResultKept

-----------------------------------------------------------------------------
(* How a handler is interrupted, and how an export goes on or ends.           *)

LEMMA CaughtIs ==
  ASSUME TypeOK, NEW c \in Chats, Caught(c), c \in Nodes => known[c] # "none"
  PROVE  \E s \in Status : /\ pc' = [pc EXCEPT ![c] = "recover"]
                           /\ cause' = [cause EXCEPT ![c] = s]
                           /\ cancel' = [cancel EXCEPT ![c] = FALSE]
<1>. DEFINE s == IF c \in Nodes THEN known[c] ELSE IF Hit(c) THEN "cancelled" ELSE "error"
<1>1. s \in Status
  BY DEF TypeOK, Status
<1>2. /\ pc' = [pc EXCEPT ![c] = "recover"] /\ cause' = [cause EXCEPT ![c] = s]
      /\ cancel' = [cancel EXCEPT ![c] = FALSE]
  BY DEF Caught, To
<1>. QED
  BY <1>1, <1>2

LEMMA CommitTypes ==
  ASSUME TypeOK, NEW c \in Chats, known[c] \in Status, Commit(c) \/ UNCHANGED dbVars
  PROVE  /\ row' \in [Chats -> Status \union {"absent", "running"}]
         /\ out' \in [Chats -> Status \union {"none"}]
         /\ exported' \in [Chats -> BOOLEAN] /\ due' \in [Chats -> BOOLEAN]
         /\ tries' \in [Chats -> 0..2]
<1>1. CASE Commit(c)
  BY <1>1 DEF Commit, TypeOK
<1>2. CASE UNCHANGED dbVars
  BY <1>2 DEF dbVars, TypeOK
<1>. QED
  BY <1>1, <1>2

JobOver ==
  /\ lock' = Free /\ job' = NoJob
  /\ \/ lock = Sweep /\ UNCHANGED <<pc, cause, cancel>>
     \/ lock \in Chats /\ pc' = [pc EXCEPT ![lock] = "done"] /\ UNCHANGED <<cause, cancel>>
     \/ /\ lock \in Chats /\ pc' = [pc EXCEPT ![lock] = "recover"]
        /\ cause' = [cause EXCEPT ![lock] = "cancelled"]
        /\ cancel' = [cancel EXCEPT ![lock] = FALSE]

LEMMA JobEndsIs == ASSUME TypeOK, lock # Free, JobEnds PROVE JobOver
<1>1. CASE lock = Sweep
  BY <1>1 DEF JobEnds, Leave, JobOver
<1>2. CASE lock \in Chats
  <2>1. lock # Sweep
    BY <1>2, HoldersAssumption
  <2>2. CASE JobHit
    <3>1. Hit(lock) /\ lock \notin Nodes
      BY <2>1, <2>2 DEF JobHit, Hit, Shielded
    <3>. QED
      BY <1>2, <2>1, <2>2, <3>1 DEF JobEnds, Leave, Caught, To, JobOver
  <2>3. CASE ~JobHit
    BY <1>2, <2>1, <2>3 DEF JobEnds, Leave, To, JobOver
  <2>. QED
    BY <2>2, <2>3
<1>. QED
  BY <1>1, <1>2 DEF TypeOK

JobAt(step) == job' = [job EXCEPT !.step = step] /\ UNCHANGED <<lock, pc, cause, cancel>>

LEMMA JobGoesIs ==
  ASSUME TypeOK, lock # Free, NEW step, JobGoes(step)
  PROVE  JobOver \/ JobAt(step)
BY JobEndsIs DEF JobGoes, JobAt

-----------------------------------------------------------------------------
LEMMA HandlerKeeps ==
  ASSUME IInv, NEW c \in Chats,
         Start(c) \/ Cancel(c) \/ CancelZombie(c) \/ Elapse(c) \/ Handler(c)
  PROVE  IInv'
<1>. USE HoldersAssumption DEF dbVars, fileVars, runVars, lockVars, loopVars, sysVars,
                              IInv, At, To, PC, Status
<1>1. CASE Start(c)
  <2>1. TypeOK'
    BY <1>1 DEF Start, TypeOK
  <2>2. \A k \in Chats : Shape(k)'
    BY <1>1 DEF Start, TypeOK, Shape, Exporting
  <2>3. InJob'
    BY <1>1 DEF Start, TypeOK, Shape, InJob, Exporting
  <2>4. ResultKept'
    BY <1>1 DEF Start, TypeOK, Shape, ResultKept, Exporting
  <2>. QED
    BY <2>1, <2>2, <2>3, <2>4 DEF IInv
<1>2. CASE Cancel(c)
  <2>1. TypeOK'
    BY <1>2 DEF Cancel, TypeOK
  <2>2. \A k \in Chats : Shape(k)'
    BY <1>2 DEF Cancel, TypeOK, Shape, Exporting
  <2>3. InJob'
    BY <1>2 DEF Cancel, TypeOK, Shape, InJob, Exporting
  <2>4. ResultKept'
    BY <1>2 DEF Cancel, TypeOK, Shape, ResultKept, Exporting
  <2>. QED
    BY <2>1, <2>2, <2>3, <2>4 DEF IInv
<1>3. CASE CancelZombie(c)
  <2>1. TypeOK'
    BY <1>3 DEF CancelZombie, TypeOK
  <2>2. \A k \in Chats : Shape(k)'
    BY <1>3 DEF CancelZombie, TypeOK, Shape, Exporting
  <2>3. InJob'
    BY <1>3 DEF CancelZombie, TypeOK, Shape, InJob, Exporting
  <2>4. ResultKept'
    BY <1>3 DEF CancelZombie, TypeOK, Shape, ResultKept, Exporting
  <2>. QED
    BY <2>1, <2>2, <2>3, <2>4 DEF IInv
<1>4. CASE Elapse(c)
  <2>1. TypeOK'
    BY <1>4 DEF Elapse, TypeOK
  <2>2. \A k \in Chats : Shape(k)'
    BY <1>4 DEF Elapse, TypeOK, Shape, Exporting
  <2>3. InJob'
    BY <1>4 DEF Elapse, TypeOK, Shape, InJob, Exporting
  <2>4. ResultKept'
    BY <1>4 DEF Elapse, TypeOK, Shape, ResultKept, Exporting
  <2>. QED
    BY <2>1, <2>2, <2>3, <2>4 DEF IInv
<1>5. CASE Result(c)
  <2>1. TypeOK'
    BY <1>5 DEF Result, TypeOK
  <2>2. \A k \in Chats : Shape(k)'
    BY <1>5 DEF Result, TypeOK, Shape, Exporting
  <2>3. InJob'
    BY <1>5 DEF Result, TypeOK, Shape, InJob, Exporting
  <2>4. ResultKept'
    BY <1>5 DEF Result, TypeOK, Shape, ResultKept, Exporting
  <2>. QED
    BY <2>1, <2>2, <2>3, <2>4 DEF IInv
<1>6. CASE NoResult(c)
  <2>0. PICK s \in Status : /\ pc' = [pc EXCEPT ![c] = "recover"]
                              /\ cause' = [cause EXCEPT ![c] = s]
                              /\ cancel' = [cancel EXCEPT ![c] = FALSE]
    BY <1>6, CaughtIs DEF NoResult, Hit, Shielded, Shape
  <2>1. TypeOK'
    BY <1>6, <2>0 DEF NoResult, TypeOK
  <2>2. \A k \in Chats : Shape(k)'
    BY <1>6, <2>0 DEF NoResult, TypeOK, Shape, Exporting
  <2>3. InJob'
    BY <1>6, <2>0 DEF NoResult, TypeOK, Shape, InJob, Exporting
  <2>4. ResultKept'
    BY <1>6, <2>0 DEF NoResult, TypeOK, Shape, ResultKept, Exporting
  <2>. QED
    BY <2>1, <2>2, <2>3, <2>4 DEF IInv
<1>7. CASE Close(c)
  <2>1. TypeOK'
    BY <1>7 DEF Close, TypeOK
  <2>2. \A k \in Chats : Shape(k)'
    BY <1>7 DEF Close, TypeOK, Shape, Exporting
  <2>3. InJob'
    BY <1>7 DEF Close, TypeOK, Shape, InJob, Exporting
  <2>4. ResultKept'
    BY <1>7 DEF Close, TypeOK, Shape, ResultKept, Exporting
  <2>. QED
    BY <2>1, <2>2, <2>3, <2>4 DEF IInv
<1>8. CASE CloseFail(c)
  <2>0. PICK s \in Status : /\ pc' = [pc EXCEPT ![c] = "recover"]
                              /\ cause' = [cause EXCEPT ![c] = s]
                              /\ cancel' = [cancel EXCEPT ![c] = FALSE]
    BY <1>8, CaughtIs DEF CloseFail, Hit, Shielded, Shape
  <2>1. TypeOK'
    BY <1>8, <2>0 DEF CloseFail, TypeOK
  <2>2. \A k \in Chats : Shape(k)'
    BY <1>8, <2>0 DEF CloseFail, TypeOK, Shape, Exporting
  <2>3. InJob'
    BY <1>8, <2>0 DEF CloseFail, TypeOK, Shape, InJob, Exporting
  <2>4. ResultKept'
    BY <1>8, <2>0 DEF CloseFail, TypeOK, Shape, ResultKept, Exporting
  <2>. QED
    BY <2>1, <2>2, <2>3, <2>4 DEF IInv
<1>9. CASE Finish(c)
  <2>0. \/ \E s \in Status : /\ pc' = [pc EXCEPT ![c] = "recover"]
                              /\ cause' = [cause EXCEPT ![c] = s]
                              /\ cancel' = [cancel EXCEPT ![c] = FALSE]
        \/ pc' = [pc EXCEPT ![c] = "export"] /\ UNCHANGED <<cause, cancel>>
    <3>1. CASE Hit(c)
      <4>1. c \notin Nodes
        BY <3>1 DEF Hit, Shielded
      <4>2. Caught(c)
        BY <1>9, <3>1 DEF Finish
      <4>. QED
        BY <4>1, <4>2, CaughtIs
    <3>2. CASE ~Hit(c)
      BY <1>9, <3>2 DEF Finish
    <3>. QED
      BY <3>1, <3>2
  <2>k. known[c] \in Status
    BY <1>9 DEF Finish, TypeOK, Shape
  <2>1. TypeOK'
    <3>1. Commit(c) \/ UNCHANGED dbVars
      BY <1>9 DEF Finish
    <3>2. /\ row' \in [Chats -> Status \union {"absent", "running"}]
          /\ out' \in [Chats -> Status \union {"none"}]
          /\ exported' \in [Chats -> BOOLEAN] /\ due' \in [Chats -> BOOLEAN]
          /\ tries' \in [Chats -> 0..2]
      BY <2>k, <3>1, CommitTypes
    <3>3. /\ pc' \in [Chats -> PC] /\ cancel' \in [Chats -> BOOLEAN]
          /\ cause' \in [Chats -> Status \union {"none"}]
      <4>1. CASE pc' = [pc EXCEPT ![c] = "export"] /\ UNCHANGED <<cause, cancel>>
        BY <4>1 DEF TypeOK
      <4>2. ASSUME NEW s \in Status,
                   pc' = [pc EXCEPT ![c] = "recover"], cause' = [cause EXCEPT ![c] = s],
                   cancel' = [cancel EXCEPT ![c] = FALSE]
            PROVE  /\ pc' \in [Chats -> PC] /\ cancel' \in [Chats -> BOOLEAN]
                   /\ cause' \in [Chats -> Status \union {"none"}]
        BY <4>2 DEF TypeOK
      <4>. QED
        BY <2>0, <4>1, <4>2
    <3>4. /\ UNCHANGED <<known, md, answers, torn, lock, job, sweep, batch, mode, stops>>
          /\ durable' \in [Chats -> BOOLEAN] /\ retained' \subseteq Chats /\ faults' \in Nat
      BY <1>9 DEF Finish, Fault, TypeOK
    <3>. QED
      BY <3>2, <3>3, <3>4 DEF TypeOK
  <2>2. \A k \in Chats : Shape(k)'
    BY <1>9, <2>0, <2>k DEF Finish, Commit, TypeOK, Shape, Exporting
  <2>3. InJob'
    BY <1>9, <2>0, <2>k DEF Finish, Commit, TypeOK, Shape, InJob, Exporting
  <2>4. ResultKept'
    BY <1>9, <2>0, <2>k DEF Finish, Commit, TypeOK, Shape, ResultKept, Exporting
  <2>. QED
    BY <2>1, <2>2, <2>3, <2>4 DEF IInv
<1>10. CASE FinishFail(c)
  <2>0. PICK s \in Status : /\ pc' = [pc EXCEPT ![c] = "recover"]
                              /\ cause' = [cause EXCEPT ![c] = s]
                              /\ cancel' = [cancel EXCEPT ![c] = FALSE]
    BY <1>10, CaughtIs DEF FinishFail, Hit, Shielded, Shape
  <2>k. known[c] \in Status
    BY <1>10 DEF FinishFail, TypeOK, Shape
  <2>1. TypeOK'
    <3>1. Commit(c) \/ UNCHANGED dbVars
      BY <1>10 DEF FinishFail
    <3>2. /\ row' \in [Chats -> Status \union {"absent", "running"}]
          /\ out' \in [Chats -> Status \union {"none"}]
          /\ exported' \in [Chats -> BOOLEAN] /\ due' \in [Chats -> BOOLEAN]
          /\ tries' \in [Chats -> 0..2]
      BY <2>k, <3>1, CommitTypes
    <3>3. /\ pc' \in [Chats -> PC] /\ cancel' \in [Chats -> BOOLEAN]
          /\ cause' \in [Chats -> Status \union {"none"}]
      <4>1. \A st \in Status : [cause EXCEPT ![c] = st] \in [Chats -> Status \union {"none"}]
        BY DEF TypeOK
      <4>. QED
        BY <2>0, <4>1 DEF TypeOK
    <3>4. /\ UNCHANGED <<known, md, answers, torn, lock, job, sweep, batch, mode, stops>>
          /\ durable' \in [Chats -> BOOLEAN] /\ retained' \subseteq Chats /\ faults' \in Nat
      BY <1>10 DEF FinishFail, Fault, TypeOK
    <3>. QED
      BY <3>2, <3>3, <3>4 DEF TypeOK
  <2>2. \A k \in Chats : Shape(k)'
    BY <1>10, <2>0, <2>k DEF FinishFail, Fault, Commit, TypeOK, Shape, Exporting
  <2>3. InJob'
    BY <1>10, <2>0, <2>k DEF FinishFail, Fault, Commit, TypeOK, Shape, InJob, Exporting
  <2>4. ResultKept'
    BY <1>10, <2>0, <2>k DEF FinishFail, Fault, Commit, TypeOK, Shape, ResultKept, Exporting
  <2>. QED
    BY <2>1, <2>2, <2>3, <2>4 DEF IInv
<1>11. CASE ExportCancelled(c)
  <2>0. PICK s \in Status : /\ pc' = [pc EXCEPT ![c] = "recover"]
                              /\ cause' = [cause EXCEPT ![c] = s]
                              /\ cancel' = [cancel EXCEPT ![c] = FALSE]
    BY <1>11, CaughtIs DEF ExportCancelled, Hit, Shielded, Shape
  <2>1. TypeOK'
    BY <1>11, <2>0 DEF ExportCancelled, TypeOK
  <2>2. \A k \in Chats : Shape(k)'
    BY <1>11, <2>0 DEF ExportCancelled, TypeOK, Shape, Exporting
  <2>3. InJob'
    BY <1>11, <2>0 DEF ExportCancelled, TypeOK, Shape, InJob, Exporting
  <2>4. ResultKept'
    BY <1>11, <2>0 DEF ExportCancelled, TypeOK, Shape, ResultKept, Exporting
  <2>. QED
    BY <2>1, <2>2, <2>3, <2>4 DEF IInv
<1>12. CASE RecoverRow(c)
  <2>0. cause[c] \in Status
    BY <1>12 DEF RecoverRow, TypeOK, Shape
  <2>1. TypeOK'
    BY <1>12, <2>0 DEF RecoverRow, Lost, TypeOK
  <2>2. \A k \in Chats : Shape(k)'
    BY <1>12, <2>0 DEF RecoverRow, Lost, TypeOK, Shape, Exporting
  <2>3. InJob'
    BY <1>12, <2>0 DEF RecoverRow, Lost, TypeOK, Shape, InJob, Exporting
  <2>4. ResultKept'
    BY <1>12, <2>0 DEF RecoverRow, Lost, TypeOK, Shape, ResultKept, Exporting
  <2>. QED
    BY <2>1, <2>2, <2>3, <2>4 DEF IInv
<1>13. CASE RecoverFound(c)
  <2>1. TypeOK'
    BY <1>13 DEF RecoverFound, Lost, TypeOK
  <2>2. \A k \in Chats : Shape(k)'
    BY <1>13 DEF RecoverFound, Lost, TypeOK, Shape, Exporting
  <2>3. InJob'
    BY <1>13 DEF RecoverFound, Lost, TypeOK, Shape, InJob, Exporting
  <2>4. ResultKept'
    BY <1>13 DEF RecoverFound, Lost, TypeOK, Shape, ResultKept, Exporting
  <2>. QED
    BY <2>1, <2>2, <2>3, <2>4 DEF IInv
<1>14. CASE RecoverAbsent(c)
  <2>1. TypeOK'
    BY <1>14 DEF RecoverAbsent, Lost, TypeOK
  <2>2. \A k \in Chats : Shape(k)'
    BY <1>14 DEF RecoverAbsent, Lost, TypeOK, Shape, Exporting
  <2>3. InJob'
    BY <1>14 DEF RecoverAbsent, Lost, TypeOK, Shape, InJob, Exporting
  <2>4. ResultKept'
    BY <1>14 DEF RecoverAbsent, Lost, TypeOK, Shape, ResultKept, Exporting
  <2>. QED
    BY <2>1, <2>2, <2>3, <2>4 DEF IInv
<1>15. CASE Refinish(c)
  <2>0. known[c] \in Status
    BY <1>15 DEF Refinish, TypeOK, Shape
  <2>1. TypeOK'
    BY <1>15, <2>0 DEF Refinish, Commit, TypeOK
  <2>2. \A k \in Chats : Shape(k)'
    BY <1>15, <2>0 DEF Refinish, Commit, TypeOK, Shape, Exporting
  <2>3. InJob'
    BY <1>15, <2>0 DEF Refinish, Commit, TypeOK, Shape, InJob, Exporting
  <2>4. ResultKept'
    BY <1>15, <2>0 DEF Refinish, Commit, TypeOK, Shape, ResultKept, Exporting
  <2>. QED
    BY <2>1, <2>2, <2>3, <2>4 DEF IInv
<1>16. CASE RecoverFail(c)
  <2>1. TypeOK'
    BY <1>16 DEF RecoverFail, Fault, Lost, TypeOK
  <2>2. \A k \in Chats : Shape(k)'
    BY <1>16 DEF RecoverFail, Fault, Lost, TypeOK, Shape, Exporting
  <2>3. InJob'
    BY <1>16 DEF RecoverFail, Fault, Lost, TypeOK, Shape, InJob, Exporting
  <2>4. ResultKept'
    BY <1>16 DEF RecoverFail, Fault, Lost, TypeOK, Shape, ResultKept, Exporting
  <2>. QED
    BY <2>1, <2>2, <2>3, <2>4 DEF IInv
<1>17. CASE RefinishUnconfirmed(c)
  <2>0. known[c] \in Status
    BY <1>17 DEF RefinishUnconfirmed, TypeOK, Shape
  <2>1. TypeOK'
    BY <1>17, <2>0 DEF RefinishUnconfirmed, Fault, Commit, TypeOK
  <2>2. \A k \in Chats : Shape(k)'
    BY <1>17, <2>0 DEF RefinishUnconfirmed, Fault, Commit, TypeOK, Shape, Exporting
  <2>3. InJob'
    BY <1>17, <2>0 DEF RefinishUnconfirmed, Fault, Commit, TypeOK, Shape, InJob, Exporting
  <2>4. ResultKept'
    BY <1>17, <2>0 DEF RefinishUnconfirmed, Fault, Commit, TypeOK, Shape, ResultKept, Exporting
  <2>. QED
    BY <2>1, <2>2, <2>3, <2>4 DEF IInv
<1>18. CASE Acquire(c)
  <2>1. TypeOK'
    BY <1>18 DEF Acquire, Running, NoJob, TypeOK
  <2>2. \A k \in Chats : Shape(k)'
    BY <1>18 DEF Acquire, Running, NoJob, TypeOK, Shape, Exporting
  <2>3. InJob'
    BY <1>18 DEF Acquire, Running, NoJob, TypeOK, Shape, InJob, Exporting
  <2>4. ResultKept'
    BY <1>18 DEF Acquire, Running, NoJob, TypeOK, Shape, ResultKept, Exporting
  <2>. QED
    BY <2>1, <2>2, <2>3, <2>4 DEF IInv
<1>. QED
  BY <1>1, <1>2, <1>3, <1>4, <1>5, <1>6, <1>7, <1>8, <1>9, <1>10, <1>11, <1>12, <1>13, <1>14,
     <1>15, <1>16, <1>17, <1>18 DEF Handler

-----------------------------------------------------------------------------
(* The export in course changes the row of its own chat only.                  *)

JobOn ==
  /\ \E step \in {"check", "md", "append", "confirm", "note"}, write \in BOOLEAN :
       job' = [chat |-> job.chat, step |-> step, write |-> write]
  /\ UNCHANGED <<lock, pc, cause, cancel>>

LEMMA JobAtIsOn ==
  ASSUME TypeOK, NEW step \in {"check", "md", "append", "confirm", "note"}, JobAt(step)
  PROVE  JobOn
<1>1. job.write \in BOOLEAN
  BY DEF TypeOK
<1>2. job' = [chat |-> job.chat, step |-> step, write |-> job.write]
  BY DEF TypeOK, JobAt
<1>. QED
  BY <1>1, <1>2 DEF JobAt, JobOn

LEMMA Exports ==
  ASSUME IInv, lock # Free, JobOver \/ JobOn,
         UNCHANGED <<row, out, known, durable, retained, batch>>,
         \A c \in Chats : exported'[c] => exported[c] \/ c = job.chat
  PROVE  /\ pc' \in [Chats -> PC] /\ cancel' \in [Chats -> BOOLEAN]
         /\ cause' \in [Chats -> Status \union {"none"}]
         /\ lock' \in Chats \union {Sweep, Free}
         /\ job' \in [chat : Chats \union {Free}, write : BOOLEAN,
                      step : {"none", "check", "md", "append", "confirm", "note"}]
         /\ lock' = Free <=> job' = NoJob
         /\ \A c \in Chats : Shape(c)'
         /\ InJob' /\ ResultKept'
<1>. USE HoldersAssumption DEF IInv
<1>1. CASE JobOver
  <2>1. PICK p \in {"done", "recover"} :
          /\ \/ UNCHANGED <<pc, cause>>
             \/ lock \in Chats /\ pc' = [pc EXCEPT ![lock] = p] /\ UNCHANGED cause /\ p = "done"
             \/ /\ lock \in Chats /\ pc' = [pc EXCEPT ![lock] = p]
                /\ cause' = [cause EXCEPT ![lock] = "cancelled"]
          /\ \/ UNCHANGED cancel
             \/ cancel' = [cancel EXCEPT ![lock] = FALSE]
    BY <1>1 DEF JobOver
  <2>2. /\ pc' \in [Chats -> PC] /\ cancel' \in [Chats -> BOOLEAN]
        /\ cause' \in [Chats -> Status \union {"none"}]
    <3>1. CASE UNCHANGED <<pc, cause, cancel>>
      BY <3>1 DEF TypeOK
    <3>2. CASE /\ lock \in Chats /\ pc' = [pc EXCEPT ![lock] = "done"]
               /\ UNCHANGED <<cause, cancel>>
      BY <3>2 DEF TypeOK, PC
    <3>3. CASE /\ lock \in Chats /\ pc' = [pc EXCEPT ![lock] = "recover"]
               /\ cause' = [cause EXCEPT ![lock] = "cancelled"]
               /\ cancel' = [cancel EXCEPT ![lock] = FALSE]
      BY <3>3 DEF TypeOK, PC, Status
    <3>. QED
      BY <1>1, <3>1, <3>2, <3>3 DEF JobOver
  <2>3. lock' = Free /\ job' = NoJob
    BY <1>1 DEF JobOver
  <2>4. NoJob \in [chat : Chats \union {Free}, write : BOOLEAN,
                   step : {"none", "check", "md", "append", "confirm", "note"}]
    BY DEF NoJob
  <2>5. \A c \in Chats : Shape(c)'
    BY <2>1 DEF Shape, TypeOK, InJob, Exporting
  <2>6. InJob'
    BY <2>3 DEF InJob
  <2>7. ResultKept'
    BY <2>1 DEF ResultKept, Shape, TypeOK, InJob, Exporting
  <2>. QED
    BY <2>2, <2>3, <2>4, <2>5, <2>6, <2>7
<1>2. CASE JobOn
  <2>1. PICK step \in {"check", "md", "append", "confirm", "note"}, write \in BOOLEAN :
          job' = [chat |-> job.chat, step |-> step, write |-> write]
    BY <1>2 DEF JobOn
  <2>2. UNCHANGED <<lock, pc, cause, cancel>>
    BY <1>2 DEF JobOn
  <2>3. job' # NoJob
    BY <2>1 DEF NoJob
  <2>4. \A c \in Chats : Shape(c)'
    BY <2>2 DEF Shape, InJob
  <2>5. InJob'
    BY <2>1, <2>2 DEF InJob
  <2>6. ResultKept'
    BY <2>2 DEF ResultKept
  <2>. QED
    BY <2>1, <2>2, <2>3, <2>4, <2>5, <2>6 DEF TypeOK
<1>. QED
  BY <1>1, <1>2

LEMMA JobKeeps == ASSUME IInv, Job PROVE IInv'
<1>. USE HoldersAssumption DEF IInv, JobRest
<1>0. lock # Free
  BY DEF Job, JobCheck, JobMd, JobAppend, JobDiskFail, JobConfirm, JobConfirmFail, JobNote,
         JobNoteFail, TypeOK, NoJob
<1>k. job.chat \in Chats /\ out[job.chat] # "none"
  BY <1>0 DEF InJob
<1>1. CASE JobCheck
  <2>1. JobOver \/ JobOn
    <3>1. CASE exported[job.chat] \/ JobHit
      BY <1>1, <3>1, <1>0, JobEndsIs DEF JobCheck
    <3>2. CASE ~(exported[job.chat] \/ JobHit)
      BY <1>1, <3>2 DEF JobCheck, JobOn, TypeOK
    <3>. QED
      BY <3>1, <3>2
  <2>2. /\ UNCHANGED <<row, out, known, durable, retained, batch, sweep>>
        /\ \A c \in Chats : exported'[c] => exported[c] \/ c = job.chat
    BY <1>1 DEF JobCheck, dbVars, loopVars, TypeOK
  <2>3. /\ exported' \in [Chats -> BOOLEAN] /\ due' \in [Chats -> BOOLEAN]
        /\ tries' \in [Chats -> 0..2]
        /\ md' \in [Chats -> Status \union {"none"}]
        /\ answers' \in [Chats -> Nat] /\ torn' \in BOOLEAN
    BY <1>1 DEF JobCheck, dbVars, fileVars, TypeOK
  <2>4. UNCHANGED <<mode, stops>> /\ faults' \in Nat
    BY <1>1 DEF JobCheck, Fault, sysVars, TypeOK
  <2>. QED
    BY <1>0, <2>1, <2>2, <2>3, <2>4, Exports DEF TypeOK
<1>2. CASE JobMd
  <2>1. JobOver \/ JobOn
    BY <1>2, <1>0, JobGoesIs, JobAtIsOn DEF JobMd
  <2>2. /\ UNCHANGED <<row, out, known, durable, retained, batch, sweep>>
        /\ \A c \in Chats : exported'[c] => exported[c] \/ c = job.chat
    BY <1>2 DEF JobMd, dbVars, loopVars, TypeOK
  <2>3. /\ exported' \in [Chats -> BOOLEAN] /\ due' \in [Chats -> BOOLEAN]
        /\ tries' \in [Chats -> 0..2]
        /\ md' \in [Chats -> Status \union {"none"}]
        /\ answers' \in [Chats -> Nat] /\ torn' \in BOOLEAN
    BY <1>2 DEF JobMd, dbVars, fileVars, TypeOK
  <2>4. UNCHANGED <<mode, stops>> /\ faults' \in Nat
    BY <1>2 DEF JobMd, Fault, sysVars, TypeOK
  <2>. QED
    BY <1>0, <2>1, <2>2, <2>3, <2>4, Exports DEF TypeOK
<1>3. CASE JobAppend
  <2>1. JobOver \/ JobOn
    BY <1>3, <1>0, JobGoesIs, JobAtIsOn DEF JobAppend
  <2>2. /\ UNCHANGED <<row, out, known, durable, retained, batch, sweep>>
        /\ \A c \in Chats : exported'[c] => exported[c] \/ c = job.chat
    BY <1>3 DEF JobAppend, dbVars, loopVars, TypeOK
  <2>3. /\ exported' \in [Chats -> BOOLEAN] /\ due' \in [Chats -> BOOLEAN]
        /\ tries' \in [Chats -> 0..2]
        /\ md' \in [Chats -> Status \union {"none"}]
        /\ answers' \in [Chats -> Nat] /\ torn' \in BOOLEAN
    <3>1. [answers EXCEPT ![job.chat] = @ + 1] \in [Chats -> Nat]
      BY <1>k DEF TypeOK
    <3>2. answers' \in [Chats -> Nat] /\ torn' \in BOOLEAN /\ UNCHANGED md
      BY <1>3, <3>1 DEF JobAppend, TypeOK
    <3>. QED
      BY <1>3, <3>2 DEF JobAppend, dbVars, TypeOK
  <2>4. UNCHANGED <<mode, stops>> /\ faults' \in Nat
    BY <1>3 DEF JobAppend, Fault, sysVars, TypeOK
  <2>. QED
    BY <1>0, <2>1, <2>2, <2>3, <2>4, Exports DEF TypeOK
<1>4. CASE JobDiskFail
  <2>1. JobOver \/ JobOn
    BY <1>4, <1>0, JobGoesIs, JobAtIsOn DEF JobDiskFail
  <2>2. /\ UNCHANGED <<row, out, known, durable, retained, batch, sweep>>
        /\ \A c \in Chats : exported'[c] => exported[c] \/ c = job.chat
    BY <1>4 DEF JobDiskFail, dbVars, loopVars, TypeOK
  <2>3. /\ exported' \in [Chats -> BOOLEAN] /\ due' \in [Chats -> BOOLEAN]
        /\ tries' \in [Chats -> 0..2]
        /\ md' \in [Chats -> Status \union {"none"}]
        /\ answers' \in [Chats -> Nat] /\ torn' \in BOOLEAN
    BY <1>4 DEF JobDiskFail, dbVars, fileVars, TypeOK
  <2>4. UNCHANGED <<mode, stops>> /\ faults' \in Nat
    BY <1>4 DEF JobDiskFail, Fault, sysVars, TypeOK
  <2>. QED
    BY <1>0, <2>1, <2>2, <2>3, <2>4, Exports DEF TypeOK
<1>5. CASE JobConfirm
  <2>1. JobOver \/ JobOn
    BY <1>5, <1>0, JobEndsIs DEF JobConfirm
  <2>2. /\ UNCHANGED <<row, out, known, durable, retained, batch, sweep>>
        /\ \A c \in Chats : exported'[c] => exported[c] \/ c = job.chat
    BY <1>5 DEF JobConfirm, dbVars, loopVars, TypeOK
  <2>3. /\ exported' \in [Chats -> BOOLEAN] /\ due' \in [Chats -> BOOLEAN]
        /\ tries' \in [Chats -> 0..2]
        /\ md' \in [Chats -> Status \union {"none"}]
        /\ answers' \in [Chats -> Nat] /\ torn' \in BOOLEAN
    BY <1>5 DEF JobConfirm, dbVars, fileVars, TypeOK
  <2>4. UNCHANGED <<mode, stops>> /\ faults' \in Nat
    BY <1>5 DEF JobConfirm, Fault, sysVars, TypeOK
  <2>. QED
    BY <1>0, <2>1, <2>2, <2>3, <2>4, Exports DEF TypeOK
<1>6. CASE JobConfirmFail
  <2>1. JobOver \/ JobOn
    BY <1>6, <1>0, JobGoesIs, JobAtIsOn DEF JobConfirmFail
  <2>2. /\ UNCHANGED <<row, out, known, durable, retained, batch, sweep>>
        /\ \A c \in Chats : exported'[c] => exported[c] \/ c = job.chat
    BY <1>6 DEF JobConfirmFail, dbVars, loopVars, TypeOK
  <2>3. /\ exported' \in [Chats -> BOOLEAN] /\ due' \in [Chats -> BOOLEAN]
        /\ tries' \in [Chats -> 0..2]
        /\ md' \in [Chats -> Status \union {"none"}]
        /\ answers' \in [Chats -> Nat] /\ torn' \in BOOLEAN
    BY <1>6 DEF JobConfirmFail, dbVars, fileVars, TypeOK
  <2>4. UNCHANGED <<mode, stops>> /\ faults' \in Nat
    BY <1>6 DEF JobConfirmFail, Fault, sysVars, TypeOK
  <2>. QED
    BY <1>0, <2>1, <2>2, <2>3, <2>4, Exports DEF TypeOK
<1>7. CASE JobNote
  <2>1. JobOver \/ JobOn
    BY <1>7, <1>0, JobEndsIs DEF JobNote
  <2>2. /\ UNCHANGED <<row, out, known, durable, retained, batch, sweep>>
        /\ \A c \in Chats : exported'[c] => exported[c] \/ c = job.chat
    BY <1>7 DEF JobNote, dbVars, loopVars, TypeOK
  <2>3. /\ exported' \in [Chats -> BOOLEAN] /\ due' \in [Chats -> BOOLEAN]
        /\ tries' \in [Chats -> 0..2]
        /\ md' \in [Chats -> Status \union {"none"}]
        /\ answers' \in [Chats -> Nat] /\ torn' \in BOOLEAN
    <3>1. \A b \in BOOLEAN : [due EXCEPT ![job.chat] = b] \in [Chats -> BOOLEAN]
      BY DEF TypeOK
    <3>2. (tries[job.chat] = 0) \in BOOLEAN
      BY Zenon
    <3>3. due' = [due EXCEPT ![job.chat] = (tries[job.chat] = 0)]
      BY <1>7, Zenon DEF JobNote
    <3>5. due' \in [Chats -> BOOLEAN]
      BY <3>1, <3>2, <3>3, Zenon
    <3>4. tries' \in [Chats -> 0..2]
      <4>1. \A v \in 0..2 : [tries EXCEPT ![job.chat] = v] \in [Chats -> 0..2]
        BY DEF TypeOK
      <4>2. tries' = [tries EXCEPT ![job.chat] = IF tries[job.chat] = 0 THEN 1 ELSE 2]
        BY <1>7 DEF JobNote
      <4>. QED
        BY <4>1, <4>2
    <3>. QED
      BY <1>7, <3>4, <3>5 DEF JobNote, fileVars, TypeOK
  <2>4. UNCHANGED <<mode, stops>> /\ faults' \in Nat
    BY <1>7 DEF JobNote, Fault, sysVars, TypeOK
  <2>. QED
    BY <1>0, <2>1, <2>2, <2>3, <2>4, Exports DEF TypeOK
<1>8. CASE JobNoteFail
  <2>1. JobOver \/ JobOn
    BY <1>8, <1>0, JobEndsIs DEF JobNoteFail
  <2>2. /\ UNCHANGED <<row, out, known, durable, retained, batch, sweep>>
        /\ \A c \in Chats : exported'[c] => exported[c] \/ c = job.chat
    BY <1>8 DEF JobNoteFail, dbVars, loopVars, TypeOK
  <2>3. /\ exported' \in [Chats -> BOOLEAN] /\ due' \in [Chats -> BOOLEAN]
        /\ tries' \in [Chats -> 0..2]
        /\ md' \in [Chats -> Status \union {"none"}]
        /\ answers' \in [Chats -> Nat] /\ torn' \in BOOLEAN
    BY <1>8 DEF JobNoteFail, dbVars, fileVars, TypeOK
  <2>4. UNCHANGED <<mode, stops>> /\ faults' \in Nat
    BY <1>8 DEF JobNoteFail, Fault, sysVars, TypeOK
  <2>. QED
    BY <1>0, <2>1, <2>2, <2>3, <2>4, Exports DEF TypeOK
<1>. QED
  BY <1>1, <1>2, <1>3, <1>4, <1>5, <1>6, <1>7, <1>8 DEF Job

-----------------------------------------------------------------------------
(* The retry loop and the process.                                             *)

LEMMA ProcessKeeps == ASSUME IInv, Loop \/ Process PROVE IInv'
<1>. USE HoldersAssumption DEF dbVars, fileVars, runVars, lockVars, loopVars, sysVars,
                              IInv, PC, Status
<1>1. CASE SweepRead
  <2>1. TypeOK'
    BY <1>1 DEF SweepRead, Sweeping, NoJob, TypeOK
  <2>2. \A k \in Chats : Shape(k)'
    BY <1>1 DEF SweepRead, Sweeping, TypeOK, Shape, Exporting
  <2>3. InJob'
    BY <1>1 DEF SweepRead, Sweeping, NoJob, TypeOK, Shape, InJob, Exporting
  <2>4. ResultKept'
    BY <1>1 DEF SweepRead, Sweeping, TypeOK, Shape, ResultKept
  <2>. QED
    BY <2>1, <2>2, <2>3, <2>4
<1>2. CASE SweepTake
  <2>1. TypeOK'
    <3>1. PICK c \in batch : /\ batch' = batch \ {c} /\ lock' = Sweep
                            /\ job' = [chat |-> c, step |-> "check", write |-> FALSE]
      BY <1>2 DEF SweepTake
    <3>2. c \in Chats /\ job' # NoJob
      BY <3>1 DEF NoJob, TypeOK
    <3>3. /\ job' \in [chat : Chats \union {Free}, write : BOOLEAN,
                      step : {"none", "check", "md", "append", "confirm", "note"}]
          /\ lock' \in Chats \union {Sweep, Free} /\ lock' # Free
          /\ batch' \subseteq Chats
      BY <3>1, <3>2 DEF TypeOK, Sweep, Free
    <3>. QED
      BY <1>2, <3>2, <3>3 DEF SweepTake, TypeOK, dbVars, fileVars, runVars, sysVars
  <2>2. \A k \in Chats : Shape(k)'
    BY <1>2 DEF SweepTake, Sweeping, TypeOK, Shape, Exporting
  <2>3. InJob'
    BY <1>2 DEF SweepTake, Sweeping, NoJob, TypeOK, Shape, InJob, Exporting
  <2>4. ResultKept'
    BY <1>2 DEF SweepTake, Sweeping, TypeOK, Shape, ResultKept
  <2>. QED
    BY <2>1, <2>2, <2>3, <2>4
<1>3. CASE SweepEnd
  <2>1. TypeOK'
    BY <1>3 DEF SweepEnd, Sweeping, NoJob, TypeOK
  <2>2. \A k \in Chats : Shape(k)'
    BY <1>3 DEF SweepEnd, Sweeping, TypeOK, Shape, Exporting
  <2>3. InJob'
    BY <1>3 DEF SweepEnd, Sweeping, NoJob, TypeOK, Shape, InJob, Exporting
  <2>4. ResultKept'
    BY <1>3 DEF SweepEnd, Sweeping, TypeOK, Shape, ResultKept
  <2>. QED
    BY <2>1, <2>2, <2>3, <2>4
<1>4. CASE Reap
  <2>1. TypeOK'
    BY <1>4 DEF Reap, NoJob, TypeOK
  <2>2. \A k \in Chats : Shape(k)'
    BY <1>4 DEF Reap, TypeOK, Shape, Exporting
  <2>3. InJob'
    BY <1>4 DEF Reap, NoJob, TypeOK, Shape, InJob, Exporting
  <2>4. ResultKept'
    BY <1>4 DEF Reap, TypeOK, Shape, ResultKept
  <2>. QED
    BY <2>1, <2>2, <2>3, <2>4
<1>5. CASE Shutdown
  <2>1. TypeOK'
    BY <1>5 DEF Shutdown, NoJob, TypeOK
  <2>2. \A k \in Chats : Shape(k)'
    BY <1>5 DEF Shutdown, TypeOK, Shape, Exporting
  <2>3. InJob'
    BY <1>5 DEF Shutdown, NoJob, TypeOK, Shape, InJob, Exporting
  <2>4. ResultKept'
    BY <1>5 DEF Shutdown, TypeOK, Shape, ResultKept
  <2>. QED
    BY <2>1, <2>2, <2>3, <2>4
<1>6. CASE SweepStop
  <2>1. TypeOK'
    BY <1>6 DEF SweepStop, NoJob, TypeOK
  <2>2. \A k \in Chats : Shape(k)'
    BY <1>6 DEF SweepStop, TypeOK, Shape, Exporting
  <2>3. InJob'
    BY <1>6 DEF SweepStop, NoJob, TypeOK, Shape, InJob, Exporting
  <2>4. ResultKept'
    BY <1>6 DEF SweepStop, TypeOK, Shape, ResultKept
  <2>. QED
    BY <2>1, <2>2, <2>3, <2>4
<1>7. CASE Crash
  <2>1. TypeOK'
    <3>1. torn' \in BOOLEAN
      <4>1. (torn \/ ("torn" \in Troubles /\ job.step = "append")) \in BOOLEAN
        BY Zenon
      <4>. QED
        BY <1>7, <4>1 DEF Crash, Exit, TypeOK
    <3>2. stops' \in Nat /\ mode' = "down"
      BY <1>7 DEF Crash, Exit, TypeOK
    <3>. QED
      BY <1>7, <3>1, <3>2 DEF Crash, Exit, Leave, NoJob, TypeOK, dbVars
  <2>2. \A k \in Chats : Shape(k)'
    BY <1>7 DEF Crash, Exit, Leave, TypeOK, Shape, Exporting
  <2>3. InJob'
    BY <1>7 DEF Crash, Exit, Leave, NoJob, TypeOK, Shape, InJob, Exporting
  <2>4. ResultKept'
    BY <1>7 DEF Crash, Exit, Leave, TypeOK, Shape, ResultKept
  <2>. QED
    BY <2>1, <2>2, <2>3, <2>4
<1>8. CASE Drained
  <2>1. TypeOK'
    BY <1>8 DEF Drained, Exit, Leave, NoJob, TypeOK
  <2>2. \A k \in Chats : Shape(k)'
    BY <1>8 DEF Drained, Exit, Leave, TypeOK, Shape, Exporting
  <2>3. InJob'
    BY <1>8 DEF Drained, Exit, Leave, NoJob, TypeOK, Shape, InJob, Exporting
  <2>4. ResultKept'
    BY <1>8 DEF Drained, Exit, Leave, TypeOK, Shape, ResultKept
  <2>. QED
    BY <2>1, <2>2, <2>3, <2>4
<1>9. CASE Boot
  <2>1. TypeOK'
    BY <1>9 DEF Boot, NoJob, TypeOK
  <2>2. \A k \in Chats : Shape(k)'
    BY <1>9 DEF Boot, TypeOK, Shape, Exporting
  <2>3. InJob'
    BY <1>9 DEF Boot, NoJob, TypeOK, Shape, InJob, Exporting
  <2>4. ResultKept'
    BY <1>9 DEF Boot, TypeOK, Shape, ResultKept
  <2>. QED
    BY <2>1, <2>2, <2>3, <2>4
<1>. QED
  BY <1>1, <1>2, <1>3, <1>4, <1>5, <1>6, <1>7, <1>8, <1>9 DEF Loop, Process

-----------------------------------------------------------------------------
(* The inductive invariant, and what follows from it.                          *)

LEMMA Initially == Init => IInv
<1>. SUFFICES ASSUME Init PROVE IInv
  OBVIOUS
<1>1. TypeOK
  <2>1. NoJob \in [chat : Chats \union {Free}, write : BOOLEAN,
                   step : {"none", "check", "md", "append", "confirm", "note"}]
    BY DEF NoJob
  <2>2. /\ row \in [Chats -> Status \union {"absent", "running"}]
        /\ out \in [Chats -> Status \union {"none"}]
        /\ md \in [Chats -> Status \union {"none"}]
        /\ known \in [Chats -> Status \union {"none"}]
        /\ cause \in [Chats -> Status \union {"none"}]
        /\ pc \in [Chats -> PC]
    BY DEF Init, Status, PC
  <2>3. /\ exported \in [Chats -> BOOLEAN] /\ due \in [Chats -> BOOLEAN]
        /\ durable \in [Chats -> BOOLEAN] /\ cancel \in [Chats -> BOOLEAN]
        /\ tries \in [Chats -> 0..2] /\ answers \in [Chats -> Nat]
    BY DEF Init
  <2>4. /\ torn \in BOOLEAN /\ retained \subseteq Chats /\ batch \subseteq Chats
        /\ lock = Free /\ job = NoJob
        /\ sweep = "idle" /\ mode = "boot" /\ faults = 0 /\ stops = 0
    BY DEF Init
  <2>. QED
    BY <2>1, <2>2, <2>3, <2>4 DEF TypeOK
<1>2. \A c \in Chats : Shape(c)
  BY DEF Init, Shape, Exporting
<1>3. InJob /\ ResultKept
  BY HoldersAssumption DEF Init, InJob, ResultKept
<1>. QED
  BY <1>1, <1>2, <1>3 DEF IInv

LEMMA Inductive == IInv /\ [Next]_vars => IInv'
<1>. SUFFICES ASSUME IInv, [Next]_vars PROVE IInv'
  OBVIOUS
<1>1. CASE Next
  BY <1>1, HandlerKeeps, JobKeeps, ProcessKeeps DEF Next
<1>2. CASE UNCHANGED vars
  BY <1>2 DEF vars, dbVars, fileVars, runVars, lockVars, loopVars, sysVars,
              IInv, TypeOK, Shape, InJob, ResultKept
<1>. QED
  BY <1>1, <1>2

\* The inductive invariant holds in every reachable state, whatever set of runs, of failures and
\* of ends of the process there is.
THEOREM Invariance == Spec => []IInv
BY Initially, Inductive, PTL DEF Spec

\* Rows, payloads, files, checkpoints, the lock and the export under it have their types.
THEOREM TypeCorrect == Spec => []TypeOK
<1>1. IInv => TypeOK
  BY DEF IInv
<1>. QED
  BY <1>1, Invariance, PTL

\* However a run ends, what its model produced is saved or, where the database does not answer,
\* retained in memory (_recover_result, _retained_node_results).
THEOREM ResultKeptHolds == Spec => []ResultKept
<1>1. IInv => ResultKept
  BY DEF IInv
<1>. QED
  BY <1>1, Invariance, PTL

-----------------------------------------------------------------------------
(* A saved result is final.                                                    *)

LEMMA OutSticks ==
  ASSUME IInv, [Next]_vars
  PROVE  \A c \in Chats : out[c] # "none" => out'[c] = out[c]
<1>. USE DEF IInv, At, Commit
<1>1. ASSUME NEW c \in Chats, Start(c) \/ Cancel(c) \/ CancelZombie(c) \/ Elapse(c) \/ Handler(c)
      PROVE  out' = out \/ (out[c] = "none" /\ \A k \in Chats \ {c} : out'[k] = out[k])
  <2>1. CASE Finish(c) \/ FinishFail(c)
    BY <2>1 DEF Finish, FinishFail, Shape, TypeOK, dbVars
  <2>2. CASE Refinish(c) \/ RefinishUnconfirmed(c)
    BY <2>2 DEF Refinish, RefinishUnconfirmed, Shape, TypeOK
  <2>3. CASE Start(c) \/ Cancel(c) \/ CancelZombie(c) \/ Elapse(c)
    BY <2>3 DEF Start, Cancel, CancelZombie, Elapse, dbVars
  <2>. QED
    BY <1>1, <2>1, <2>2, <2>3
       DEF Handler, Result, NoResult, Close, CloseFail, ExportCancelled, RecoverRow, RecoverFound,
           RecoverAbsent, RecoverFail, Acquire, dbVars
<1>2. CASE Job
  BY <1>2 DEF Job, JobCheck, JobMd, JobAppend, JobDiskFail, JobConfirm, JobConfirmFail, JobNote,
              JobNoteFail, dbVars
<1>3. CASE Loop \/ Process
  BY <1>3 DEF Loop, SweepRead, SweepTake, SweepEnd, Process, Reap, Shutdown, SweepStop, Crash,
              Drained, Boot, Exit, dbVars
<1>4. CASE UNCHANGED vars
  BY <1>4 DEF vars, dbVars
<1>. QED
  BY <1>1, <1>2, <1>3, <1>4 DEF Next

\* A result that was saved is never replaced, nor the state of its row, through failures,
\* cancellations, recoveries and restarts (finish_chat, _recover_result, retry_pending).
THEOREM DurableSticksHolds == Spec => DurableSticks
<1>1. IInv /\ [Next]_vars =>
        [\A c \in Chats : out[c] # "none" => out'[c] = out[c] /\ row'[c] = out[c]]_vars
  <2>. SUFFICES ASSUME IInv, [Next]_vars, NEW c \in Chats, out[c] # "none"
                PROVE  out'[c] = out[c] /\ row'[c] = out[c]
    OBVIOUS
  <2>1. out'[c] = out[c]
    BY OutSticks
  <2>2. Shape(c)'
    BY Inductive DEF IInv
  <2>. QED
    BY <2>1, <2>2 DEF Shape
<1>. QED
  BY <1>1, Invariance, PTL DEF Spec, DurableSticks

-----------------------------------------------------------------------------
(* Exported means written, where no line is cut half way.                      *)

Written(c) == c \in Silent \/ answers[c] > 0

\* What an export has done at each of its steps, and what an exported chat has.
Whole ==
  /\ torn = FALSE
  /\ \A c \in Chats : exported[c] => md[c] = out[c] /\ Written(c)
  /\ job.step \in {"append", "confirm"} => md[job.chat] = out[job.chat]
  /\ job.step \in {"md", "append"} => job.write \/ Written(job.chat)
  /\ job.step = "confirm" => Written(job.chat)

LEMMA FilesKept ==
  ASSUME IInv, Whole, [Next]_vars, UNCHANGED fileVars,
         job' = job \/ job'.step \in {"none", "check", "note"},
         \A c \in Chats : exported'[c] => exported[c]
  PROVE  Whole'
<1>1. \A c \in Chats : out[c] # "none" => out'[c] = out[c]
  BY OutSticks
<1>2. \A c \in Chats : exported[c] => out[c] # "none"
  BY DEF IInv, Shape
<1>3. job.step # "none" => job.chat \in Chats /\ out[job.chat] # "none"
  BY DEF IInv, InJob, TypeOK, NoJob
<1>. QED
  BY <1>1, <1>2, <1>3 DEF Whole, Written, fileVars

LEMMA WholeStep ==
  ASSUME "torn" \notin Troubles, IInv, Whole, [Next]_vars
  PROVE  Whole'
<1>. USE DEF IInv
<1>1. CASE \E c \in Chats : Start(c) \/ Cancel(c) \/ CancelZombie(c) \/ Elapse(c) \/ Handler(c)
  <2>. PICK c \in Chats : Start(c) \/ Cancel(c) \/ CancelZombie(c) \/ Elapse(c) \/ Handler(c)
    BY <1>1
  <2>1. UNCHANGED fileVars
    BY DEF Start, Cancel, CancelZombie, Elapse, Handler, Result, NoResult, Close, CloseFail,
           Finish,
           FinishFail, ExportCancelled, RecoverRow, RecoverFound, RecoverAbsent, Refinish,
           RecoverFail, RefinishUnconfirmed, Acquire
  <2>2. job' = job \/ job'.step \in {"none", "check", "note"}
    BY DEF Start, Cancel, CancelZombie, Elapse, Handler, Result, NoResult, Close, CloseFail,
           Finish,
           FinishFail, ExportCancelled, RecoverRow, RecoverFound, RecoverAbsent, Refinish,
           RecoverFail, RefinishUnconfirmed, Acquire, lockVars
  <2>3. \A k \in Chats : exported'[k] => exported[k]
    BY DEF Start, Cancel, CancelZombie, Elapse, Handler, Result, NoResult, Close, CloseFail,
           Finish,
           FinishFail, ExportCancelled, RecoverRow, RecoverFound, RecoverAbsent, Refinish,
           RecoverFail, RefinishUnconfirmed, Acquire, Commit, dbVars, TypeOK
  <2>. QED
    BY <2>1, <2>2, <2>3, FilesKept
<1>2. CASE Job
  <2>0. lock # Free
    BY <1>2 DEF Job, JobCheck, JobMd, JobAppend, JobDiskFail, JobConfirm, JobConfirmFail,
           JobNote,
                JobNoteFail, TypeOK, NoJob
  <2>k. job.chat \in Chats /\ out[job.chat] # "none"
    BY <2>0 DEF InJob
  <2>1. CASE JobCheck
    <3>1. UNCHANGED <<dbVars, fileVars>>
      BY <2>1 DEF JobCheck
    <3>2. \/ job' = NoJob
          \/ job' = [job EXCEPT !.step = "md",
                       !.write = job.chat \notin Silent /\ (Retry => answers[job.chat] = 0)]
      BY <2>0, <2>1, JobEndsIs DEF JobCheck, JobOver
    <3>3. CASE job' = NoJob
      BY <3>1, <3>3, FilesKept DEF NoJob, dbVars
    <3>4. CASE job' = [job EXCEPT !.step = "md",
                         !.write = job.chat \notin Silent /\ (Retry => answers[job.chat] = 0)]
      <4>1. job'.step = "md" /\ job'.chat = job.chat
        BY <3>4 DEF TypeOK
      <4>2. job'.write = (job.chat \notin Silent /\ (Retry => answers[job.chat] = 0))
        BY <3>4 DEF TypeOK
      <4>3. job'.write \/ Written(job.chat)
        <5>1. answers[job.chat] = 0 \/ answers[job.chat] > 0
          BY <2>k DEF TypeOK
        <5>. QED
          BY <4>2, <5>1, Zenon DEF Written
      <4>. QED
        BY <3>1, <4>1, <4>3 DEF Whole, Written, dbVars, fileVars
    <3>. QED
      BY <3>2, <3>3, <3>4
  <2>2. CASE JobMd
    <3>1. JobOver \/ JobAt(IF job.write THEN "append" ELSE "confirm")
      BY <2>0, <2>2, JobGoesIs DEF JobMd
    <3>2. /\ md' = [md EXCEPT ![job.chat] = out[job.chat]]
          /\ UNCHANGED <<dbVars, answers, torn>>
      BY <2>2 DEF JobMd
    <3>3. \A c \in Chats : md[c] = out[c] => md'[c] = out'[c]
      BY <3>2 DEF TypeOK, dbVars
    <3>4. CASE JobOver
      BY <3>2, <3>3, <3>4 DEF Whole, Written, JobOver, NoJob, dbVars
    <3>5. CASE JobAt(IF job.write THEN "append" ELSE "confirm")
      <4>1. /\ job'.chat = job.chat /\ job'.write = job.write
            /\ job'.step = IF job.write THEN "append" ELSE "confirm"
        BY <3>5 DEF JobAt, TypeOK
      <4>2. md'[job.chat] = out'[job.chat]
        BY <2>k, <3>2 DEF TypeOK, dbVars
      <4>. QED
        BY <2>2, <3>2, <3>3, <4>1, <4>2 DEF JobMd, Whole, Written, dbVars
    <3>. QED
      BY <3>1, <3>4, <3>5
  <2>3. CASE JobAppend
    <3>1. JobOver \/ JobAt("confirm")
      BY <2>0, <2>3, JobGoesIs DEF JobAppend
    <3>2. /\ answers' = [answers EXCEPT ![job.chat] = @ + 1] /\ torn' = FALSE
          /\ UNCHANGED <<dbVars, md>>
      BY <2>3 DEF JobAppend, Whole
    <3>3. /\ \A c \in Chats : Written(c) => Written(c)'
          /\ md[job.chat] = out[job.chat]
      <4>1. answers'[job.chat] > 0 /\ \A c \in Chats : answers[c] > 0 => answers'[c] > 0
        BY <2>k, <3>2 DEF TypeOK
      <4>. QED
        BY <2>3, <4>1 DEF Written, Whole, JobAppend
    <3>0. answers'[job.chat] > 0
      BY <2>k, <3>2 DEF TypeOK
    <3>4. CASE JobOver
      BY <3>2, <3>3, <3>4 DEF Whole, JobOver, NoJob, dbVars
    <3>5. CASE JobAt("confirm")
      <4>1. job'.chat = job.chat /\ job'.step = "confirm"
        BY <3>5 DEF JobAt, TypeOK
      <4>. QED
        BY <3>0, <3>2, <3>3, <4>1 DEF Whole, Written, dbVars
    <3>. QED
      BY <3>1, <3>4, <3>5
  <2>4. CASE JobDiskFail \/ JobNote \/ JobNoteFail
    <3>1. JobOver \/ JobAt("note")
      BY <2>0, <2>4, JobGoesIs, JobEndsIs DEF JobDiskFail, JobNote, JobNoteFail
    <3>2. job'.step \in {"none", "note"}
      BY <3>1 DEF JobOver, JobAt, NoJob, TypeOK
    <3>3. UNCHANGED <<row, out, exported>> /\ UNCHANGED fileVars
      BY <2>4 DEF JobDiskFail, JobNote, JobNoteFail, dbVars, fileVars, Whole
    <3>. QED
      BY <3>2, <3>3, FilesKept
  <2>5. CASE JobConfirm \/ JobConfirmFail
    <3>1. JobOver \/ JobAt("note")
      BY <2>0, <2>5, JobGoesIs, JobEndsIs DEF JobConfirm, JobConfirmFail
    <3>2. job'.step \in {"none", "note"}
      BY <3>1 DEF JobOver, JobAt, NoJob, TypeOK
    <3>3. /\ \A c \in Chats : exported'[c] => exported[c] \/ c = job.chat
          /\ UNCHANGED <<row, out>> /\ UNCHANGED fileVars
      BY <2>5 DEF JobConfirm, JobConfirmFail, TypeOK
    <3>4. job.step = "confirm"
      BY <2>5 DEF JobConfirm, JobConfirmFail
    <3>. QED
      BY <3>2, <3>3, <3>4 DEF Whole, Written, fileVars
  <2>. QED
    BY <1>2, <2>1, <2>2, <2>3, <2>4, <2>5 DEF Job
<1>3. CASE Loop \/ Process
  <2>1. UNCHANGED fileVars
    BY <1>3 DEF Loop, SweepRead, SweepTake, SweepEnd, Process, Reap, Shutdown, SweepStop, Crash,
                Drained, Boot, Exit, fileVars, Whole
  <2>2. UNCHANGED exported
    BY <1>3 DEF Loop, SweepRead, SweepTake, SweepEnd, Process, Reap, Shutdown, SweepStop, Crash,
                Drained, Boot, Exit, dbVars
  <2>3. job' = job \/ job'.step \in {"none", "check", "note"}
    BY <1>3 DEF Loop, SweepRead, SweepTake, SweepEnd, Process, Reap, Shutdown, SweepStop, Crash,
                Drained, Boot, Exit, Leave, NoJob, lockVars
  <2>. QED
    BY <2>1, <2>2, <2>3, FilesKept
<1>4. CASE UNCHANGED vars
  BY <1>4, FilesKept DEF vars, dbVars, fileVars, lockVars
<1>. QED
  BY <1>1, <1>2, <1>3, <1>4 DEF Next

\* "Resultado durable primero": whatever the disk, the database and the process do in between,
\* an exported chat has its saved result in both files.  (A line cut half way is the exception.)
THEOREM ExportedIsCompleteHolds ==
  ASSUME "torn" \notin Troubles
  PROVE  Spec => []ExportedIsComplete
<1>1. Init => Whole
  BY DEF Init, Whole, NoJob
<1>2. IInv /\ Whole /\ [Next]_vars => Whole'
  BY WholeStep
<1>3. IInv /\ Whole => ExportedIsComplete
  BY DEF IInv, Shape, Whole, Written, ExportedIsComplete
<1>. QED
  BY <1>1, <1>2, <1>3, Invariance, PTL DEF Spec

-----------------------------------------------------------------------------
(* One answer, where operations do not fail and the process is not closed in    *)
(* order: then an append is confirmed under the same lock, and a handler that    *)
(* was cut after its own never exports again.                                    *)

Told(c) ==
  /\ answers[c] \in {0, 1}
  /\ out[c] = "none" => answers[c] = 0
  /\ pc[c] \in {"export", "export2"} => durable[c]
  /\ pc[c] = "recover" => durable[c] \/ out[c] = "none"
  /\ pc[c] # "reexport"
  /\ answers[c] = 1 => \/ exported[c] \/ pc[c] = "done" \/ (pc[c] = "recover" /\ durable[c])
                       \/ (job.chat = c /\ job.step = "confirm")

Once ==
  /\ \A c \in Chats : Told(c)
  /\ job.step \in {"md", "append"} /\ job.write => answers[job.chat] = 0
  /\ job.step = "append" => job.write
  /\ job.step # "note" /\ mode \notin {"closing", "draining"}

LEMMA OnceStep ==
  ASSUME Troubles \subseteq {"cancel", "crash"}, IInv, Once, [Next]_vars
  PROVE  Once'
<1>. USE HoldersAssumption DEF IInv
<1>0. ~Fault
  BY DEF Fault
<1>1. CASE \E c \in Chats : Start(c) \/ Cancel(c) \/ CancelZombie(c) \/ Elapse(c) \/ Handler(c)
  <2>. PICK c \in Chats : Start(c) \/ Cancel(c) \/ CancelZombie(c) \/ Elapse(c) \/ Handler(c)
    BY <1>1
  <2>1. UNCHANGED <<fileVars, mode>>
    BY <1>0 DEF Start, Cancel, CancelZombie, Elapse, Handler, Result, NoResult, Close,
           CloseFail,
           Finish, FinishFail, ExportCancelled, RecoverRow, RecoverFound, RecoverAbsent, Refinish,
           RecoverFail, RefinishUnconfirmed, Acquire, sysVars
  <2>2. job' = job \/ (lock = Free /\ job'.step = "check")
    BY <1>0 DEF Start, Cancel, CancelZombie, Elapse, Handler, Result, NoResult, Close,
           CloseFail,
           Finish, FinishFail, ExportCancelled, RecoverRow, RecoverFound, RecoverAbsent, Refinish,
           RecoverFail, RefinishUnconfirmed, Acquire, lockVars
  <2>3. \A k \in Chats \ {c} : Told(k)'
    <3>1. \A k \in Chats \ {c} : /\ pc'[k] = pc[k] /\ durable'[k] = durable[k]
                                 /\ out'[k] = out[k] /\ exported'[k] = exported[k]
      BY <1>0 DEF Start, Cancel, CancelZombie, Elapse, Handler, Result, NoResult, Close,
             CloseFail,
           Finish, FinishFail, ExportCancelled, RecoverRow, RecoverFound, RecoverAbsent, Refinish,
           RecoverFail, RefinishUnconfirmed, Acquire, Caught, To, Commit, dbVars, runVars, TypeOK
    <3>. QED
      BY <2>1, <2>2, <3>1 DEF Once, Told, fileVars, TypeOK, NoJob
  <2>4. Told(c)'
    <3>. USE <2>1, <2>2 DEF Once, Told, At, To, fileVars
    <3>1. CASE Finish(c) \/ Refinish(c)
      BY <3>1 DEF Finish, Refinish, Commit, Caught, Shape, TypeOK
    <3>2. CASE NoResult(c) \/ CloseFail(c) \/ ExportCancelled(c)
      BY <3>2 DEF NoResult, CloseFail, ExportCancelled, Caught, Shape, TypeOK, dbVars, lockVars
    <3>3. CASE RecoverRow(c) \/ RecoverAbsent(c) \/ RecoverFound(c)
      BY <3>3 DEF RecoverRow, RecoverAbsent, RecoverFound, Lost, Shape, TypeOK, dbVars, lockVars
    <3>4. CASE Start(c) \/ Cancel(c) \/ CancelZombie(c) \/ Elapse(c) \/ Result(c) \/ Close(c)
      BY <3>4 DEF Start, Cancel, CancelZombie, Elapse, Result, Close, Shape, TypeOK, dbVars,
             runVars,
                  lockVars
    <3>5. CASE Acquire(c)
      BY <3>5 DEF Acquire, TypeOK, NoJob, dbVars, runVars
    <3>. QED
      BY <1>0, <3>1, <3>2, <3>3, <3>4, <3>5 DEF Handler, FinishFail, RecoverFail,
             RefinishUnconfirmed
  <2>. QED
    BY <2>1, <2>2, <2>3, <2>4 DEF Once, fileVars
<1>2. CASE Job
  <2>0. lock # Free
    BY <1>2 DEF Job, JobCheck, JobMd, JobAppend, JobDiskFail, JobConfirm, JobConfirmFail,
           JobNote,
                JobNoteFail, TypeOK, NoJob
  <2>k. job.chat \in Chats /\ out[job.chat] # "none"
    BY <2>0 DEF InJob
  <2>h. lock = Sweep => ~JobHit
    BY DEF JobHit, Once
  <2>u. UNCHANGED <<out, durable, mode>>
    BY <1>2, <1>0 DEF Job, JobCheck, JobMd, JobAppend, JobDiskFail, JobConfirm, JobConfirmFail,
                JobNote, JobNoteFail, JobRest, dbVars, sysVars
  <2>p. ASSUME JobOver, UNCHANGED answers,
               \A k \in Chats : exported[k] => exported'[k],
               job.step = "confirm" => lock \in Chats \/ exported'[job.chat]
        PROVE  Once'
    <3>1. \A k \in Chats : Told(k)'
      BY <2>u, <2>p DEF JobOver, Once, Told, InJob, Exporting, TypeOK
    <3>. QED
      BY <2>u, <2>p, <3>1 DEF Once, JobOver, NoJob
  <2>1. CASE JobCheck
    <3>1. CASE exported[job.chat] \/ JobHit
      BY <2>1, <2>0, <2>p, <3>1, JobEndsIs DEF JobCheck, dbVars, fileVars
    <3>2. CASE ~(exported[job.chat] \/ JobHit)
      <4>1. /\ job'.step = "md" /\ job'.chat = job.chat
            /\ job'.write = (job.chat \notin Silent /\ (Retry => answers[job.chat] = 0))
            /\ UNCHANGED <<pc, answers, exported>>
        BY <2>1, <3>2 DEF JobCheck, TypeOK, dbVars, fileVars
      <4>2. \A k \in Chats : Told(k)'
        BY <2>1, <2>u, <4>1 DEF Once, Told, JobCheck
      <4>3. Retry \/ answers[job.chat] = 0
        BY <2>1, <2>0, <2>k, <3>2 DEF Retry, Once, Told, JobCheck, InJob, Exporting, TypeOK
      <4>4. job'.write => answers[job.chat] = 0
        BY <4>1, <4>3, Zenon
      <4>. QED
        BY <2>u, <4>1, <4>2, <4>4 DEF Once
    <3>. QED
      BY <3>1, <3>2
  <2>2. CASE JobMd
    <3>1. UNCHANGED <<answers, exported>>
      BY <2>2 DEF JobMd, dbVars
    <3>2. CASE JobOver
      BY <2>2, <2>p, <3>1, <3>2 DEF JobMd
    <3>3. CASE JobAt(IF job.write THEN "append" ELSE "confirm")
      <4>1. /\ job'.chat = job.chat /\ job'.write = job.write
            /\ job'.step \in {"append", "confirm"} /\ UNCHANGED pc
            /\ job'.step = "append" => job.write
        BY <3>3 DEF JobAt, TypeOK
      <4>. QED
        BY <2>2, <2>u, <3>1, <4>1 DEF JobMd, Once, Told
    <3>. QED
      BY <2>0, <2>2, <3>2, <3>3, JobGoesIs DEF JobMd
  <2>3. CASE JobAppend
    <3>1. /\ answers' = IF torn THEN answers ELSE [answers EXCEPT ![job.chat] = @ + 1]
          /\ UNCHANGED exported
      BY <2>3 DEF JobAppend, dbVars
    <3>2. answers[job.chat] = 0
      BY <2>3 DEF JobAppend, Once
    <3>3. \A k \in Chats : answers'[k] \in {0, 1} /\ (k # job.chat => answers'[k] = answers[k])
      BY <3>1, <3>2, <2>k DEF Once, Told, TypeOK
    <3>4. CASE JobAt("confirm")
      <4>1. job'.chat = job.chat /\ job'.step = "confirm" /\ UNCHANGED pc
        BY <3>4 DEF JobAt, TypeOK
      <4>2. \A k \in Chats : Told(k)'
        BY <2>3, <2>k, <2>u, <3>1, <3>3, <4>1 DEF JobAppend, Once, Told
      <4>. QED
        BY <2>u, <4>1, <4>2 DEF Once
    <3>5. CASE JobOver /\ lock # Sweep
      <4>1. /\ lock \in Chats /\ job.chat = lock /\ pc[lock] \in {"export", "export2"}
            /\ job' = NoJob
            /\ pc' \in {[pc EXCEPT ![lock] = "done"], [pc EXCEPT ![lock] = "recover"]}
        BY <2>0, <3>5 DEF JobOver, InJob, Once, Told, Exporting, TypeOK
      <4>2. \A k \in Chats : Told(k)'
        BY <2>3, <2>k, <2>u, <3>1, <3>3, <4>1 DEF JobAppend, Once, Told, TypeOK
      <4>. QED
        BY <2>u, <4>1, <4>2 DEF Once, NoJob
    <3>6. lock = Sweep => JobAt("confirm")
      BY <2>3, <2>h DEF JobAppend, JobGoes, JobAt
    <3>. QED
      BY <2>0, <2>3, <3>4, <3>5, <3>6, JobGoesIs DEF JobAppend
  <2>4. CASE JobConfirm
    <3>1. exported' = [exported EXCEPT ![job.chat] = TRUE] /\ UNCHANGED answers
      BY <2>4 DEF JobConfirm, fileVars
    <3>2. JobOver
      BY <2>0, <2>4, JobEndsIs DEF JobConfirm
    <3>. QED
      BY <2>k, <2>p, <3>1, <3>2 DEF TypeOK
  <2>. QED
    BY <1>0, <1>2, <2>1, <2>2, <2>3, <2>4
       DEF Job, JobDiskFail, JobConfirmFail, JobNoteFail, JobNote, Once
<1>3. CASE Loop \/ Process
  <2>1. UNCHANGED <<answers, exported, out>>
    BY <1>3 DEF Loop, SweepRead, SweepTake, SweepEnd, Process, Reap, Shutdown, SweepStop, Crash,
                Drained, Boot, Exit, dbVars, fileVars
  <2>2. \/ UNCHANGED <<pc, durable, job>>
        \/ lock = Free /\ job'.step = "check" /\ UNCHANGED <<pc, durable>>
        \/ /\ job'.step = "none"
           /\ \A c \in Chats : pc'[c] = "done" \/ (pc'[c] = "idle" /\ pc[c] = "idle")
    BY <1>3 DEF Loop, SweepRead, SweepTake, SweepEnd, Process, Reap, Shutdown, SweepStop, Crash,
                Drained, Boot, Exit, Leave, NoJob, runVars, lockVars
  <2>3. mode' \notin {"closing", "draining"}
    BY <1>3 DEF Loop, SweepRead, SweepTake, SweepEnd, Process, Reap, Shutdown, SweepStop, Crash,
                Drained, Boot, Exit, Once, sysVars
  <2>4. \A c \in Chats : Told(c)'
    BY <2>1, <2>2 DEF Once, Told, Shape, TypeOK, NoJob
  <2>. QED
    BY <2>1, <2>2, <2>3, <2>4 DEF Once
<1>4. CASE UNCHANGED vars
  BY <1>4 DEF vars, dbVars, fileVars, runVars, lockVars, sysVars, Once, Told
<1>. QED
  BY <1>1, <1>2, <1>3, <1>4 DEF Next

\* The history has one answer of each run, through any number of cancellations and crashes: what
\* OneAnswer needs besides is that no step of an export fails and that no orderly shutdown stops
\* the retry loop between its append and its confirmation.
THEOREM OneAnswerHolds ==
  ASSUME Troubles \subseteq {"cancel", "crash"}
  PROVE  Spec => []OneAnswer
<1>1. Init => Once
  BY DEF Init, Once, Told, NoJob
<1>2. IInv /\ Once /\ [Next]_vars => Once'
  BY OnceStep
<1>3. Once => OneAnswer
  BY DEF Once, Told, OneAnswer
<1>. QED
  BY <1>1, <1>2, <1>3, Invariance, PTL DEF Spec

=============================================================================
