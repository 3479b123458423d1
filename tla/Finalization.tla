---------------------------- MODULE Finalization ----------------------------
(***************************************************************************)
(* How a run is closed (finalization.py): its result is made durable in    *)
(* SQLite together with the terminal state of the chat, and only then      *)
(* exported, to a Markdown file and to one line of the project's JSONL     *)
(* history. Three writers meet: the run's own handler, its recovery under  *)
(* supervise or, for a node of a graph, under resume_checkpoint, and the   *)
(* sweep that retries the exports left behind.                             *)
(*                                                                         *)
(* All the chats of the model write to the same JSONL file.                *)
(***************************************************************************)
EXTENDS Naturals, FiniteSets

CONSTANTS Chats,       \* runs
          Nodes,       \* those that execute a node of a graph
          Silent,      \* those whose result has no text: no line is written
          Troubles,    \* what goes wrong (a run may leave some out)
          MaxFaults,   \* bound: failed operations of the disk or the database
          MaxStops     \* bound: ends of the process

ASSUME ChatsAssumption == Nodes \subseteq Chats /\ Silent \subseteq Chats
ASSUME TroublesAssumption ==
  Troubles \subseteq {"cancel", "fault", "torn", "crash", "shutdown"}
ASSUME BoundsAssumption == MaxFaults \in Nat /\ MaxStops \in Nat

Sweep == "sweep"       \* the retry loop, as a holder of the lock
Free  == "free"
ASSUME HoldersAssumption == Sweep \notin Chats /\ Free \notin Chats

VARIABLES
  row,       \* chats.status
  out,       \* chat_outputs.payload: the status of the stored result
  exported, tries, due,   \* chat_outputs.exported, intentos, proximo_intento_at
  md,        \* the Markdown file
  answers,   \* readable assistant lines of the chat in the JSONL file
  torn,      \* the JSONL file ends in an unfinished line
  pc, known, durable, cause,  \* the handler and its checkpoint
  cancel,    \* a task.cancel() the handler has not seen yet
  retained,  \* results kept in memory for a manual recovery
  lock, job, \* _candado() and the export in course under it
  sweep, batch,               \* the retry loop
  mode, faults, stops         \* the process and the bounds

dbVars   == <<row, out, exported, tries, due>>
fileVars == <<md, answers, torn>>
runVars  == <<pc, known, durable, cause, cancel, retained>>
lockVars == <<lock, job>>
loopVars == <<sweep, batch>>
sysVars  == <<mode, faults, stops>>
vars == <<dbVars, fileVars, runVars, lockVars, loopVars, sysVars>>

Status == {"ok", "error", "cancelled"}
PC     == {"idle", "run", "close", "finish", "export",         \* the handler
           "recover", "refinish", "reexport", "export2", "done"}  \* its recovery
NoJob  == [chat |-> Free, step |-> "none", write |-> FALSE]

TypeOK ==
  /\ row \in [Chats -> Status \union {"absent", "running"}]
  /\ out \in [Chats -> Status \union {"none"}]
  /\ exported \in [Chats -> BOOLEAN] /\ due \in [Chats -> BOOLEAN]
  /\ tries \in [Chats -> 0..2]
  /\ md \in [Chats -> Status \union {"none"}]
  /\ answers \in [Chats -> Nat] /\ torn \in BOOLEAN
  /\ pc \in [Chats -> PC]
  /\ known \in [Chats -> Status \union {"none"}]
  /\ cause \in [Chats -> Status \union {"none"}]
  /\ durable \in [Chats -> BOOLEAN] /\ cancel \in [Chats -> BOOLEAN]
  /\ retained \subseteq Chats
  /\ lock \in Chats \union {Sweep, Free}
  /\ job \in [chat : Chats \union {Free}, write : BOOLEAN,
              step : {"none", "check", "md", "append", "confirm", "note"}]
  /\ lock = Free <=> job = NoJob
  /\ sweep \in {"idle", "batch"} /\ batch \subseteq Chats
  /\ mode \in {"boot", "reap", "up", "closing", "draining", "down"}
  /\ faults \in Nat /\ stops \in Nat

Init ==
  /\ row = [c \in Chats |-> "absent"] /\ out = [c \in Chats |-> "none"]
  /\ exported = [c \in Chats |-> FALSE] /\ due = [c \in Chats |-> TRUE]
  /\ tries = [c \in Chats |-> 0]
  /\ md = [c \in Chats |-> "none"]
  /\ answers = [c \in Chats |-> 0] /\ torn = FALSE
  /\ pc = [c \in Chats |-> "idle"] /\ known = [c \in Chats |-> "none"]
  /\ cause = [c \in Chats |-> "none"] /\ durable = [c \in Chats |-> FALSE]
  /\ cancel = [c \in Chats |-> FALSE] /\ retained = {}
  /\ lock = Free /\ job = NoJob
  /\ sweep = "idle" /\ batch = {}
  /\ mode = "boot" /\ faults = 0 /\ stops = 0

------------------------------------------------------------------------------
Running == mode \in {"up", "closing", "draining"}

At(c, p) == Running /\ pc[c] = p
To(c, p) == pc' = [pc EXCEPT ![c] = p]

\* Recovery runs in a task of its own, and a node closes in another: a
\* cancellation that reaches them is not seen until they end.
Shielded(c) ==
  c \in Nodes \/ pc[c] \in {"recover", "refinish", "reexport", "export2"}

\* The next await of the handler raises CancelledError, when what it started
\* in a thread (a commit, a write) has ended.
Hit(c) == cancel[c] /\ ~Shielded(c)

Fault ==
  /\ "fault" \in Troubles /\ faults < MaxFaults
  /\ faults' = faults + 1 /\ UNCHANGED <<mode, stops>>

\* supervise catches an interruption or a failure of the handler; a node's
\* failure is retried once with the status it had.
Caught(c) ==
  /\ To(c, "recover")
  /\ cause' = [cause EXCEPT ![c] = IF c \in Nodes THEN known[c]
                                   ELSE IF Hit(c) THEN "cancelled" ELSE "error"]
  /\ cancel' = [cancel EXCEPT ![c] = FALSE]

------------------------------------------------------------------------------
(* The handler of a run *)

Start(c) ==
  /\ mode = "up" /\ pc[c] = "idle"
  /\ To(c, "run")
  /\ row' = [row EXCEPT ![c] = "running"]
  /\ UNCHANGED <<out, exported, tries, due, known, durable, cause, cancel, retained>>
  /\ UNCHANGED <<fileVars, lockVars, loopVars, sysVars>>

Cancel(c) ==
  /\ \/ mode = "up" /\ "cancel" \in Troubles
     \/ mode = "draining"
  /\ pc[c] \notin {"idle", "done"} /\ ~cancel[c]
  /\ cancel' = [cancel EXCEPT ![c] = TRUE]
  /\ UNCHANGED <<pc, known, durable, cause, retained>>
  /\ UNCHANGED <<dbVars, fileVars, lockVars, loopVars, sysVars>>

\* The model answered, failed or was cancelled: the result is kept before any
\* further await (_preserve_completed_result, _node_checkpoint).
Result(c) ==
  /\ At(c, "run")
  /\ \E s \in Status :
       /\ (s = "cancelled") = cancel[c]
       /\ known' = [known EXCEPT ![c] = s]
  /\ cancel' = [cancel EXCEPT ![c] = FALSE]
  /\ To(c, "close")
  /\ UNCHANGED <<durable, cause, retained>>
  /\ UNCHANGED <<dbVars, fileVars, lockVars, loopVars, sysVars>>

\* The handler ends before it has any result.
NoResult(c) ==
  /\ At(c, "run") /\ c \notin Nodes
  /\ Caught(c)
  /\ UNCHANGED <<known, durable, retained>>
  /\ UNCHANGED <<dbVars, fileVars, lockVars, loopVars, sysVars>>

\* Captures, history, log and questions; a history that could not be saved
\* turns the run into an error.
Close(c) ==
  /\ At(c, "close") /\ ~Hit(c)
  /\ \E s \in {known[c], "error"} :
       /\ c \in Nodes => s = known[c]
       /\ known' = [known EXCEPT ![c] = s]
  /\ To(c, "finish")
  /\ UNCHANGED <<durable, cause, cancel, retained>>
  /\ UNCHANGED <<dbVars, fileVars, lockVars, loopVars, sysVars>>

CloseFail(c) ==
  /\ At(c, "close") /\ c \notin Nodes
  /\ Caught(c)
  /\ UNCHANGED <<known, durable, retained>>
  /\ UNCHANGED <<dbVars, fileVars, lockVars, loopVars, sysVars>>

\* finish_chat with an artifact: the row and the payload in one transaction.
Commit(c) ==
  /\ row' = [row EXCEPT ![c] = known[c]]
  /\ out' = [out EXCEPT ![c] = known[c]]
  /\ exported' = [exported EXCEPT ![c] = FALSE]
  /\ UNCHANGED <<tries, due>>

Finish(c) ==
  /\ At(c, "finish")
  /\ Commit(c)
  /\ durable' = [durable EXCEPT ![c] = TRUE]
  /\ IF Hit(c) THEN Caught(c) ELSE To(c, "export") /\ UNCHANGED <<cause, cancel>>
  /\ UNCHANGED <<known, retained>>
  /\ UNCHANGED <<fileVars, lockVars, loopVars, sysVars>>

\* The transaction failed, or committed and its confirmation was lost.
FinishFail(c) ==
  /\ At(c, "finish") /\ Fault
  /\ Commit(c) \/ UNCHANGED dbVars
  /\ Caught(c)
  /\ UNCHANGED <<known, durable, retained>>
  /\ UNCHANGED <<fileVars, lockVars, loopVars>>

\* The handler is cancelled while it waits for the lock of the exports.
ExportCancelled(c) ==
  /\ At(c, "export") /\ lock # c /\ Hit(c)
  /\ Caught(c)
  /\ UNCHANGED <<known, durable, retained>>
  /\ UNCHANGED <<dbVars, fileVars, lockVars, loopVars, sysVars>>

------------------------------------------------------------------------------
(* Recovery: supervise, _recover_result, resume_checkpoint *)

Lost(c) == known[c] # "none" /\ ~durable[c]

\* Nothing to save, or already saved: at most the row is still running.
RecoverRow(c) ==
  /\ At(c, "recover") /\ ~Lost(c)
  /\ row' = IF row[c] = "running" THEN [row EXCEPT ![c] = cause[c]] ELSE row
  /\ To(c, "done")
  /\ UNCHANGED <<out, exported, tries, due, known, durable, cause, cancel, retained>>
  /\ UNCHANGED <<fileVars, lockVars, loopVars, sysVars>>

\* _confirm_existing_checkpoint: the result was saved after all. (A different
\* payload would raise; nothing else writes one.)
RecoverFound(c) ==
  /\ At(c, "recover") /\ Lost(c) /\ out[c] = known[c]
  /\ durable' = [durable EXCEPT ![c] = TRUE]
  /\ retained' = retained \ {c}
  /\ To(c, IF exported[c] THEN "done" ELSE "reexport")
  /\ UNCHANGED <<known, cause, cancel>>
  /\ UNCHANGED <<dbVars, fileVars, lockVars, loopVars, sysVars>>

\* Mutant: the recovery saves again without looking for what was saved.
RecoverAgain(c) ==
  /\ At(c, "recover") /\ Lost(c)
  /\ known' = [known EXCEPT ![c] = cause[c]]
  /\ To(c, "refinish")
  /\ UNCHANGED <<durable, cause, cancel, retained>>
  /\ UNCHANGED <<dbVars, fileVars, lockVars, loopVars, sysVars>>

RecoverAbsent(c) ==
  /\ At(c, "recover") /\ Lost(c) /\ out[c] = "none"
  /\ known' = [known EXCEPT ![c] = cause[c]]
  /\ To(c, "refinish")
  /\ UNCHANGED <<durable, cause, cancel, retained>>
  /\ UNCHANGED <<dbVars, fileVars, lockVars, loopVars, sysVars>>

Refinish(c) ==
  /\ At(c, "refinish")
  /\ Commit(c)
  /\ durable' = [durable EXCEPT ![c] = TRUE]
  /\ retained' = retained \ {c}
  /\ To(c, "export2")
  /\ UNCHANGED <<known, cause, cancel>>
  /\ UNCHANGED <<fileVars, lockVars, loopVars, sysVars>>

\* Mutant: the result nobody could save is dropped.
RecoverForget(c) ==
  /\ At(c, "recover") \/ At(c, "refinish")
  /\ Fault
  /\ To(c, "done")
  /\ UNCHANGED <<known, durable, cause, cancel, retained>>
  /\ UNCHANGED <<dbVars, fileVars, lockVars, loopVars>>

\* The database cannot be read or written: the result stays in memory.
RecoverFail(c) ==
  /\ At(c, "recover") \/ At(c, "refinish")
  /\ Fault
  /\ retained' = IF Lost(c) THEN retained \union {c} ELSE retained
  /\ To(c, "done")
  /\ UNCHANGED <<known, durable, cause, cancel>>
  /\ UNCHANGED <<dbVars, fileVars, lockVars, loopVars>>

RefinishUnconfirmed(c) ==
  /\ At(c, "refinish") /\ Fault
  /\ Commit(c)
  /\ retained' = retained \union {c}
  /\ To(c, "done")
  /\ UNCHANGED <<known, durable, cause, cancel>>
  /\ UNCHANGED <<fileVars, lockVars, loopVars>>

\* POST /experts/cancel on a run nobody executes: cancel_running_chat.
CancelZombie(c) ==
  /\ mode = "up" /\ pc[c] = "done" /\ row[c] = "running"
  /\ row' = [row EXCEPT ![c] = "cancelled"]
  /\ UNCHANGED <<out, exported, tries, due>>
  /\ UNCHANGED <<fileVars, runVars, lockVars, loopVars, sysVars>>

------------------------------------------------------------------------------
(* export: one at a time, whoever asks for it *)

Retry == lock = Sweep \/ pc[lock] = "reexport"

\* The export in course is interrupted: a cancelled handler, or the sweep when
\* the process closes.
JobHit == IF lock = Sweep THEN mode = "closing" ELSE Hit(lock)

\* Mutant: the lock is freed and the export under it goes on.
LeaveJob == lock' = Free /\ UNCHANGED job

Leave == lock' = Free /\ job' = NoJob

JobEnds ==
  /\ Leave
  /\ IF lock = Sweep THEN UNCHANGED <<pc, cause, cancel>>
     ELSE IF JobHit THEN Caught(lock) ELSE To(lock, "done") /\ UNCHANGED <<cause, cancel>>

JobGoes(step) ==
  IF JobHit THEN JobEnds
  ELSE job' = [job EXCEPT !.step = step] /\ UNCHANGED <<lock, pc, cause, cancel>>

JobRest == UNCHANGED <<known, durable, retained, loopVars>>

Acquire(c) ==
  /\ Running /\ pc[c] \in {"export", "reexport", "export2"} /\ ~Hit(c)
  /\ lock = Free
  /\ lock' = c /\ job' = [chat |-> c, step |-> "check", write |-> FALSE]
  /\ UNCHANGED <<dbVars, fileVars, runVars, loopVars, sysVars>>

\* _ya_exportado, and on a retry jsonl_tiene_respuesta.
JobCheck ==
  /\ job.step = "check"
  /\ IF exported[job.chat] \/ JobHit THEN JobEnds
     ELSE /\ job' = [job EXCEPT !.step = "md",
                       !.write = job.chat \notin Silent
                                 /\ (Retry => answers[job.chat] = 0)]
          /\ UNCHANGED <<lock, pc, cause, cancel>>
  /\ JobRest /\ UNCHANGED <<dbVars, fileVars, sysVars>>

JobMd ==
  /\ job.step = "md"
  /\ md' = [md EXCEPT ![job.chat] = out[job.chat]]
  /\ JobGoes(IF job.write THEN "append" ELSE "confirm")
  /\ JobRest /\ UNCHANGED <<dbVars, answers, torn, sysVars>>

\* A line written after an unfinished one is read as part of it.
JobAppend ==
  /\ job.step = "append"
  /\ answers' = IF torn THEN answers ELSE [answers EXCEPT ![job.chat] = @ + 1]
  /\ torn' = FALSE
  /\ JobGoes("confirm")
  /\ JobRest /\ UNCHANGED <<dbVars, md, sysVars>>

\* Mutant: the failure of the disk is swallowed.
JobDiskIgnored ==
  /\ job.step \in {"md", "append"} /\ Fault
  /\ torn' \in {torn, torn \/ ("torn" \in Troubles /\ job.step = "append")}
  /\ JobGoes("confirm")
  /\ JobRest /\ UNCHANGED <<dbVars, md, answers>>

\* The disk fails: nothing, or a piece of the line, was written.
JobDiskFail ==
  /\ job.step \in {"md", "append"} /\ Fault
  /\ torn' \in {torn, torn \/ ("torn" \in Troubles /\ job.step = "append")}
  /\ JobGoes("note")
  /\ JobRest /\ UNCHANGED <<dbVars, md, answers>>

JobConfirm ==
  /\ job.step = "confirm"
  /\ exported' = [exported EXCEPT ![job.chat] = TRUE]
  /\ JobEnds
  /\ JobRest /\ UNCHANGED <<row, out, tries, due, fileVars, sysVars>>

JobConfirmFail ==
  /\ job.step = "confirm" /\ Fault
  /\ exported' \in {exported, [exported EXCEPT ![job.chat] = TRUE]}
  /\ JobGoes("note")
  /\ JobRest /\ UNCHANGED <<row, out, tries, due, fileVars>>

\* The first failure is tried again in the next sweep, the following ones wait.
JobNote ==
  /\ job.step = "note"
  /\ tries' = [tries EXCEPT ![job.chat] = IF @ = 0 THEN 1 ELSE 2]
  /\ due' = [due EXCEPT ![job.chat] = tries[job.chat] = 0]
  /\ JobEnds
  /\ JobRest /\ UNCHANGED <<row, out, exported, fileVars, sysVars>>

JobNoteFail ==
  /\ job.step = "note" /\ Fault
  /\ JobEnds
  /\ JobRest /\ UNCHANGED <<dbVars, fileVars>>

------------------------------------------------------------------------------
(* retry_pending, at boot and in _export_retry_loop *)

Sweeping == mode \in {"boot", "up"}

\* Mutant: only what never failed is tried.
SweepOnce ==
  /\ Sweeping /\ sweep = "idle"
  /\ sweep' = "batch"
  /\ batch' = {c \in Chats : out[c] # "none" /\ ~exported[c] /\ tries[c] = 0}
  /\ UNCHANGED <<dbVars, fileVars, runVars, lockVars, sysVars>>

SweepRead ==
  /\ Sweeping /\ sweep = "idle"
  /\ sweep' = "batch"
  /\ batch' = {c \in Chats : out[c] # "none" /\ ~exported[c] /\ due[c]}
  /\ UNCHANGED <<dbVars, fileVars, runVars, lockVars, sysVars>>

SweepTake ==
  /\ Sweeping /\ sweep = "batch" /\ lock = Free
  /\ \E c \in batch :
       /\ batch' = batch \ {c}
       /\ lock' = Sweep /\ job' = [chat |-> c, step |-> "check", write |-> FALSE]
  /\ UNCHANGED <<sweep, dbVars, fileVars, runVars, sysVars>>

SweepEnd ==
  /\ Sweeping /\ sweep = "batch" /\ batch = {} /\ lock # Sweep
  /\ sweep' = "idle" /\ UNCHANGED batch
  /\ mode' = IF mode = "boot" THEN "reap" ELSE mode
  /\ UNCHANGED <<dbVars, fileVars, runVars, lockVars, faults, stops>>

\* proximo_intento_at arrives.
Elapse(c) ==
  /\ ~due[c] /\ mode # "down"
  /\ due' = [due EXCEPT ![c] = TRUE]
  /\ UNCHANGED <<row, out, exported, tries>>
  /\ UNCHANGED <<fileVars, runVars, lockVars, loopVars, sysVars>>

------------------------------------------------------------------------------
(* The process *)

\* Boot: no run survives a restart.
Reap ==
  /\ mode = "reap"
  /\ row' = [c \in Chats |-> IF row[c] = "running" THEN "cancelled" ELSE row[c]]
  /\ mode' = "up"
  /\ UNCHANGED <<out, exported, tries, due>>
  /\ UNCHANGED <<fileVars, runVars, lockVars, loopVars, faults, stops>>

\* An orderly end stops the loops first, then waits for the runs, which it
\* cancels in the end.
Shutdown ==
  /\ mode = "up" /\ "shutdown" \in Troubles /\ stops < MaxStops
  /\ mode' = "closing" /\ stops' = stops + 1
  /\ UNCHANGED <<dbVars, fileVars, runVars, lockVars, loopVars, faults>>

SweepStop ==
  /\ mode = "closing" /\ lock # Sweep
  /\ sweep' = "idle" /\ batch' = {}
  /\ mode' = "draining"
  /\ UNCHANGED <<dbVars, fileVars, runVars, lockVars, faults, stops>>

\* What was in memory is gone; an append may have been cut.
Exit ==
  /\ mode' = "down"
  /\ pc' = [c \in Chats |-> IF pc[c] = "idle" THEN "idle" ELSE "done"]
  /\ known' = [c \in Chats |-> "none"] /\ cause' = [c \in Chats |-> "none"]
  /\ durable' = [c \in Chats |-> FALSE] /\ cancel' = [c \in Chats |-> FALSE]
  /\ retained' = {} /\ Leave /\ sweep' = "idle" /\ batch' = {}
  /\ torn' \in {torn, torn \/ ("torn" \in Troubles /\ job.step = "append")}
  /\ UNCHANGED <<dbVars, md, answers, faults>>

Crash ==
  /\ mode # "down" /\ "crash" \in Troubles /\ stops < MaxStops
  /\ stops' = stops + 1
  /\ Exit

Drained == mode = "draining" /\ Exit /\ UNCHANGED stops

Boot ==
  /\ mode = "down"
  /\ mode' = "boot"
  /\ UNCHANGED <<dbVars, fileVars, runVars, lockVars, loopVars, faults, stops>>

------------------------------------------------------------------------------
Handler(c) ==
  \/ Result(c) \/ NoResult(c) \/ Close(c) \/ CloseFail(c) \/ Finish(c)
  \/ FinishFail(c) \/ ExportCancelled(c) \/ RecoverRow(c) \/ RecoverFound(c)
  \/ RecoverAbsent(c) \/ Refinish(c) \/ RecoverFail(c) \/ RefinishUnconfirmed(c)
  \/ Acquire(c)

Job ==
  \/ JobCheck \/ JobMd \/ JobAppend \/ JobDiskFail \/ JobConfirm
  \/ JobConfirmFail \/ JobNote \/ JobNoteFail

Loop == SweepRead \/ SweepTake \/ SweepEnd

Process == Reap \/ Shutdown \/ SweepStop \/ Crash \/ Drained \/ Boot

Next ==
  \/ \E c \in Chats : Start(c) \/ Cancel(c) \/ Handler(c) \/ CancelZombie(c) \/ Elapse(c)
  \/ Job \/ Loop \/ Process

Spec == Init /\ [][Next]_vars

\* The event loop runs what is ready, the retry loop ticks, an export that
\* waits is due one day, and a process that ends is started again.
Fairness ==
  /\ \A c \in Chats : WF_vars(Handler(c)) /\ WF_vars(Elapse(c))
  /\ WF_vars(Job) /\ WF_vars(Loop)
  /\ WF_vars(Reap) /\ WF_vars(SweepStop) /\ WF_vars(Drained) /\ WF_vars(Boot)

FairSpec == Spec /\ Fairness

------------------------------------------------------------------------------
\* A result that was saved is never replaced, and the row of the chat keeps the
\* state it was saved with, through failures, cancellations and restarts.
DurableSticks ==
  [][\A c \in Chats : out[c] # "none" => out'[c] = out[c] /\ row'[c] = out[c]]_vars

\* "Resultado durable primero": an exported chat has its saved result in the
\* Markdown file and, when it has text, its answer in the project's history.
ExportedIsComplete ==
  \A c \in Chats : exported[c] =>
    /\ out[c] # "none" /\ md[c] = out[c]
    /\ c \in Silent \/ answers[c] > 0

\* However a run ends, what its model produced is saved or, with a database that
\* does not answer, kept in memory until the process ends.
ResultKept ==
  \A c \in Chats : (pc[c] = "done" /\ known[c] # "none") =>
    out[c] # "none" \/ c \in retained

\* The history of the project has one answer of each run.
OneAnswer == \A c \in Chats : answers[c] <= 1

\* What was saved is exported, after any finite number of failures.
ExportEnds == \A c \in Chats : out[c] # "none" ~> exported[c]
==============================================================================
