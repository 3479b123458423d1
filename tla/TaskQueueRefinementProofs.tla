---------------------- MODULE TaskQueueRefinementProofs ----------------------
(***************************************************************************)
(* The queue implements the ledger, for any number of events: every step   *)
(* of the runner, of a request, of the monitor and of a restart is one     *)
(* step of EventLedger on the mapped state, or leaves it alone.            *)
(*                                                                         *)
(* Moves lists what a step may do to the mapped state, in the terms of the *)
(* queue.  That nothing else happens needs the invariant of                *)
(* TaskQueueProofs: a claimed event never waits again (Taken), and it has  *)
(* not run when it is launched (Fresh).                                    *)
(***************************************************************************)
EXTENDS TaskQueueLedger, TaskQueueProofs

Stays ==
  /\ UNCHANGED started
  /\ state' \in [Id -> State]
  /\ \A e \in Id : Status(state'[e]) = Status(state[e])

Adds ==
  /\ UNCHANGED started
  /\ \E e \in Id : state[e] = "absent" /\ state' = [state EXCEPT ![e] = "pending"]

Takes ==
  /\ UNCHANGED started
  /\ \A d \in Id : ~InFlight(d)
  /\ \E e \in Id : state[e] = "pending" /\ state' = [state EXCEPT ![e] = "processing"]

Closes ==
  /\ UNCHANGED started
  /\ \E e \in Id : /\ InFlight(e)
                   /\ \E s \in {"applied", "cancelled"} : state' = [state EXCEPT ![e] = s]

Drops ==
  /\ UNCHANGED started
  /\ \E S \in SUBSET Id : /\ \A e \in S : state[e] = "pending"
                          /\ state' = [e \in Id |-> IF e \in S THEN "cancelled" ELSE state[e]]

Starts ==
  /\ UNCHANGED state
  /\ \E e \in Id : /\ state[e] \notin Gone /\ started[e] = 0
                   /\ started' = [started EXCEPT ![e] = 1]

Moves == Stays \/ Adds \/ Takes \/ Closes \/ Drops \/ Starts

USE DEF At, Step, See, Leave, Back, Sent, StartRunner, StopRunner,
        Ask, Doing, Goes, Release, Unlock, Alive, Busy,
        InspectFine, InspectHeadMoved, InspectBroken, Inspect, SetPhase, SetChat,
        Finish, FinishIf, ChatOf, CancelPending, Enqueue, CanClaim, ClaimEvent, Block,
        queueVars, taskVars, runVars, lockVars, userVars, askVars, sysVars,
        STOPPED, TERMINAL, Phase, Kind, State, Chat, Draining, Claimed, Failing, PC,
        Shape, RowsOK, RunnerOK, RequestsOK, ProcessOK, Gone, PreExec

-----------------------------------------------------------------------------
(* The transactions of the queue.                                          *)

\* The mapped state stays where it is.
LEMMA UnmovedMoves ==
  ASSUME Shape, UNCHANGED <<state, started>>
  PROVE  Moves
  BY DEF Stays, Moves

\* An event that was taken is closed, or its outcome becomes unknown.
LEMMA FinishMoves ==
  ASSUME Shape, NEW e \in Id, state[e] \notin Gone, UNCHANGED started,
         NEW s \in {"applied", "cancelled"}, Finish(e, s)
  PROVE  Moves
<1>1. CASE InFlight(e)
  BY <1>1 DEF Closes, Moves
<1>2. CASE ~InFlight(e)
  BY <1>2 DEF InFlight, Status, Stays, Moves
<1> QED
  BY <1>1, <1>2

LEMMA FinishIfMoves ==
  ASSUME Shape, NEW e \in Id, UNCHANGED started,
         NEW s \in {"applied", "cancelled", "uncertain"}, FinishIf(e, s)
  PROVE  Moves
<1>1. CASE state[e] # "processing"
  BY <1>1, UnmovedMoves
<1>2. CASE state[e] = "processing" /\ s = "uncertain"
  BY <1>2 DEF Status, Stays, Moves
<1>3. CASE state[e] = "processing" /\ s # "uncertain"
  BY <1>3, FinishMoves
<1> QED
  BY <1>1, <1>2, <1>3

\* What waits is dropped, all of it or one event.
LEMMA DropMoves ==
  ASSUME Shape, CancelPending, UNCHANGED started
  PROVE  Moves
<1> DEFINE S == {e \in Id : state[e] = "pending"}
<1>1. /\ S \in SUBSET Id
      /\ \A e \in S : state[e] = "pending"
      /\ state' = [e \in Id |-> IF e \in S THEN "cancelled" ELSE state[e]]
  OBVIOUS
<1> QED
  BY <1>1 DEF Drops, Moves

LEMMA DropOneMoves ==
  ASSUME Shape, NEW e \in Id, state[e] = "pending", Finish(e, "cancelled"), UNCHANGED started
  PROVE  Moves
<1>1. /\ {e} \in SUBSET Id
      /\ \A d \in {e} : state[d] = "pending"
      /\ state' = [d \in Id |-> IF d \in {e} THEN "cancelled" ELSE state[d]]
  OBVIOUS
<1> QED
  BY <1>1 DEF Drops, Moves

LEMMA ClaimMoves ==
  ASSUME Shape, NEW e \in Id, CanClaim(e), ClaimEvent(e), UNCHANGED started
  PROVE  Moves
  BY DEF IsNext, Eligible, Takes, Moves

\* A launch is the first of its event.
LEMMA StartMoves ==
  ASSUME Shape, Taken, Fresh, pc = "launch", UNCHANGED state,
         started' = [started EXCEPT ![cur] = @ + 1]
  PROVE  Moves
<1>1. cur \in Id /\ state[cur] \notin Gone /\ started[cur] = 0
  BY DEF Taken, Fresh
<1>2. started' = [started EXCEPT ![cur] = 1]
  BY <1>1
<1> QED
  BY <1>1, <1>2 DEF Starts, Moves

-----------------------------------------------------------------------------
(* The actions.                                                            *)

LEMMA UnwindMoves ==
  ASSUME Shape, Taken, Fresh, Unwind
  PROVE  Moves
<1>1. CASE UnwindDrain
  BY <1>1, UnmovedMoves DEF UnwindDrain
<1>2. CASE UnwindClaim
  <2>1. CASE CanClaim(cur) /\ ClaimEvent(cur)
    BY <1>2, <2>1, ClaimMoves DEF UnwindClaim
  <2>2. CASE UNCHANGED queueVars
    BY <1>2, <2>2, UnmovedMoves DEF UnwindClaim
  <2> QED
    BY <1>2, <2>1, <2>2 DEF UnwindClaim
<1>3. CASE Unclaim
  BY <1>3, FinishIfMoves, UnmovedMoves DEF Unclaim
<1>4. CASE UnwindConsume
  BY <1>4, FinishIfMoves, UnmovedMoves DEF UnwindConsume, Unwound
<1>5. CASE UnwindRun
  BY <1>5, UnmovedMoves DEF UnwindRun
<1>6. CASE UnwindFeedback
  BY <1>6, FinishIfMoves, UnmovedMoves DEF UnwindFeedback
<1> QED
  BY <1>1, <1>2, <1>3, <1>4, <1>5, <1>6
  DEF Unwind

LEMMA RunnerMoves ==
  ASSUME Shape, Taken, Fresh, Runner
  PROVE  Moves
<1>1. CASE DrainRead
  BY <1>1, UnmovedMoves DEF DrainRead
<1>2. CASE DrainAccess
  BY <1>2, UnmovedMoves DEF DrainAccess
<1>3. CASE DrainResolve
  BY <1>3, UnmovedMoves DEF DrainResolve
<1>4. CASE TakeLease
  BY <1>4, UnmovedMoves DEF TakeLease
<1>5. CASE ConsumeRead
  BY <1>5, UnmovedMoves DEF ConsumeRead
<1>6. CASE Claim
  <2>1. CASE CanClaim(cur)
    <3>1. ClaimEvent(cur) /\ cur \in Id /\ UNCHANGED started
      BY <1>6, <2>1 DEF Claim
    <3> QED
      BY <2>1, <3>1, ClaimMoves
  <2>2. CASE ~CanClaim(cur)
    BY <1>6, <2>2, UnmovedMoves DEF Claim
  <2> QED
    BY <2>1, <2>2
<1>7. CASE CheckBridge
  BY <1>7, FinishIfMoves, UnmovedMoves DEF CheckBridge
<1>8. CASE CheckDenied
  BY <1>8, FinishIfMoves, UnmovedMoves DEF CheckDenied
<1>9. CASE CheckAllowed
  BY <1>9, UnmovedMoves DEF CheckAllowed
<1>10. CASE ConsumeInspect
  BY <1>10, UnmovedMoves DEF ConsumeInspect
<1>11. CASE ConsumeChecked
  BY <1>11, UnmovedMoves DEF ConsumeChecked
<1>12. CASE RunStart
  BY <1>12, UnmovedMoves DEF RunStart
<1>13. CASE RunLaunch
  BY <1>13, StartMoves DEF RunLaunch
<1>14. CASE RunDone
  BY <1>14, UnmovedMoves DEF RunDone
<1>15. CASE FeedbackSkip
  BY <1>15, FinishIfMoves, UnmovedMoves DEF FeedbackSkip
<1>16. CASE FeedbackCheck
  BY <1>16, UnmovedMoves DEF FeedbackCheck
<1>17. CASE FeedbackLaunch
  BY <1>17, StartMoves DEF FeedbackLaunch
<1>18. CASE FeedbackDone
  BY <1>18, UnmovedMoves DEF FeedbackDone
<1>19. CASE AfterFail
  BY <1>19, UnmovedMoves DEF AfterFail
<1>20. CASE AfterStopped
  BY <1>20, UnmovedMoves DEF AfterStopped
<1>21. CASE AfterPending
  BY <1>21, UnmovedMoves DEF AfterPending
<1>22. CASE AfterOk
  BY <1>22, UnmovedMoves DEF AfterOk
<1>23. CASE SettleBlocked
  BY <1>23, UnmovedMoves DEF SettleBlocked
<1>24. CASE SettleFine
  BY <1>24, UnmovedMoves DEF SettleFine
<1>25. CASE PublishInspect
  BY <1>25, UnmovedMoves DEF PublishInspect
<1>26. CASE PublishRead
  BY <1>26, UnmovedMoves DEF PublishRead
<1>27. CASE PublishError
  BY <1>27, UnmovedMoves DEF PublishError
<1>28. CASE PublishClosed
  BY <1>28, DropMoves DEF PublishClosed
<1>29. CASE PublishFinished
  BY <1>29, UnmovedMoves DEF PublishFinished
<1>30. CASE PublishPush
  BY <1>30, UnmovedMoves DEF PublishPush
<1>31. CASE PublishStopped
  BY <1>31, UnmovedMoves DEF PublishStopped
<1>32. CASE PublishDone
  BY <1>32, UnmovedMoves DEF PublishDone
<1>33. CASE ConsumeFinish
  BY <1>33, FinishMoves DEF ConsumeFinish, Taken
<1>34. CASE ConsumeFail
  BY <1>34, FinishIfMoves, UnmovedMoves DEF ConsumeFail
<1>35. CASE ConsumeBlock
  BY <1>35, UnmovedMoves DEF ConsumeBlock
<1>36. CASE DrainError
  BY <1>36, UnmovedMoves DEF DrainError
<1>37. CASE DrainBlock
  BY <1>37, UnmovedMoves DEF DrainBlock
<1>38. CASE Unwind
  BY <1>38, UnwindMoves
<1> QED
  BY <1>1, <1>2, <1>3, <1>4, <1>5, <1>6, <1>7, <1>8, <1>9, <1>10, <1>11,
     <1>12, <1>13, <1>14, <1>15, <1>16, <1>17, <1>18, <1>19, <1>20, <1>21,
     <1>22, <1>23, <1>24, <1>25, <1>26, <1>27, <1>28, <1>29, <1>30, <1>31,
     <1>32, <1>33, <1>34, <1>35, <1>36, <1>37, <1>38
  DEF Runner

LEMMA MonitorMoves ==
  ASSUME Shape, Taken, Fresh, Monitor
  PROVE  Moves
<1>1. CASE MonitorStart
  BY <1>1, UnmovedMoves DEF MonitorStart
<1>2. CASE PollRead
  BY <1>2, UnmovedMoves DEF PollRead
<1>3. CASE PollLimit
  BY <1>3, UnmovedMoves DEF PollLimit
<1>4. CASE PollFeedback
  <2>1. CASE Enqueue("feedback")
    BY <1>4, <2>1 DEF PollFeedback, Adds, Moves
  <2>2. CASE UNCHANGED queueVars
    BY <1>4, <2>2, UnmovedMoves DEF PollFeedback
  <2> QED
    BY <1>4, <2>1, <2>2 DEF PollFeedback
<1>5. CASE PollClosed
  BY <1>5, UnmovedMoves DEF PollClosed
<1>6. CASE PollDrop
  BY <1>6, DropMoves DEF PollDrop
<1> QED
  BY <1>1, <1>2, <1>3, <1>4, <1>5, <1>6
  DEF Monitor

LEMMA ControlMoves ==
  ASSUME Shape, Taken, Fresh, Control
  PROVE  Moves
<1>1. CASE AskPause
  BY <1>1, UnmovedMoves DEF AskPause
<1>2. CASE AskCancel
  BY <1>2, UnmovedMoves DEF AskCancel
<1>3. CASE AskContinue
  BY <1>3, UnmovedMoves DEF AskContinue
<1>4. CASE AskPublish
  BY <1>4, UnmovedMoves DEF AskPublish
<1>5. CASE AskTrack
  BY <1>5, UnmovedMoves DEF AskTrack
<1>6. CASE AskUntrack
  BY <1>6, UnmovedMoves DEF AskUntrack
<1>7. CASE Pause
  BY <1>7, UnmovedMoves DEF Pause
<1>8. CASE CancelStart
  BY <1>8, UnmovedMoves DEF CancelStart
<1>9. CASE CancelMark
  BY <1>9, UnmovedMoves DEF CancelMark
<1>10. CASE CancelQueue
  BY <1>10, DropMoves DEF CancelQueue
<1>11. CASE CancelDone
  BY <1>11, UnmovedMoves DEF CancelDone
<1>12. CASE CancelAnswer
  BY <1>12, UnmovedMoves DEF CancelAnswer
<1>13. CASE Disconnect
  BY <1>13, UnmovedMoves DEF Disconnect
<1>14. CASE ContinueInspect
  BY <1>14, UnmovedMoves DEF ContinueInspect
<1>15. CASE ContinueBroken
  BY <1>15, UnmovedMoves DEF ContinueBroken
<1>16. CASE ContinueRefused
  BY <1>16, UnmovedMoves DEF ContinueRefused
<1>17. CASE ContinueReconcile
  <2>1. PICK e \in owed : Finish(e, "applied")
    BY <1>17 DEF ContinueReconcile
  <2>2. e \in Id /\ state[e] \notin Gone /\ UNCHANGED started
    BY <1>17 DEF ContinueReconcile, Taken
  <2> QED
    BY <2>1, <2>2, FinishMoves
<1>18. CASE ContinueClosed
  <2>1. PICK e \in owed : Finish(e, "applied")
    BY <1>18 DEF ContinueClosed
  <2>2. e \in Id /\ state[e] \notin Gone /\ UNCHANGED started
    BY <1>18 DEF ContinueClosed, Taken
  <2> QED
    BY <2>1, <2>2, FinishMoves
<1>19. CASE ContinueDrop
  BY <1>19, DropMoves DEF ContinueDrop
<1>20. CASE ContinueFinished
  BY <1>20, UnmovedMoves DEF ContinueFinished
<1>21. CASE ContinueCheck
  BY <1>21, UnmovedMoves DEF ContinueCheck
<1>22. CASE ContinueReady
  BY <1>22, UnmovedMoves DEF ContinueReady
<1>23. CASE PublishAllow
  BY <1>23, UnmovedMoves DEF PublishAllow
<1>24. CASE PublishEnqueue
  BY <1>24 DEF PublishEnqueue, Adds, Moves
<1>25. CASE Track
  BY <1>25, UnmovedMoves DEF Track
<1>26. CASE Untrack
  BY <1>26, UnmovedMoves DEF Untrack
<1> QED
  BY <1>1, <1>2, <1>3, <1>4, <1>5, <1>6, <1>7, <1>8, <1>9, <1>10, <1>11,
     <1>12, <1>13, <1>14, <1>15, <1>16, <1>17, <1>18, <1>19, <1>20, <1>21,
     <1>22, <1>23, <1>24, <1>25, <1>26
  DEF Control

LEMMA UserMoves ==
  ASSUME Shape, Taken, Fresh, User
  PROVE  Moves
<1>1. CASE SendMessage
  BY <1>1, UnmovedMoves DEF SendMessage
<1>2. CASE SendEnqueue
  BY <1>2 DEF SendEnqueue, Adds, Moves
<1>3. CASE KillPause
  BY <1>3, UnmovedMoves DEF KillPause
<1>4. CASE KillAct
  <2>1. CASE killSaw = "pending"
    <3>1. kill \in Id /\ state[kill] # "absent" /\ Finish(kill, "cancelled") /\ UNCHANGED started
      BY <1>4, <2>1 DEF KillAct, Taken
    <3> QED
      BY <3>1, FinishMoves, DropOneMoves
  <2>2. CASE killSaw # "pending"
    BY <1>4, <2>2, UnmovedMoves DEF KillAct
  <2> QED
    BY <2>1, <2>2
<1>5. CASE LookRead
  BY <1>5, UnmovedMoves DEF LookRead
<1>6. CASE LookWrite
  BY <1>6, UnmovedMoves DEF LookWrite
<1> QED
  BY <1>1, <1>2, <1>3, <1>4, <1>5, <1>6
  DEF User

LEMMA ProcessMoves ==
  ASSUME Shape, Taken, Fresh, Process
  PROVE  Moves
<1>1. CASE Shutdown
  BY <1>1, UnmovedMoves DEF Shutdown
<1>2. CASE ShutdownCancel
  BY <1>2, UnmovedMoves DEF ShutdownCancel
<1>3. CASE Crash
  BY <1>3, UnmovedMoves DEF Crash
<1>4. CASE Recover
  BY <1>4 DEF Recover, Interrupted, Status, Stays, Moves
<1>5. CASE RecoverBlock
  BY <1>5, UnmovedMoves DEF RecoverBlock
<1> QED
  BY <1>1, <1>2, <1>3, <1>4, <1>5
  DEF Process

-----------------------------------------------------------------------------
(* The theorem.                                                            *)

LEMMA NextMoves ==
  ASSUME Shape, Taken, Fresh, [Next]_vars
  PROVE  Moves
<1>1. CASE Runner
  BY <1>1, RunnerMoves
<1>2. CASE Monitor
  BY <1>2, MonitorMoves
<1>3. CASE Control
  BY <1>3, ControlMoves
<1>4. CASE User
  BY <1>4, UserMoves
<1>5. CASE Process
  BY <1>5, ProcessMoves
<1>6. CASE Expire
  BY <1>6, UnmovedMoves DEF Expire
<1>7. CASE UNCHANGED vars
  BY <1>7, UnmovedMoves DEF vars
<1> QED
  BY <1>1, <1>2, <1>3, <1>4, <1>5, <1>6, <1>7 DEF Next

\* What a step may do to the mapped state is what the ledger allows.
LEMMA MovesAreSteps ==
  ASSUME Shape, Moves
  PROVE  [Ledger!Next]_(Ledger!ledger)
<1> DEFINE status == [e \in Id |-> Status(state[e])]
<1>1. CASE Stays
  <2>1. status' = status /\ UNCHANGED started
    BY <1>1 DEF Stays
  <2> QED
    BY <2>1 DEF Ledger!ledger
<1>2. CASE Adds
  <2>1. PICK e \in Id : state[e] = "absent" /\ state' = [state EXCEPT ![e] = "pending"]
    BY <1>2 DEF Adds
  <2>2. Ledger!Add(e)
    BY <1>2, <2>1 DEF Adds, Ledger!Add, Status
  <2> QED
    BY <2>2 DEF Ledger!Next
<1>3. CASE Takes
  <2>1. PICK e \in Id : state[e] = "pending" /\ state' = [state EXCEPT ![e] = "processing"]
    BY <1>3 DEF Takes
  <2>2. \A d \in Id : Status(state[d]) # "taken"
    BY <1>3 DEF Takes, InFlight, Status
  <2>3. Status(state[e]) = "waiting" /\ status' = [status EXCEPT ![e] = "taken"]
    BY <2>1 DEF Status
  <2>4. Ledger!Take(e)
    BY <1>3, <2>2, <2>3 DEF Takes, Ledger!Take
  <2> QED
    BY <2>4 DEF Ledger!Next
<1>4. CASE Closes
  <2>1. PICK e \in Id : /\ InFlight(e)
                       /\ \E s \in {"applied", "cancelled"} : state' = [state EXCEPT ![e] = s]
    BY <1>4 DEF Closes
  <2>2. PICK s \in {"applied", "cancelled"} : state' = [state EXCEPT ![e] = s]
    BY <2>1
  <2>3. Status(state[e]) = "taken" /\ status' = [status EXCEPT ![e] = "closed"]
    BY <2>1, <2>2 DEF InFlight, Status
  <2>4. Ledger!Close(e)
    BY <1>4, <2>3 DEF Closes, Ledger!Close
  <2> QED
    BY <2>4 DEF Ledger!Next
<1>5. CASE Drops
  <2>1. PICK S \in SUBSET Id : /\ \A e \in S : state[e] = "pending"
                              /\ state' = [e \in Id |-> IF e \in S THEN "cancelled" ELSE state[e]]
    BY <1>5 DEF Drops
  <2>2. Ledger!Drop(S)
    BY <1>5, <2>1 DEF Drops, Ledger!Drop, Status
  <2> QED
    BY <2>2 DEF Ledger!Next
<1>6. CASE Starts
  <2>1. PICK e \in Id : /\ state[e] \notin Gone /\ started[e] = 0
                       /\ started' = [started EXCEPT ![e] = 1]
    BY <1>6 DEF Starts
  <2>2. Ledger!Start(e)
    BY <1>6, <2>1 DEF Starts, Ledger!Start, Status
  <2> QED
    BY <2>2 DEF Ledger!Next
<1> QED
  BY <1>1, <1>2, <1>3, <1>4, <1>5, <1>6 DEF Moves

\* A queue at its start is a ledger at its start.
LEMMA InitMaps == Init => Ledger!Init
  BY DEF Init, Status, Ledger!Init

\* Every behaviour of the queue, with its restarts, cancellations and stale writes, is a
\* behaviour of the ledger: claim_conversation_event, finish_conversation_event and
\* recover_conversation_events keep its promises together, for any number of events.
THEOREM Refinement == Spec => ImplementsLedger
<1>1. IInv /\ [Next]_vars => [Ledger!Next]_(Ledger!ledger)
  BY NextMoves, MovesAreSteps DEF IInv, TypeOK
<1> QED
  BY <1>1, InitMaps, Invariance, PTL DEF Spec, ImplementsLedger, Ledger!Spec
=============================================================================
