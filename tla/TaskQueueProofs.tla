--------------------------- MODULE TaskQueueProofs ---------------------------
(***************************************************************************)
(* Proofs about TaskQueue for any number of events, iterations, restarts   *)
(* and any set of requests.                                                *)
(*                                                                         *)
(* SingleFlight and NeverReplayed are not inductive alone: that a claimed  *)
(* event has left the queue for good (Taken) and has not run yet (Fresh)   *)
(* is what makes a launch the first one.  FifoOrder needs that events      *)
(* arrive in the order of their ids and that no older message waits behind *)
(* the claimed one (Ordered).  ChatAgrees needs Taken too: the executor    *)
(* writes the chat of an event that no longer waits.                       *)
(***************************************************************************)
EXTENDS TaskQueue, TLAPS

Gone == {"absent", "pending"}
PreExec == {"checks", "inspect", "checked", "start", "reserve", "launch"}

\* An event the runner, a cancellation or a continue request holds was enqueued,
\* and those that were claimed never wait again.
Taken ==
  /\ pc \in Claimed \union Failing => state[cur] \notin Gone
  /\ kill # 0 => state[kill] # "absent"
  /\ \A e \in owed : state[e] \notin Gone

\* The executor starts once, after the claim.
Fresh ==
  /\ \A e \in Id : state[e] \in Gone => started[e] = 0
  /\ \A e \in Id : started[e] \in {0, 1}
  /\ pc \in PreExec => started[cur] = 0

\* Events arrive in the order of their ids; nothing older than the event on its
\* way to the executor waits, except feedback.
Ordered ==
  /\ \A d, e \in Id : d < e /\ state[d] = "absent" => state[e] = "absent"
  /\ pc \in PreExec =>
       \A d \in Id : d < cur /\ kind[d] # "feedback" => state[d] # "pending"

Shape == RowsOK /\ RunnerOK /\ RequestsOK /\ ProcessOK

IInv ==
  /\ TypeOK /\ Taken /\ Fresh /\ SingleFlight
  /\ Ordered /\ FifoOrder /\ CancelQuiesces /\ ChatAgrees

\* The steps' own vocabulary: helpers that only abbreviate conjuncts of actions,
\* the sets that name phases and positions, and the shapes of the state.
USE DEF At, Step, See, Leave, Back, Sent, StartRunner, StopRunner,
        Ask, Doing, Goes, Release, Unlock, Alive, Busy,
        InspectFine, InspectHeadMoved, InspectBroken, Inspect, SetPhase, SetChat,
        Finish, FinishIf, ChatOf, CancelPending, Enqueue, CanClaim, ClaimEvent, Block,
        queueVars, taskVars, runVars, lockVars, userVars, askVars, sysVars,
        STOPPED, TERMINAL, Phase, Kind, State, Chat, Draining, Claimed, Failing, PC,
        Shape, RowsOK, RunnerOK, RequestsOK, ProcessOK, Gone, PreExec

-----------------------------------------------------------------------------
(* Types.                                                                  *)

\* The flags stay booleans.
LEMMA UnwindFlags ==
  ASSUME Flags, Unwind
  PROVE  Flags'
<1>1. CASE UnwindDrain
  BY <1>1, Zenon DEF UnwindDrain, Flags
<1>2. CASE UnwindClaim
  BY <1>2, Zenon DEF UnwindClaim, Flags
<1>3. CASE Unclaim
  BY <1>3, Zenon DEF Unclaim, Flags
<1>4. CASE UnwindConsume
  BY <1>4, Zenon DEF UnwindConsume, Unwound, Flags
<1>5. CASE UnwindRun
  BY <1>5, Zenon DEF UnwindRun, Flags
<1>6. CASE UnwindFeedback
  BY <1>6, Zenon DEF UnwindFeedback, Flags
<1> QED
  BY <1>1, <1>2, <1>3, <1>4, <1>5, <1>6
  DEF Unwind

LEMMA RunnerFlags ==
  ASSUME Flags, Runner
  PROVE  Flags'
<1>1. CASE DrainRead
  BY <1>1, Zenon DEF DrainRead, Flags
<1>2. CASE DrainAccess
  BY <1>2, Zenon DEF DrainAccess, Flags
<1>3. CASE DrainResolve
  BY <1>3, Zenon DEF DrainResolve, Flags
<1>4. CASE TakeLease
  BY <1>4, Zenon DEF TakeLease, Flags
<1>5. CASE ConsumeRead
  BY <1>5, Zenon DEF ConsumeRead, Flags
<1>6. CASE Claim
  BY <1>6, Zenon DEF Claim, Flags
<1>7. CASE CheckBridge
  BY <1>7, Zenon DEF CheckBridge, Flags
<1>8. CASE CheckDenied
  BY <1>8, Zenon DEF CheckDenied, Flags
<1>9. CASE CheckAllowed
  BY <1>9, Zenon DEF CheckAllowed, Flags
<1>10. CASE ConsumeInspect
  BY <1>10, Zenon DEF ConsumeInspect, Flags
<1>11. CASE ConsumeChecked
  BY <1>11, Zenon DEF ConsumeChecked, Flags
<1>12. CASE RunStart
  BY <1>12, Zenon DEF RunStart, Flags
<1>13. CASE RunLaunch
  BY <1>13, Zenon DEF RunLaunch, Flags
<1>14. CASE RunDone
  BY <1>14, Zenon DEF RunDone, Flags
<1>15. CASE FeedbackSkip
  BY <1>15, Zenon DEF FeedbackSkip, Flags
<1>16. CASE FeedbackCheck
  BY <1>16, Zenon DEF FeedbackCheck, Flags
<1>17. CASE FeedbackLaunch
  BY <1>17, Zenon DEF FeedbackLaunch, Flags
<1>18. CASE FeedbackDone
  BY <1>18, Zenon DEF FeedbackDone, Flags
<1>19. CASE AfterFail
  BY <1>19, Zenon DEF AfterFail, Flags
<1>20. CASE AfterStopped
  BY <1>20, Zenon DEF AfterStopped, Flags
<1>21. CASE AfterPending
  BY <1>21, Zenon DEF AfterPending, Flags
<1>22. CASE AfterOk
  BY <1>22, Zenon DEF AfterOk, Flags
<1>23. CASE SettleBlocked
  BY <1>23, Zenon DEF SettleBlocked, Flags
<1>24. CASE SettleFine
  BY <1>24, Zenon DEF SettleFine, Flags
<1>25. CASE PublishInspect
  BY <1>25, Zenon DEF PublishInspect, Flags
<1>26. CASE PublishRead
  BY <1>26, Zenon DEF PublishRead, Flags
<1>27. CASE PublishError
  BY <1>27, Zenon DEF PublishError, Flags
<1>28. CASE PublishClosed
  BY <1>28, Zenon DEF PublishClosed, Flags
<1>29. CASE PublishFinished
  BY <1>29, Zenon DEF PublishFinished, Flags
<1>30. CASE PublishPush
  BY <1>30, Zenon DEF PublishPush, Flags
<1>31. CASE PublishStopped
  BY <1>31, Zenon DEF PublishStopped, Flags
<1>32. CASE PublishDone
  BY <1>32, Zenon DEF PublishDone, Flags
<1>33. CASE ConsumeFinish
  BY <1>33, Zenon DEF ConsumeFinish, Flags
<1>34. CASE ConsumeFail
  BY <1>34, Zenon DEF ConsumeFail, Flags
<1>35. CASE ConsumeBlock
  BY <1>35, Zenon DEF ConsumeBlock, Flags
<1>36. CASE DrainError
  BY <1>36, Zenon DEF DrainError, Flags
<1>37. CASE DrainBlock
  BY <1>37, Zenon DEF DrainBlock, Flags
<1>38. CASE Unwind
  BY <1>38, UnwindFlags
<1> QED
  BY <1>1, <1>2, <1>3, <1>4, <1>5, <1>6, <1>7, <1>8, <1>9, <1>10, <1>11,
     <1>12, <1>13, <1>14, <1>15, <1>16, <1>17, <1>18, <1>19, <1>20, <1>21,
     <1>22, <1>23, <1>24, <1>25, <1>26, <1>27, <1>28, <1>29, <1>30, <1>31,
     <1>32, <1>33, <1>34, <1>35, <1>36, <1>37, <1>38
  DEF Runner

LEMMA MonitorFlags ==
  ASSUME Flags, Monitor
  PROVE  Flags'
<1>1. CASE MonitorStart
  BY <1>1, Zenon DEF MonitorStart, Flags
<1>2. CASE PollRead
  BY <1>2, Zenon DEF PollRead, Flags
<1>3. CASE PollLimit
  BY <1>3, Zenon DEF PollLimit, Flags
<1>4. CASE PollFeedback
  BY <1>4, Zenon DEF PollFeedback, Flags
<1>5. CASE PollClosed
  BY <1>5, Zenon DEF PollClosed, Flags
<1>6. CASE PollDrop
  BY <1>6, Zenon DEF PollDrop, Flags
<1> QED
  BY <1>1, <1>2, <1>3, <1>4, <1>5, <1>6
  DEF Monitor

LEMMA ControlFlags ==
  ASSUME Flags, Control
  PROVE  Flags'
<1>1. CASE AskPause
  BY <1>1, Zenon DEF AskPause, Flags
<1>2. CASE AskCancel
  BY <1>2, Zenon DEF AskCancel, Flags
<1>3. CASE AskContinue
  BY <1>3, Zenon DEF AskContinue, Flags
<1>4. CASE AskPublish
  BY <1>4, Zenon DEF AskPublish, Flags
<1>5. CASE AskTrack
  BY <1>5, Zenon DEF AskTrack, Flags
<1>6. CASE AskUntrack
  BY <1>6, Zenon DEF AskUntrack, Flags
<1>7. CASE Pause
  BY <1>7, Zenon DEF Pause, Flags
<1>8. CASE CancelStart
  BY <1>8, Zenon DEF CancelStart, Flags
<1>9. CASE CancelMark
  BY <1>9, Zenon DEF CancelMark, Flags
<1>10. CASE CancelQueue
  BY <1>10, Zenon DEF CancelQueue, Flags
<1>11. CASE CancelDone
  BY <1>11, Zenon DEF CancelDone, Flags
<1>12. CASE CancelAnswer
  BY <1>12, Zenon DEF CancelAnswer, Flags
<1>13. CASE Disconnect
  BY <1>13, Zenon DEF Disconnect, Flags
<1>14. CASE ContinueInspect
  BY <1>14, Zenon DEF ContinueInspect, Flags
<1>15. CASE ContinueBroken
  BY <1>15, Zenon DEF ContinueBroken, Flags
<1>16. CASE ContinueRefused
  BY <1>16, Zenon DEF ContinueRefused, Flags
<1>17. CASE ContinueReconcile
  BY <1>17, Zenon DEF ContinueReconcile, Flags
<1>18. CASE ContinueClosed
  BY <1>18, Zenon DEF ContinueClosed, Flags
<1>19. CASE ContinueDrop
  BY <1>19, Zenon DEF ContinueDrop, Flags
<1>20. CASE ContinueFinished
  BY <1>20, Zenon DEF ContinueFinished, Flags
<1>21. CASE ContinueCheck
  BY <1>21, Zenon DEF ContinueCheck, Flags
<1>22. CASE ContinueReady
  BY <1>22, Zenon DEF ContinueReady, Flags
<1>23. CASE PublishAllow
  BY <1>23, Zenon DEF PublishAllow, Flags
<1>24. CASE PublishEnqueue
  BY <1>24, Zenon DEF PublishEnqueue, Flags
<1>25. CASE Track
  BY <1>25, Zenon DEF Track, Flags
<1>26. CASE Untrack
  BY <1>26, Zenon DEF Untrack, Flags
<1> QED
  BY <1>1, <1>2, <1>3, <1>4, <1>5, <1>6, <1>7, <1>8, <1>9, <1>10, <1>11,
     <1>12, <1>13, <1>14, <1>15, <1>16, <1>17, <1>18, <1>19, <1>20, <1>21,
     <1>22, <1>23, <1>24, <1>25, <1>26
  DEF Control

LEMMA UserFlags ==
  ASSUME Flags, User
  PROVE  Flags'
<1>1. CASE SendMessage
  BY <1>1, Zenon DEF SendMessage, Flags
<1>2. CASE SendEnqueue
  BY <1>2, Zenon DEF SendEnqueue, Flags
<1>3. CASE KillPause
  BY <1>3, Zenon DEF KillPause, Flags
<1>4. CASE KillAct
  BY <1>4, Zenon DEF KillAct, Flags
<1>5. CASE LookRead
  BY <1>5, Zenon DEF LookRead, Flags
<1>6. CASE LookWrite
  BY <1>6, Zenon DEF LookWrite, Flags
<1> QED
  BY <1>1, <1>2, <1>3, <1>4, <1>5, <1>6
  DEF User

LEMMA ProcessFlags ==
  ASSUME Flags, Process
  PROVE  Flags'
<1>1. CASE Shutdown
  BY <1>1, Zenon DEF Shutdown, Flags
<1>2. CASE ShutdownCancel
  BY <1>2, Zenon DEF ShutdownCancel, Flags
<1>3. CASE Crash
  BY <1>3, Zenon DEF Crash, Flags
<1>4. CASE Recover
  BY <1>4, Zenon DEF Recover, Interrupted, Flags
<1>5. CASE RecoverBlock
  BY <1>5, Zenon DEF RecoverBlock, Flags
<1> QED
  BY <1>1, <1>2, <1>3, <1>4, <1>5
  DEF Process

\* Everything else keeps its shape.
LEMMA UnwindShape ==
  ASSUME Shape, Unwind
  PROVE  Shape'
<1>1. CASE UnwindDrain
  BY <1>1 DEF UnwindDrain
<1>2. CASE UnwindClaim
  BY <1>2 DEF UnwindClaim
<1>3. CASE Unclaim
  BY <1>3 DEF Unclaim
<1>4. CASE UnwindConsume
  BY <1>4 DEF UnwindConsume, Unwound
<1>5. CASE UnwindRun
  BY <1>5 DEF UnwindRun
<1>6. CASE UnwindFeedback
  BY <1>6 DEF UnwindFeedback
<1> QED
  BY <1>1, <1>2, <1>3, <1>4, <1>5, <1>6
  DEF Unwind

LEMMA RunnerShape ==
  ASSUME Shape, Runner
  PROVE  Shape'
<1>1. CASE DrainRead
  BY <1>1 DEF DrainRead
<1>2. CASE DrainAccess
  BY <1>2 DEF DrainAccess
<1>3. CASE DrainResolve
  BY <1>3 DEF DrainResolve
<1>4. CASE TakeLease
  BY <1>4 DEF TakeLease
<1>5. CASE ConsumeRead
  BY <1>5 DEF ConsumeRead
<1>6. CASE Claim
  BY <1>6 DEF Claim
<1>7. CASE CheckBridge
  BY <1>7 DEF CheckBridge
<1>8. CASE CheckDenied
  BY <1>8 DEF CheckDenied
<1>9. CASE CheckAllowed
  BY <1>9 DEF CheckAllowed
<1>10. CASE ConsumeInspect
  BY <1>10 DEF ConsumeInspect
<1>11. CASE ConsumeChecked
  BY <1>11 DEF ConsumeChecked
<1>12. CASE RunStart
  BY <1>12 DEF RunStart
<1>13. CASE RunLaunch
  BY <1>13 DEF RunLaunch
<1>14. CASE RunDone
  BY <1>14 DEF RunDone
<1>15. CASE FeedbackSkip
  BY <1>15 DEF FeedbackSkip
<1>16. CASE FeedbackCheck
  BY <1>16 DEF FeedbackCheck
<1>17. CASE FeedbackLaunch
  BY <1>17 DEF FeedbackLaunch
<1>18. CASE FeedbackDone
  BY <1>18 DEF FeedbackDone
<1>19. CASE AfterFail
  BY <1>19 DEF AfterFail
<1>20. CASE AfterStopped
  BY <1>20 DEF AfterStopped
<1>21. CASE AfterPending
  BY <1>21 DEF AfterPending
<1>22. CASE AfterOk
  BY <1>22 DEF AfterOk
<1>23. CASE SettleBlocked
  BY <1>23 DEF SettleBlocked
<1>24. CASE SettleFine
  BY <1>24 DEF SettleFine
<1>25. CASE PublishInspect
  BY <1>25 DEF PublishInspect
<1>26. CASE PublishRead
  BY <1>26 DEF PublishRead
<1>27. CASE PublishError
  BY <1>27 DEF PublishError
<1>28. CASE PublishClosed
  BY <1>28 DEF PublishClosed
<1>29. CASE PublishFinished
  BY <1>29 DEF PublishFinished
<1>30. CASE PublishPush
  BY <1>30 DEF PublishPush
<1>31. CASE PublishStopped
  BY <1>31 DEF PublishStopped
<1>32. CASE PublishDone
  BY <1>32 DEF PublishDone
<1>33. CASE ConsumeFinish
  BY <1>33 DEF ConsumeFinish
<1>34. CASE ConsumeFail
  BY <1>34 DEF ConsumeFail
<1>35. CASE ConsumeBlock
  BY <1>35 DEF ConsumeBlock
<1>36. CASE DrainError
  BY <1>36 DEF DrainError
<1>37. CASE DrainBlock
  BY <1>37 DEF DrainBlock
<1>38. CASE Unwind
  BY <1>38, UnwindShape
<1> QED
  BY <1>1, <1>2, <1>3, <1>4, <1>5, <1>6, <1>7, <1>8, <1>9, <1>10, <1>11,
     <1>12, <1>13, <1>14, <1>15, <1>16, <1>17, <1>18, <1>19, <1>20, <1>21,
     <1>22, <1>23, <1>24, <1>25, <1>26, <1>27, <1>28, <1>29, <1>30, <1>31,
     <1>32, <1>33, <1>34, <1>35, <1>36, <1>37, <1>38
  DEF Runner

LEMMA MonitorShape ==
  ASSUME Shape, Monitor
  PROVE  Shape'
<1>1. CASE MonitorStart
  BY <1>1 DEF MonitorStart
<1>2. CASE PollRead
  BY <1>2 DEF PollRead
<1>3. CASE PollLimit
  BY <1>3 DEF PollLimit
<1>4. CASE PollFeedback
  BY <1>4 DEF PollFeedback
<1>5. CASE PollClosed
  BY <1>5 DEF PollClosed
<1>6. CASE PollDrop
  BY <1>6 DEF PollDrop
<1> QED
  BY <1>1, <1>2, <1>3, <1>4, <1>5, <1>6
  DEF Monitor

LEMMA ControlShape ==
  ASSUME Shape, Control
  PROVE  Shape'
<1>1. CASE AskPause
  BY <1>1 DEF AskPause
<1>2. CASE AskCancel
  BY <1>2 DEF AskCancel
<1>3. CASE AskContinue
  BY <1>3 DEF AskContinue
<1>4. CASE AskPublish
  BY <1>4 DEF AskPublish
<1>5. CASE AskTrack
  BY <1>5 DEF AskTrack
<1>6. CASE AskUntrack
  BY <1>6 DEF AskUntrack
<1>7. CASE Pause
  BY <1>7 DEF Pause
<1>8. CASE CancelStart
  BY <1>8 DEF CancelStart
<1>9. CASE CancelMark
  BY <1>9 DEF CancelMark
<1>10. CASE CancelQueue
  BY <1>10 DEF CancelQueue
<1>11. CASE CancelDone
  BY <1>11 DEF CancelDone
<1>12. CASE CancelAnswer
  BY <1>12 DEF CancelAnswer
<1>13. CASE Disconnect
  BY <1>13 DEF Disconnect
<1>14. CASE ContinueInspect
  BY <1>14 DEF ContinueInspect
<1>15. CASE ContinueBroken
  BY <1>15 DEF ContinueBroken
<1>16. CASE ContinueRefused
  BY <1>16 DEF ContinueRefused
<1>17. CASE ContinueReconcile
  BY <1>17 DEF ContinueReconcile
<1>18. CASE ContinueClosed
  BY <1>18 DEF ContinueClosed
<1>19. CASE ContinueDrop
  BY <1>19 DEF ContinueDrop
<1>20. CASE ContinueFinished
  BY <1>20 DEF ContinueFinished
<1>21. CASE ContinueCheck
  BY <1>21 DEF ContinueCheck
<1>22. CASE ContinueReady
  BY <1>22 DEF ContinueReady
<1>23. CASE PublishAllow
  BY <1>23 DEF PublishAllow
<1>24. CASE PublishEnqueue
  BY <1>24 DEF PublishEnqueue
<1>25. CASE Track
  BY <1>25 DEF Track
<1>26. CASE Untrack
  BY <1>26 DEF Untrack
<1> QED
  BY <1>1, <1>2, <1>3, <1>4, <1>5, <1>6, <1>7, <1>8, <1>9, <1>10, <1>11,
     <1>12, <1>13, <1>14, <1>15, <1>16, <1>17, <1>18, <1>19, <1>20, <1>21,
     <1>22, <1>23, <1>24, <1>25, <1>26
  DEF Control

LEMMA UserShape ==
  ASSUME Shape, User
  PROVE  Shape'
<1>1. CASE SendMessage
  BY <1>1 DEF SendMessage
<1>2. CASE SendEnqueue
  BY <1>2 DEF SendEnqueue
<1>3. CASE KillPause
  BY <1>3 DEF KillPause
<1>4. CASE KillAct
  BY <1>4 DEF KillAct
<1>5. CASE LookRead
  BY <1>5 DEF LookRead
<1>6. CASE LookWrite
  BY <1>6 DEF LookWrite
<1> QED
  BY <1>1, <1>2, <1>3, <1>4, <1>5, <1>6
  DEF User

LEMMA ProcessShape ==
  ASSUME Shape, Process
  PROVE  Shape'
<1>1. CASE Shutdown
  BY <1>1 DEF Shutdown
<1>2. CASE ShutdownCancel
  BY <1>2 DEF ShutdownCancel
<1>3. CASE Crash
  BY <1>3 DEF Crash
<1>4. CASE Recover
  BY <1>4 DEF Recover, Interrupted
<1>5. CASE RecoverBlock
  BY <1>5 DEF RecoverBlock
<1> QED
  BY <1>1, <1>2, <1>3, <1>4, <1>5
  DEF Process

-----------------------------------------------------------------------------
(* The events.                                                             *)

\* A claimed event is in flight alone, and has neither run nor waits again.
LEMMA UnwindOnce ==
  ASSUME Shape, Taken, Fresh, SingleFlight, Unwind
  PROVE  Taken' /\ Fresh' /\ SingleFlight'
<1>1. CASE UnwindDrain
  BY <1>1 DEF UnwindDrain, Taken, Fresh, SingleFlight, InFlight
<1>2. CASE UnwindClaim
  BY <1>2 DEF UnwindClaim, IsNext, Eligible, Taken, Fresh, SingleFlight, InFlight
<1>3. CASE Unclaim
  BY <1>3 DEF Unclaim, Taken, Fresh, SingleFlight, InFlight
<1>4. CASE UnwindConsume
  BY <1>4 DEF UnwindConsume, Unwound, Taken, Fresh, SingleFlight, InFlight
<1>5. CASE UnwindRun
  BY <1>5 DEF UnwindRun, Taken, Fresh, SingleFlight, InFlight
<1>6. CASE UnwindFeedback
  BY <1>6 DEF UnwindFeedback, Taken, Fresh, SingleFlight, InFlight
<1> QED
  BY <1>1, <1>2, <1>3, <1>4, <1>5, <1>6
  DEF Unwind

LEMMA RunnerOnce ==
  ASSUME Shape, Taken, Fresh, SingleFlight, Runner
  PROVE  Taken' /\ Fresh' /\ SingleFlight'
<1>1. CASE DrainRead
  BY <1>1 DEF DrainRead, Taken, Fresh, SingleFlight, InFlight
<1>2. CASE DrainAccess
  BY <1>2 DEF DrainAccess, Taken, Fresh, SingleFlight, InFlight
<1>3. CASE DrainResolve
  BY <1>3 DEF DrainResolve, Taken, Fresh, SingleFlight, InFlight
<1>4. CASE TakeLease
  BY <1>4 DEF TakeLease, Taken, Fresh, SingleFlight, InFlight
<1>5. CASE ConsumeRead
  BY <1>5 DEF ConsumeRead, Taken, Fresh, SingleFlight, InFlight
<1>6. CASE Claim
  BY <1>6 DEF Claim, IsNext, Eligible, Taken, Fresh, SingleFlight, InFlight
<1>7. CASE CheckBridge
  BY <1>7 DEF CheckBridge, Taken, Fresh, SingleFlight, InFlight
<1>8. CASE CheckDenied
  BY <1>8 DEF CheckDenied, Taken, Fresh, SingleFlight, InFlight
<1>9. CASE CheckAllowed
  BY <1>9 DEF CheckAllowed, Taken, Fresh, SingleFlight, InFlight
<1>10. CASE ConsumeInspect
  BY <1>10 DEF ConsumeInspect, Taken, Fresh, SingleFlight, InFlight
<1>11. CASE ConsumeChecked
  BY <1>11 DEF ConsumeChecked, Taken, Fresh, SingleFlight, InFlight
<1>12. CASE RunStart
  BY <1>12 DEF RunStart, Taken, Fresh, SingleFlight, InFlight
<1>13. CASE RunLaunch
  BY <1>13 DEF RunLaunch, Taken, Fresh, SingleFlight, InFlight
<1>14. CASE RunDone
  BY <1>14 DEF RunDone, Taken, Fresh, SingleFlight, InFlight
<1>15. CASE FeedbackSkip
  BY <1>15 DEF FeedbackSkip, Taken, Fresh, SingleFlight, InFlight
<1>16. CASE FeedbackCheck
  BY <1>16 DEF FeedbackCheck, Taken, Fresh, SingleFlight, InFlight
<1>17. CASE FeedbackLaunch
  BY <1>17 DEF FeedbackLaunch, Taken, Fresh, SingleFlight, InFlight
<1>18. CASE FeedbackDone
  BY <1>18 DEF FeedbackDone, Taken, Fresh, SingleFlight, InFlight
<1>19. CASE AfterFail
  BY <1>19 DEF AfterFail, Taken, Fresh, SingleFlight, InFlight
<1>20. CASE AfterStopped
  BY <1>20 DEF AfterStopped, Taken, Fresh, SingleFlight, InFlight
<1>21. CASE AfterPending
  BY <1>21 DEF AfterPending, Taken, Fresh, SingleFlight, InFlight
<1>22. CASE AfterOk
  BY <1>22 DEF AfterOk, Taken, Fresh, SingleFlight, InFlight
<1>23. CASE SettleBlocked
  BY <1>23 DEF SettleBlocked, Taken, Fresh, SingleFlight, InFlight
<1>24. CASE SettleFine
  BY <1>24 DEF SettleFine, Taken, Fresh, SingleFlight, InFlight
<1>25. CASE PublishInspect
  BY <1>25 DEF PublishInspect, Taken, Fresh, SingleFlight, InFlight
<1>26. CASE PublishRead
  BY <1>26 DEF PublishRead, Taken, Fresh, SingleFlight, InFlight
<1>27. CASE PublishError
  BY <1>27 DEF PublishError, Taken, Fresh, SingleFlight, InFlight
<1>28. CASE PublishClosed
  BY <1>28 DEF PublishClosed, Taken, Fresh, SingleFlight, InFlight
<1>29. CASE PublishFinished
  BY <1>29 DEF PublishFinished, Taken, Fresh, SingleFlight, InFlight
<1>30. CASE PublishPush
  BY <1>30 DEF PublishPush, Taken, Fresh, SingleFlight, InFlight
<1>31. CASE PublishStopped
  BY <1>31 DEF PublishStopped, Taken, Fresh, SingleFlight, InFlight
<1>32. CASE PublishDone
  BY <1>32 DEF PublishDone, Taken, Fresh, SingleFlight, InFlight
<1>33. CASE ConsumeFinish
  BY <1>33 DEF ConsumeFinish, Taken, Fresh, SingleFlight, InFlight
<1>34. CASE ConsumeFail
  BY <1>34 DEF ConsumeFail, Taken, Fresh, SingleFlight, InFlight
<1>35. CASE ConsumeBlock
  BY <1>35 DEF ConsumeBlock, Taken, Fresh, SingleFlight, InFlight
<1>36. CASE DrainError
  BY <1>36 DEF DrainError, Taken, Fresh, SingleFlight, InFlight
<1>37. CASE DrainBlock
  BY <1>37 DEF DrainBlock, Taken, Fresh, SingleFlight, InFlight
<1>38. CASE Unwind
  BY <1>38, UnwindOnce
<1> QED
  BY <1>1, <1>2, <1>3, <1>4, <1>5, <1>6, <1>7, <1>8, <1>9, <1>10, <1>11,
     <1>12, <1>13, <1>14, <1>15, <1>16, <1>17, <1>18, <1>19, <1>20, <1>21,
     <1>22, <1>23, <1>24, <1>25, <1>26, <1>27, <1>28, <1>29, <1>30, <1>31,
     <1>32, <1>33, <1>34, <1>35, <1>36, <1>37, <1>38
  DEF Runner

LEMMA MonitorOnce ==
  ASSUME Shape, Taken, Fresh, SingleFlight, Monitor
  PROVE  Taken' /\ Fresh' /\ SingleFlight'
<1>1. CASE MonitorStart
  BY <1>1 DEF MonitorStart, Taken, Fresh, SingleFlight, InFlight
<1>2. CASE PollRead
  BY <1>2 DEF PollRead, Taken, Fresh, SingleFlight, InFlight
<1>3. CASE PollLimit
  BY <1>3 DEF PollLimit, Taken, Fresh, SingleFlight, InFlight
<1>4. CASE PollFeedback
  BY <1>4 DEF PollFeedback, Taken, Fresh, SingleFlight, InFlight
<1>5. CASE PollClosed
  BY <1>5 DEF PollClosed, Taken, Fresh, SingleFlight, InFlight
<1>6. CASE PollDrop
  BY <1>6 DEF PollDrop, Taken, Fresh, SingleFlight, InFlight
<1> QED
  BY <1>1, <1>2, <1>3, <1>4, <1>5, <1>6
  DEF Monitor

LEMMA ControlOnce ==
  ASSUME Shape, Taken, Fresh, SingleFlight, Control
  PROVE  Taken' /\ Fresh' /\ SingleFlight'
<1>1. CASE AskPause
  BY <1>1 DEF AskPause, Taken, Fresh, SingleFlight, InFlight
<1>2. CASE AskCancel
  BY <1>2 DEF AskCancel, Taken, Fresh, SingleFlight, InFlight
<1>3. CASE AskContinue
  BY <1>3 DEF AskContinue, Taken, Fresh, SingleFlight, InFlight
<1>4. CASE AskPublish
  BY <1>4 DEF AskPublish, Taken, Fresh, SingleFlight, InFlight
<1>5. CASE AskTrack
  BY <1>5 DEF AskTrack, Taken, Fresh, SingleFlight, InFlight
<1>6. CASE AskUntrack
  BY <1>6 DEF AskUntrack, Taken, Fresh, SingleFlight, InFlight
<1>7. CASE Pause
  BY <1>7 DEF Pause, Taken, Fresh, SingleFlight, InFlight
<1>8. CASE CancelStart
  BY <1>8 DEF CancelStart, Taken, Fresh, SingleFlight, InFlight
<1>9. CASE CancelMark
  BY <1>9 DEF CancelMark, Taken, Fresh, SingleFlight, InFlight
<1>10. CASE CancelQueue
  BY <1>10 DEF CancelQueue, Taken, Fresh, SingleFlight, InFlight
<1>11. CASE CancelDone
  BY <1>11 DEF CancelDone, Taken, Fresh, SingleFlight, InFlight
<1>12. CASE CancelAnswer
  BY <1>12 DEF CancelAnswer, Taken, Fresh, SingleFlight, InFlight
<1>13. CASE Disconnect
  BY <1>13 DEF Disconnect, Taken, Fresh, SingleFlight, InFlight
<1>14. CASE ContinueInspect
  BY <1>14 DEF ContinueInspect, Taken, Fresh, SingleFlight, InFlight
<1>15. CASE ContinueBroken
  BY <1>15 DEF ContinueBroken, Taken, Fresh, SingleFlight, InFlight
<1>16. CASE ContinueRefused
  BY <1>16 DEF ContinueRefused, Taken, Fresh, SingleFlight, InFlight
<1>17. CASE ContinueReconcile
  BY <1>17 DEF ContinueReconcile, Taken, Fresh, SingleFlight, InFlight
<1>18. CASE ContinueClosed
  BY <1>18 DEF ContinueClosed, Taken, Fresh, SingleFlight, InFlight
<1>19. CASE ContinueDrop
  BY <1>19 DEF ContinueDrop, Taken, Fresh, SingleFlight, InFlight
<1>20. CASE ContinueFinished
  BY <1>20 DEF ContinueFinished, Taken, Fresh, SingleFlight, InFlight
<1>21. CASE ContinueCheck
  BY <1>21 DEF ContinueCheck, Taken, Fresh, SingleFlight, InFlight
<1>22. CASE ContinueReady
  BY <1>22 DEF ContinueReady, Taken, Fresh, SingleFlight, InFlight
<1>23. CASE PublishAllow
  BY <1>23 DEF PublishAllow, Taken, Fresh, SingleFlight, InFlight
<1>24. CASE PublishEnqueue
  BY <1>24 DEF PublishEnqueue, Taken, Fresh, SingleFlight, InFlight
<1>25. CASE Track
  BY <1>25 DEF Track, Taken, Fresh, SingleFlight, InFlight
<1>26. CASE Untrack
  BY <1>26 DEF Untrack, Taken, Fresh, SingleFlight, InFlight
<1> QED
  BY <1>1, <1>2, <1>3, <1>4, <1>5, <1>6, <1>7, <1>8, <1>9, <1>10, <1>11,
     <1>12, <1>13, <1>14, <1>15, <1>16, <1>17, <1>18, <1>19, <1>20, <1>21,
     <1>22, <1>23, <1>24, <1>25, <1>26
  DEF Control

LEMMA UserOnce ==
  ASSUME Shape, Taken, Fresh, SingleFlight, User
  PROVE  Taken' /\ Fresh' /\ SingleFlight'
<1>1. CASE SendMessage
  BY <1>1 DEF SendMessage, Taken, Fresh, SingleFlight, InFlight
<1>2. CASE SendEnqueue
  BY <1>2 DEF SendEnqueue, Taken, Fresh, SingleFlight, InFlight
<1>3. CASE KillPause
  BY <1>3 DEF KillPause, Taken, Fresh, SingleFlight, InFlight
<1>4. CASE KillAct
  BY <1>4 DEF KillAct, Taken, Fresh, SingleFlight, InFlight
<1>5. CASE LookRead
  BY <1>5 DEF LookRead, Taken, Fresh, SingleFlight, InFlight
<1>6. CASE LookWrite
  BY <1>6 DEF LookWrite, Taken, Fresh, SingleFlight, InFlight
<1> QED
  BY <1>1, <1>2, <1>3, <1>4, <1>5, <1>6
  DEF User

LEMMA ProcessOnce ==
  ASSUME Shape, Taken, Fresh, SingleFlight, Process
  PROVE  Taken' /\ Fresh' /\ SingleFlight'
<1>1. CASE Shutdown
  BY <1>1 DEF Shutdown, Taken, Fresh, SingleFlight, InFlight
<1>2. CASE ShutdownCancel
  BY <1>2 DEF ShutdownCancel, Taken, Fresh, SingleFlight, InFlight
<1>3. CASE Crash
  BY <1>3 DEF Crash, Taken, Fresh, SingleFlight, InFlight
<1>4. CASE Recover
  BY <1>4 DEF Recover, Interrupted, Taken, Fresh, SingleFlight, InFlight
<1>5. CASE RecoverBlock
  BY <1>5 DEF RecoverBlock, Taken, Fresh, SingleFlight, InFlight
<1> QED
  BY <1>1, <1>2, <1>3, <1>4, <1>5
  DEF Process

\* Chat rows follow the events they show.
LEMMA UnwindChats ==
  ASSUME Shape, Taken, ChatAgrees, Unwind
  PROVE  ChatAgrees'
<1>1. CASE UnwindDrain
  BY <1>1 DEF UnwindDrain, Taken, ChatAgrees
<1>2. CASE UnwindClaim
  BY <1>2 DEF UnwindClaim, IsNext, Eligible, Taken, ChatAgrees
<1>3. CASE Unclaim
  BY <1>3 DEF Unclaim, Taken, ChatAgrees
<1>4. CASE UnwindConsume
  BY <1>4 DEF UnwindConsume, Unwound, Taken, ChatAgrees
<1>5. CASE UnwindRun
  BY <1>5 DEF UnwindRun, Taken, ChatAgrees
<1>6. CASE UnwindFeedback
  BY <1>6 DEF UnwindFeedback, Taken, ChatAgrees
<1> QED
  BY <1>1, <1>2, <1>3, <1>4, <1>5, <1>6
  DEF Unwind

LEMMA RunnerChats ==
  ASSUME Shape, Taken, ChatAgrees, Runner
  PROVE  ChatAgrees'
<1>1. CASE DrainRead
  BY <1>1 DEF DrainRead, Taken, ChatAgrees
<1>2. CASE DrainAccess
  BY <1>2 DEF DrainAccess, Taken, ChatAgrees
<1>3. CASE DrainResolve
  BY <1>3 DEF DrainResolve, Taken, ChatAgrees
<1>4. CASE TakeLease
  BY <1>4 DEF TakeLease, Taken, ChatAgrees
<1>5. CASE ConsumeRead
  BY <1>5 DEF ConsumeRead, Taken, ChatAgrees
<1>6. CASE Claim
  BY <1>6 DEF Claim, IsNext, Eligible, Taken, ChatAgrees
<1>7. CASE CheckBridge
  BY <1>7 DEF CheckBridge, Taken, ChatAgrees
<1>8. CASE CheckDenied
  BY <1>8 DEF CheckDenied, Taken, ChatAgrees
<1>9. CASE CheckAllowed
  BY <1>9 DEF CheckAllowed, Taken, ChatAgrees
<1>10. CASE ConsumeInspect
  BY <1>10 DEF ConsumeInspect, Taken, ChatAgrees
<1>11. CASE ConsumeChecked
  BY <1>11 DEF ConsumeChecked, Taken, ChatAgrees
<1>12. CASE RunStart
  BY <1>12 DEF RunStart, Taken, ChatAgrees
<1>13. CASE RunLaunch
  BY <1>13 DEF RunLaunch, Taken, ChatAgrees
<1>14. CASE RunDone
  BY <1>14 DEF RunDone, Taken, ChatAgrees
<1>15. CASE FeedbackSkip
  BY <1>15 DEF FeedbackSkip, Taken, ChatAgrees
<1>16. CASE FeedbackCheck
  BY <1>16 DEF FeedbackCheck, Taken, ChatAgrees
<1>17. CASE FeedbackLaunch
  BY <1>17 DEF FeedbackLaunch, Taken, ChatAgrees
<1>18. CASE FeedbackDone
  BY <1>18 DEF FeedbackDone, Taken, ChatAgrees
<1>19. CASE AfterFail
  BY <1>19 DEF AfterFail, Taken, ChatAgrees
<1>20. CASE AfterStopped
  BY <1>20 DEF AfterStopped, Taken, ChatAgrees
<1>21. CASE AfterPending
  BY <1>21 DEF AfterPending, Taken, ChatAgrees
<1>22. CASE AfterOk
  BY <1>22 DEF AfterOk, Taken, ChatAgrees
<1>23. CASE SettleBlocked
  BY <1>23 DEF SettleBlocked, Taken, ChatAgrees
<1>24. CASE SettleFine
  BY <1>24 DEF SettleFine, Taken, ChatAgrees
<1>25. CASE PublishInspect
  BY <1>25 DEF PublishInspect, Taken, ChatAgrees
<1>26. CASE PublishRead
  BY <1>26 DEF PublishRead, Taken, ChatAgrees
<1>27. CASE PublishError
  BY <1>27 DEF PublishError, Taken, ChatAgrees
<1>28. CASE PublishClosed
  BY <1>28 DEF PublishClosed, Taken, ChatAgrees
<1>29. CASE PublishFinished
  BY <1>29 DEF PublishFinished, Taken, ChatAgrees
<1>30. CASE PublishPush
  BY <1>30 DEF PublishPush, Taken, ChatAgrees
<1>31. CASE PublishStopped
  BY <1>31 DEF PublishStopped, Taken, ChatAgrees
<1>32. CASE PublishDone
  BY <1>32 DEF PublishDone, Taken, ChatAgrees
<1>33. CASE ConsumeFinish
  BY <1>33 DEF ConsumeFinish, Taken, ChatAgrees
<1>34. CASE ConsumeFail
  BY <1>34 DEF ConsumeFail, Taken, ChatAgrees
<1>35. CASE ConsumeBlock
  BY <1>35 DEF ConsumeBlock, Taken, ChatAgrees
<1>36. CASE DrainError
  BY <1>36 DEF DrainError, Taken, ChatAgrees
<1>37. CASE DrainBlock
  BY <1>37 DEF DrainBlock, Taken, ChatAgrees
<1>38. CASE Unwind
  BY <1>38, UnwindChats
<1> QED
  BY <1>1, <1>2, <1>3, <1>4, <1>5, <1>6, <1>7, <1>8, <1>9, <1>10, <1>11,
     <1>12, <1>13, <1>14, <1>15, <1>16, <1>17, <1>18, <1>19, <1>20, <1>21,
     <1>22, <1>23, <1>24, <1>25, <1>26, <1>27, <1>28, <1>29, <1>30, <1>31,
     <1>32, <1>33, <1>34, <1>35, <1>36, <1>37, <1>38
  DEF Runner

LEMMA MonitorChats ==
  ASSUME Shape, Taken, ChatAgrees, Monitor
  PROVE  ChatAgrees'
<1>1. CASE MonitorStart
  BY <1>1 DEF MonitorStart, Taken, ChatAgrees
<1>2. CASE PollRead
  BY <1>2 DEF PollRead, Taken, ChatAgrees
<1>3. CASE PollLimit
  BY <1>3 DEF PollLimit, Taken, ChatAgrees
<1>4. CASE PollFeedback
  BY <1>4 DEF PollFeedback, Taken, ChatAgrees
<1>5. CASE PollClosed
  BY <1>5 DEF PollClosed, Taken, ChatAgrees
<1>6. CASE PollDrop
  BY <1>6 DEF PollDrop, Taken, ChatAgrees
<1> QED
  BY <1>1, <1>2, <1>3, <1>4, <1>5, <1>6
  DEF Monitor

LEMMA ControlChats ==
  ASSUME Shape, Taken, ChatAgrees, Control
  PROVE  ChatAgrees'
<1>1. CASE AskPause
  BY <1>1 DEF AskPause, Taken, ChatAgrees
<1>2. CASE AskCancel
  BY <1>2 DEF AskCancel, Taken, ChatAgrees
<1>3. CASE AskContinue
  BY <1>3 DEF AskContinue, Taken, ChatAgrees
<1>4. CASE AskPublish
  BY <1>4 DEF AskPublish, Taken, ChatAgrees
<1>5. CASE AskTrack
  BY <1>5 DEF AskTrack, Taken, ChatAgrees
<1>6. CASE AskUntrack
  BY <1>6 DEF AskUntrack, Taken, ChatAgrees
<1>7. CASE Pause
  BY <1>7 DEF Pause, Taken, ChatAgrees
<1>8. CASE CancelStart
  BY <1>8 DEF CancelStart, Taken, ChatAgrees
<1>9. CASE CancelMark
  BY <1>9 DEF CancelMark, Taken, ChatAgrees
<1>10. CASE CancelQueue
  BY <1>10 DEF CancelQueue, Taken, ChatAgrees
<1>11. CASE CancelDone
  BY <1>11 DEF CancelDone, Taken, ChatAgrees
<1>12. CASE CancelAnswer
  BY <1>12 DEF CancelAnswer, Taken, ChatAgrees
<1>13. CASE Disconnect
  BY <1>13 DEF Disconnect, Taken, ChatAgrees
<1>14. CASE ContinueInspect
  BY <1>14 DEF ContinueInspect, Taken, ChatAgrees
<1>15. CASE ContinueBroken
  BY <1>15 DEF ContinueBroken, Taken, ChatAgrees
<1>16. CASE ContinueRefused
  BY <1>16 DEF ContinueRefused, Taken, ChatAgrees
<1>17. CASE ContinueReconcile
  BY <1>17 DEF ContinueReconcile, Taken, ChatAgrees
<1>18. CASE ContinueClosed
  BY <1>18 DEF ContinueClosed, Taken, ChatAgrees
<1>19. CASE ContinueDrop
  BY <1>19 DEF ContinueDrop, Taken, ChatAgrees
<1>20. CASE ContinueFinished
  BY <1>20 DEF ContinueFinished, Taken, ChatAgrees
<1>21. CASE ContinueCheck
  BY <1>21 DEF ContinueCheck, Taken, ChatAgrees
<1>22. CASE ContinueReady
  BY <1>22 DEF ContinueReady, Taken, ChatAgrees
<1>23. CASE PublishAllow
  BY <1>23 DEF PublishAllow, Taken, ChatAgrees
<1>24. CASE PublishEnqueue
  BY <1>24 DEF PublishEnqueue, Taken, ChatAgrees
<1>25. CASE Track
  BY <1>25 DEF Track, Taken, ChatAgrees
<1>26. CASE Untrack
  BY <1>26 DEF Untrack, Taken, ChatAgrees
<1> QED
  BY <1>1, <1>2, <1>3, <1>4, <1>5, <1>6, <1>7, <1>8, <1>9, <1>10, <1>11,
     <1>12, <1>13, <1>14, <1>15, <1>16, <1>17, <1>18, <1>19, <1>20, <1>21,
     <1>22, <1>23, <1>24, <1>25, <1>26
  DEF Control

LEMMA UserChats ==
  ASSUME Shape, Taken, ChatAgrees, User
  PROVE  ChatAgrees'
<1>1. CASE SendMessage
  BY <1>1 DEF SendMessage, Taken, ChatAgrees
<1>2. CASE SendEnqueue
  BY <1>2 DEF SendEnqueue, Taken, ChatAgrees
<1>3. CASE KillPause
  BY <1>3 DEF KillPause, Taken, ChatAgrees
<1>4. CASE KillAct
  BY <1>4 DEF KillAct, Taken, ChatAgrees
<1>5. CASE LookRead
  BY <1>5 DEF LookRead, Taken, ChatAgrees
<1>6. CASE LookWrite
  BY <1>6 DEF LookWrite, Taken, ChatAgrees
<1> QED
  BY <1>1, <1>2, <1>3, <1>4, <1>5, <1>6
  DEF User

LEMMA ProcessChats ==
  ASSUME Shape, Taken, ChatAgrees, Process
  PROVE  ChatAgrees'
<1>1. CASE Shutdown
  BY <1>1 DEF Shutdown, Taken, ChatAgrees
<1>2. CASE ShutdownCancel
  BY <1>2 DEF ShutdownCancel, Taken, ChatAgrees
<1>3. CASE Crash
  BY <1>3 DEF Crash, Taken, ChatAgrees
<1>4. CASE Recover
  BY <1>4 DEF Recover, Interrupted, Taken, ChatAgrees
<1>5. CASE RecoverBlock
  BY <1>5 DEF RecoverBlock, Taken, ChatAgrees
<1> QED
  BY <1>1, <1>2, <1>3, <1>4, <1>5
  DEF Process

\* Events reach the executor in order.
LEMMA UnwindOrder ==
  ASSUME Shape, Taken, Fresh, Ordered, FifoOrder, Unwind
  PROVE  Ordered' /\ FifoOrder'
<1>1. CASE UnwindDrain
  BY <1>1 DEF UnwindDrain, Taken, Fresh, Ordered, FifoOrder
<1>2. CASE UnwindClaim
  BY <1>2 DEF UnwindClaim, IsNext, Eligible, Taken, Fresh, Ordered, FifoOrder
<1>3. CASE Unclaim
  BY <1>3 DEF Unclaim, Taken, Fresh, Ordered, FifoOrder
<1>4. CASE UnwindConsume
  BY <1>4 DEF UnwindConsume, Unwound, Taken, Fresh, Ordered, FifoOrder
<1>5. CASE UnwindRun
  BY <1>5 DEF UnwindRun, Taken, Fresh, Ordered, FifoOrder
<1>6. CASE UnwindFeedback
  BY <1>6 DEF UnwindFeedback, Taken, Fresh, Ordered, FifoOrder
<1> QED
  BY <1>1, <1>2, <1>3, <1>4, <1>5, <1>6
  DEF Unwind

LEMMA RunnerOrder ==
  ASSUME Shape, Taken, Fresh, Ordered, FifoOrder, Runner
  PROVE  Ordered' /\ FifoOrder'
<1>1. CASE DrainRead
  BY <1>1 DEF DrainRead, Taken, Fresh, Ordered, FifoOrder
<1>2. CASE DrainAccess
  BY <1>2 DEF DrainAccess, Taken, Fresh, Ordered, FifoOrder
<1>3. CASE DrainResolve
  BY <1>3 DEF DrainResolve, Taken, Fresh, Ordered, FifoOrder
<1>4. CASE TakeLease
  BY <1>4 DEF TakeLease, Taken, Fresh, Ordered, FifoOrder
<1>5. CASE ConsumeRead
  BY <1>5 DEF ConsumeRead, Taken, Fresh, Ordered, FifoOrder
<1>6. CASE Claim
  BY <1>6 DEF Claim, IsNext, Eligible, Taken, Fresh, Ordered, FifoOrder
<1>7. CASE CheckBridge
  BY <1>7 DEF CheckBridge, Taken, Fresh, Ordered, FifoOrder
<1>8. CASE CheckDenied
  BY <1>8 DEF CheckDenied, Taken, Fresh, Ordered, FifoOrder
<1>9. CASE CheckAllowed
  BY <1>9 DEF CheckAllowed, Taken, Fresh, Ordered, FifoOrder
<1>10. CASE ConsumeInspect
  BY <1>10 DEF ConsumeInspect, Taken, Fresh, Ordered, FifoOrder
<1>11. CASE ConsumeChecked
  BY <1>11 DEF ConsumeChecked, Taken, Fresh, Ordered, FifoOrder
<1>12. CASE RunStart
  BY <1>12 DEF RunStart, Taken, Fresh, Ordered, FifoOrder
<1>13. CASE RunLaunch
  BY <1>13 DEF RunLaunch, Taken, Fresh, Ordered, FifoOrder
<1>14. CASE RunDone
  BY <1>14 DEF RunDone, Taken, Fresh, Ordered, FifoOrder
<1>15. CASE FeedbackSkip
  BY <1>15 DEF FeedbackSkip, Taken, Fresh, Ordered, FifoOrder
<1>16. CASE FeedbackCheck
  BY <1>16 DEF FeedbackCheck, Taken, Fresh, Ordered, FifoOrder
<1>17. CASE FeedbackLaunch
  BY <1>17 DEF FeedbackLaunch, Taken, Fresh, Ordered, FifoOrder
<1>18. CASE FeedbackDone
  BY <1>18 DEF FeedbackDone, Taken, Fresh, Ordered, FifoOrder
<1>19. CASE AfterFail
  BY <1>19 DEF AfterFail, Taken, Fresh, Ordered, FifoOrder
<1>20. CASE AfterStopped
  BY <1>20 DEF AfterStopped, Taken, Fresh, Ordered, FifoOrder
<1>21. CASE AfterPending
  BY <1>21 DEF AfterPending, Taken, Fresh, Ordered, FifoOrder
<1>22. CASE AfterOk
  BY <1>22 DEF AfterOk, Taken, Fresh, Ordered, FifoOrder
<1>23. CASE SettleBlocked
  BY <1>23 DEF SettleBlocked, Taken, Fresh, Ordered, FifoOrder
<1>24. CASE SettleFine
  BY <1>24 DEF SettleFine, Taken, Fresh, Ordered, FifoOrder
<1>25. CASE PublishInspect
  BY <1>25 DEF PublishInspect, Taken, Fresh, Ordered, FifoOrder
<1>26. CASE PublishRead
  BY <1>26 DEF PublishRead, Taken, Fresh, Ordered, FifoOrder
<1>27. CASE PublishError
  BY <1>27 DEF PublishError, Taken, Fresh, Ordered, FifoOrder
<1>28. CASE PublishClosed
  BY <1>28 DEF PublishClosed, Taken, Fresh, Ordered, FifoOrder
<1>29. CASE PublishFinished
  BY <1>29 DEF PublishFinished, Taken, Fresh, Ordered, FifoOrder
<1>30. CASE PublishPush
  BY <1>30 DEF PublishPush, Taken, Fresh, Ordered, FifoOrder
<1>31. CASE PublishStopped
  BY <1>31 DEF PublishStopped, Taken, Fresh, Ordered, FifoOrder
<1>32. CASE PublishDone
  BY <1>32 DEF PublishDone, Taken, Fresh, Ordered, FifoOrder
<1>33. CASE ConsumeFinish
  BY <1>33 DEF ConsumeFinish, Taken, Fresh, Ordered, FifoOrder
<1>34. CASE ConsumeFail
  BY <1>34 DEF ConsumeFail, Taken, Fresh, Ordered, FifoOrder
<1>35. CASE ConsumeBlock
  BY <1>35 DEF ConsumeBlock, Taken, Fresh, Ordered, FifoOrder
<1>36. CASE DrainError
  BY <1>36 DEF DrainError, Taken, Fresh, Ordered, FifoOrder
<1>37. CASE DrainBlock
  BY <1>37 DEF DrainBlock, Taken, Fresh, Ordered, FifoOrder
<1>38. CASE Unwind
  BY <1>38, UnwindOrder
<1> QED
  BY <1>1, <1>2, <1>3, <1>4, <1>5, <1>6, <1>7, <1>8, <1>9, <1>10, <1>11,
     <1>12, <1>13, <1>14, <1>15, <1>16, <1>17, <1>18, <1>19, <1>20, <1>21,
     <1>22, <1>23, <1>24, <1>25, <1>26, <1>27, <1>28, <1>29, <1>30, <1>31,
     <1>32, <1>33, <1>34, <1>35, <1>36, <1>37, <1>38
  DEF Runner

LEMMA MonitorOrder ==
  ASSUME Shape, Taken, Fresh, Ordered, FifoOrder, Monitor
  PROVE  Ordered' /\ FifoOrder'
<1>1. CASE MonitorStart
  BY <1>1 DEF MonitorStart, Taken, Fresh, Ordered, FifoOrder
<1>2. CASE PollRead
  BY <1>2 DEF PollRead, Taken, Fresh, Ordered, FifoOrder
<1>3. CASE PollLimit
  BY <1>3 DEF PollLimit, Taken, Fresh, Ordered, FifoOrder
<1>4. CASE PollFeedback
  BY <1>4 DEF PollFeedback, Taken, Fresh, Ordered, FifoOrder
<1>5. CASE PollClosed
  BY <1>5 DEF PollClosed, Taken, Fresh, Ordered, FifoOrder
<1>6. CASE PollDrop
  BY <1>6 DEF PollDrop, Taken, Fresh, Ordered, FifoOrder
<1> QED
  BY <1>1, <1>2, <1>3, <1>4, <1>5, <1>6
  DEF Monitor

LEMMA ControlOrder ==
  ASSUME Shape, Taken, Fresh, Ordered, FifoOrder, Control
  PROVE  Ordered' /\ FifoOrder'
<1>1. CASE AskPause
  BY <1>1 DEF AskPause, Taken, Fresh, Ordered, FifoOrder
<1>2. CASE AskCancel
  BY <1>2 DEF AskCancel, Taken, Fresh, Ordered, FifoOrder
<1>3. CASE AskContinue
  BY <1>3 DEF AskContinue, Taken, Fresh, Ordered, FifoOrder
<1>4. CASE AskPublish
  BY <1>4 DEF AskPublish, Taken, Fresh, Ordered, FifoOrder
<1>5. CASE AskTrack
  BY <1>5 DEF AskTrack, Taken, Fresh, Ordered, FifoOrder
<1>6. CASE AskUntrack
  BY <1>6 DEF AskUntrack, Taken, Fresh, Ordered, FifoOrder
<1>7. CASE Pause
  BY <1>7 DEF Pause, Taken, Fresh, Ordered, FifoOrder
<1>8. CASE CancelStart
  BY <1>8 DEF CancelStart, Taken, Fresh, Ordered, FifoOrder
<1>9. CASE CancelMark
  BY <1>9 DEF CancelMark, Taken, Fresh, Ordered, FifoOrder
<1>10. CASE CancelQueue
  BY <1>10 DEF CancelQueue, Taken, Fresh, Ordered, FifoOrder
<1>11. CASE CancelDone
  BY <1>11 DEF CancelDone, Taken, Fresh, Ordered, FifoOrder
<1>12. CASE CancelAnswer
  BY <1>12 DEF CancelAnswer, Taken, Fresh, Ordered, FifoOrder
<1>13. CASE Disconnect
  BY <1>13 DEF Disconnect, Taken, Fresh, Ordered, FifoOrder
<1>14. CASE ContinueInspect
  BY <1>14 DEF ContinueInspect, Taken, Fresh, Ordered, FifoOrder
<1>15. CASE ContinueBroken
  BY <1>15 DEF ContinueBroken, Taken, Fresh, Ordered, FifoOrder
<1>16. CASE ContinueRefused
  BY <1>16 DEF ContinueRefused, Taken, Fresh, Ordered, FifoOrder
<1>17. CASE ContinueReconcile
  BY <1>17 DEF ContinueReconcile, Taken, Fresh, Ordered, FifoOrder
<1>18. CASE ContinueClosed
  BY <1>18 DEF ContinueClosed, Taken, Fresh, Ordered, FifoOrder
<1>19. CASE ContinueDrop
  BY <1>19 DEF ContinueDrop, Taken, Fresh, Ordered, FifoOrder
<1>20. CASE ContinueFinished
  BY <1>20 DEF ContinueFinished, Taken, Fresh, Ordered, FifoOrder
<1>21. CASE ContinueCheck
  BY <1>21 DEF ContinueCheck, Taken, Fresh, Ordered, FifoOrder
<1>22. CASE ContinueReady
  BY <1>22 DEF ContinueReady, Taken, Fresh, Ordered, FifoOrder
<1>23. CASE PublishAllow
  BY <1>23 DEF PublishAllow, Taken, Fresh, Ordered, FifoOrder
<1>24. CASE PublishEnqueue
  BY <1>24 DEF PublishEnqueue, Taken, Fresh, Ordered, FifoOrder
<1>25. CASE Track
  BY <1>25 DEF Track, Taken, Fresh, Ordered, FifoOrder
<1>26. CASE Untrack
  BY <1>26 DEF Untrack, Taken, Fresh, Ordered, FifoOrder
<1> QED
  BY <1>1, <1>2, <1>3, <1>4, <1>5, <1>6, <1>7, <1>8, <1>9, <1>10, <1>11,
     <1>12, <1>13, <1>14, <1>15, <1>16, <1>17, <1>18, <1>19, <1>20, <1>21,
     <1>22, <1>23, <1>24, <1>25, <1>26
  DEF Control

LEMMA UserOrder ==
  ASSUME Shape, Taken, Fresh, Ordered, FifoOrder, User
  PROVE  Ordered' /\ FifoOrder'
<1>1. CASE SendMessage
  BY <1>1 DEF SendMessage, Taken, Fresh, Ordered, FifoOrder
<1>2. CASE SendEnqueue
  BY <1>2 DEF SendEnqueue, Taken, Fresh, Ordered, FifoOrder
<1>3. CASE KillPause
  BY <1>3 DEF KillPause, Taken, Fresh, Ordered, FifoOrder
<1>4. CASE KillAct
  BY <1>4 DEF KillAct, Taken, Fresh, Ordered, FifoOrder
<1>5. CASE LookRead
  BY <1>5 DEF LookRead, Taken, Fresh, Ordered, FifoOrder
<1>6. CASE LookWrite
  BY <1>6 DEF LookWrite, Taken, Fresh, Ordered, FifoOrder
<1> QED
  BY <1>1, <1>2, <1>3, <1>4, <1>5, <1>6
  DEF User

LEMMA ProcessOrder ==
  ASSUME Shape, Taken, Fresh, Ordered, FifoOrder, Process
  PROVE  Ordered' /\ FifoOrder'
<1>1. CASE Shutdown
  BY <1>1 DEF Shutdown, Taken, Fresh, Ordered, FifoOrder
<1>2. CASE ShutdownCancel
  BY <1>2 DEF ShutdownCancel, Taken, Fresh, Ordered, FifoOrder
<1>3. CASE Crash
  BY <1>3 DEF Crash, Taken, Fresh, Ordered, FifoOrder
<1>4. CASE Recover
  BY <1>4 DEF Recover, Interrupted, Taken, Fresh, Ordered, FifoOrder
<1>5. CASE RecoverBlock
  BY <1>5 DEF RecoverBlock, Taken, Fresh, Ordered, FifoOrder
<1> QED
  BY <1>1, <1>2, <1>3, <1>4, <1>5
  DEF Process

\* After a cancellation nothing is claimed.
LEMMA UnwindQuiet ==
  ASSUME Shape, CancelQuiesces, Unwind
  PROVE  CancelQuiesces'
<1>1. CASE UnwindDrain
  BY <1>1 DEF UnwindDrain, CancelQuiesces
<1>2. CASE UnwindClaim
  BY <1>2 DEF UnwindClaim, CancelQuiesces
<1>3. CASE Unclaim
  BY <1>3 DEF Unclaim, CancelQuiesces
<1>4. CASE UnwindConsume
  BY <1>4 DEF UnwindConsume, Unwound, CancelQuiesces
<1>5. CASE UnwindRun
  BY <1>5 DEF UnwindRun, CancelQuiesces
<1>6. CASE UnwindFeedback
  BY <1>6 DEF UnwindFeedback, CancelQuiesces
<1> QED
  BY <1>1, <1>2, <1>3, <1>4, <1>5, <1>6
  DEF Unwind

LEMMA RunnerQuiet ==
  ASSUME Shape, CancelQuiesces, Runner
  PROVE  CancelQuiesces'
<1>1. CASE DrainRead
  BY <1>1 DEF DrainRead, CancelQuiesces
<1>2. CASE DrainAccess
  BY <1>2 DEF DrainAccess, CancelQuiesces
<1>3. CASE DrainResolve
  BY <1>3 DEF DrainResolve, CancelQuiesces
<1>4. CASE TakeLease
  BY <1>4 DEF TakeLease, CancelQuiesces
<1>5. CASE ConsumeRead
  BY <1>5 DEF ConsumeRead, CancelQuiesces
<1>6. CASE Claim
  BY <1>6 DEF Claim, CancelQuiesces
<1>7. CASE CheckBridge
  BY <1>7 DEF CheckBridge, CancelQuiesces
<1>8. CASE CheckDenied
  BY <1>8 DEF CheckDenied, CancelQuiesces
<1>9. CASE CheckAllowed
  BY <1>9 DEF CheckAllowed, CancelQuiesces
<1>10. CASE ConsumeInspect
  BY <1>10 DEF ConsumeInspect, CancelQuiesces
<1>11. CASE ConsumeChecked
  BY <1>11 DEF ConsumeChecked, CancelQuiesces
<1>12. CASE RunStart
  BY <1>12 DEF RunStart, CancelQuiesces
<1>13. CASE RunLaunch
  BY <1>13 DEF RunLaunch, CancelQuiesces
<1>14. CASE RunDone
  BY <1>14 DEF RunDone, CancelQuiesces
<1>15. CASE FeedbackSkip
  BY <1>15 DEF FeedbackSkip, CancelQuiesces
<1>16. CASE FeedbackCheck
  BY <1>16 DEF FeedbackCheck, CancelQuiesces
<1>17. CASE FeedbackLaunch
  BY <1>17 DEF FeedbackLaunch, CancelQuiesces
<1>18. CASE FeedbackDone
  BY <1>18 DEF FeedbackDone, CancelQuiesces
<1>19. CASE AfterFail
  BY <1>19 DEF AfterFail, CancelQuiesces
<1>20. CASE AfterStopped
  BY <1>20 DEF AfterStopped, CancelQuiesces
<1>21. CASE AfterPending
  BY <1>21 DEF AfterPending, CancelQuiesces
<1>22. CASE AfterOk
  BY <1>22 DEF AfterOk, CancelQuiesces
<1>23. CASE SettleBlocked
  BY <1>23 DEF SettleBlocked, CancelQuiesces
<1>24. CASE SettleFine
  BY <1>24 DEF SettleFine, CancelQuiesces
<1>25. CASE PublishInspect
  BY <1>25 DEF PublishInspect, CancelQuiesces
<1>26. CASE PublishRead
  BY <1>26 DEF PublishRead, CancelQuiesces
<1>27. CASE PublishError
  BY <1>27 DEF PublishError, CancelQuiesces
<1>28. CASE PublishClosed
  BY <1>28 DEF PublishClosed, CancelQuiesces
<1>29. CASE PublishFinished
  BY <1>29 DEF PublishFinished, CancelQuiesces
<1>30. CASE PublishPush
  BY <1>30 DEF PublishPush, CancelQuiesces
<1>31. CASE PublishStopped
  BY <1>31 DEF PublishStopped, CancelQuiesces
<1>32. CASE PublishDone
  BY <1>32 DEF PublishDone, CancelQuiesces
<1>33. CASE ConsumeFinish
  BY <1>33 DEF ConsumeFinish, CancelQuiesces
<1>34. CASE ConsumeFail
  BY <1>34 DEF ConsumeFail, CancelQuiesces
<1>35. CASE ConsumeBlock
  BY <1>35 DEF ConsumeBlock, CancelQuiesces
<1>36. CASE DrainError
  BY <1>36 DEF DrainError, CancelQuiesces
<1>37. CASE DrainBlock
  BY <1>37 DEF DrainBlock, CancelQuiesces
<1>38. CASE Unwind
  BY <1>38, UnwindQuiet
<1> QED
  BY <1>1, <1>2, <1>3, <1>4, <1>5, <1>6, <1>7, <1>8, <1>9, <1>10, <1>11,
     <1>12, <1>13, <1>14, <1>15, <1>16, <1>17, <1>18, <1>19, <1>20, <1>21,
     <1>22, <1>23, <1>24, <1>25, <1>26, <1>27, <1>28, <1>29, <1>30, <1>31,
     <1>32, <1>33, <1>34, <1>35, <1>36, <1>37, <1>38
  DEF Runner

LEMMA MonitorQuiet ==
  ASSUME Shape, CancelQuiesces, Monitor
  PROVE  CancelQuiesces'
<1>1. CASE MonitorStart
  BY <1>1 DEF MonitorStart, CancelQuiesces
<1>2. CASE PollRead
  BY <1>2 DEF PollRead, CancelQuiesces
<1>3. CASE PollLimit
  BY <1>3 DEF PollLimit, CancelQuiesces
<1>4. CASE PollFeedback
  BY <1>4 DEF PollFeedback, CancelQuiesces
<1>5. CASE PollClosed
  BY <1>5 DEF PollClosed, CancelQuiesces
<1>6. CASE PollDrop
  BY <1>6 DEF PollDrop, CancelQuiesces
<1> QED
  BY <1>1, <1>2, <1>3, <1>4, <1>5, <1>6
  DEF Monitor

LEMMA ControlQuiet ==
  ASSUME Shape, CancelQuiesces, Control
  PROVE  CancelQuiesces'
<1>1. CASE AskPause
  BY <1>1 DEF AskPause, CancelQuiesces
<1>2. CASE AskCancel
  BY <1>2 DEF AskCancel, CancelQuiesces
<1>3. CASE AskContinue
  BY <1>3 DEF AskContinue, CancelQuiesces
<1>4. CASE AskPublish
  BY <1>4 DEF AskPublish, CancelQuiesces
<1>5. CASE AskTrack
  BY <1>5 DEF AskTrack, CancelQuiesces
<1>6. CASE AskUntrack
  BY <1>6 DEF AskUntrack, CancelQuiesces
<1>7. CASE Pause
  BY <1>7 DEF Pause, CancelQuiesces
<1>8. CASE CancelStart
  BY <1>8 DEF CancelStart, CancelQuiesces
<1>9. CASE CancelMark
  BY <1>9 DEF CancelMark, CancelQuiesces
<1>10. CASE CancelQueue
  BY <1>10 DEF CancelQueue, CancelQuiesces
<1>11. CASE CancelDone
  BY <1>11 DEF CancelDone, CancelQuiesces
<1>12. CASE CancelAnswer
  BY <1>12 DEF CancelAnswer, CancelQuiesces
<1>13. CASE Disconnect
  BY <1>13 DEF Disconnect, CancelQuiesces
<1>14. CASE ContinueInspect
  BY <1>14 DEF ContinueInspect, CancelQuiesces
<1>15. CASE ContinueBroken
  BY <1>15 DEF ContinueBroken, CancelQuiesces
<1>16. CASE ContinueRefused
  BY <1>16 DEF ContinueRefused, CancelQuiesces
<1>17. CASE ContinueReconcile
  BY <1>17 DEF ContinueReconcile, CancelQuiesces
<1>18. CASE ContinueClosed
  BY <1>18 DEF ContinueClosed, CancelQuiesces
<1>19. CASE ContinueDrop
  BY <1>19 DEF ContinueDrop, CancelQuiesces
<1>20. CASE ContinueFinished
  BY <1>20 DEF ContinueFinished, CancelQuiesces
<1>21. CASE ContinueCheck
  BY <1>21 DEF ContinueCheck, CancelQuiesces
<1>22. CASE ContinueReady
  BY <1>22 DEF ContinueReady, CancelQuiesces
<1>23. CASE PublishAllow
  BY <1>23 DEF PublishAllow, CancelQuiesces
<1>24. CASE PublishEnqueue
  BY <1>24 DEF PublishEnqueue, CancelQuiesces
<1>25. CASE Track
  BY <1>25 DEF Track, CancelQuiesces
<1>26. CASE Untrack
  BY <1>26 DEF Untrack, CancelQuiesces
<1> QED
  BY <1>1, <1>2, <1>3, <1>4, <1>5, <1>6, <1>7, <1>8, <1>9, <1>10, <1>11,
     <1>12, <1>13, <1>14, <1>15, <1>16, <1>17, <1>18, <1>19, <1>20, <1>21,
     <1>22, <1>23, <1>24, <1>25, <1>26
  DEF Control

LEMMA UserQuiet ==
  ASSUME Shape, CancelQuiesces, User
  PROVE  CancelQuiesces'
<1>1. CASE SendMessage
  BY <1>1 DEF SendMessage, CancelQuiesces
<1>2. CASE SendEnqueue
  BY <1>2 DEF SendEnqueue, CancelQuiesces
<1>3. CASE KillPause
  BY <1>3 DEF KillPause, CancelQuiesces
<1>4. CASE KillAct
  BY <1>4 DEF KillAct, CancelQuiesces
<1>5. CASE LookRead
  BY <1>5 DEF LookRead, CancelQuiesces
<1>6. CASE LookWrite
  BY <1>6 DEF LookWrite, CancelQuiesces
<1> QED
  BY <1>1, <1>2, <1>3, <1>4, <1>5, <1>6
  DEF User

LEMMA ProcessQuiet ==
  ASSUME Shape, CancelQuiesces, Process
  PROVE  CancelQuiesces'
<1>1. CASE Shutdown
  BY <1>1 DEF Shutdown, CancelQuiesces
<1>2. CASE ShutdownCancel
  BY <1>2 DEF ShutdownCancel, CancelQuiesces
<1>3. CASE Crash
  BY <1>3 DEF Crash, CancelQuiesces
<1>4. CASE Recover
  BY <1>4 DEF Recover, CancelQuiesces
<1>5. CASE RecoverBlock
  BY <1>5 DEF RecoverBlock, CancelQuiesces
<1> QED
  BY <1>1, <1>2, <1>3, <1>4, <1>5
  DEF Process

-----------------------------------------------------------------------------
(* What a step may never do.                                               *)

Resumed == (phase \in STOPPED /\ phase' \notin STOPPED) => op \in {"ready", "publish"}
Consented ==
  \A e \in Id : (kind[e] = "feedback" /\ started'[e] # started[e])
      => phase \notin STOPPED /\ TrackingOpen

\* Only a continue or publish request ends a stop.
LEMMA UnwindResumes ==
  ASSUME Shape, Unwind
  PROVE  Resumed
<1>1. CASE UnwindDrain
  BY <1>1 DEF UnwindDrain, Resumed
<1>2. CASE UnwindClaim
  BY <1>2 DEF UnwindClaim, Resumed
<1>3. CASE Unclaim
  BY <1>3 DEF Unclaim, Resumed
<1>4. CASE UnwindConsume
  BY <1>4 DEF UnwindConsume, Resumed
<1>5. CASE UnwindRun
  BY <1>5 DEF UnwindRun, Resumed
<1>6. CASE UnwindFeedback
  BY <1>6 DEF UnwindFeedback, Resumed
<1> QED
  BY <1>1, <1>2, <1>3, <1>4, <1>5, <1>6
  DEF Unwind

LEMMA RunnerResumes ==
  ASSUME Shape, Runner
  PROVE  Resumed
<1>1. CASE DrainRead
  BY <1>1 DEF DrainRead, Resumed
<1>2. CASE DrainAccess
  BY <1>2 DEF DrainAccess, Resumed
<1>3. CASE DrainResolve
  BY <1>3 DEF DrainResolve, Resumed
<1>4. CASE TakeLease
  BY <1>4 DEF TakeLease, Resumed
<1>5. CASE ConsumeRead
  BY <1>5 DEF ConsumeRead, Resumed
<1>6. CASE Claim
  BY <1>6 DEF Claim, Resumed
<1>7. CASE CheckBridge
  BY <1>7 DEF CheckBridge, Resumed
<1>8. CASE CheckDenied
  BY <1>8 DEF CheckDenied, Resumed
<1>9. CASE CheckAllowed
  BY <1>9 DEF CheckAllowed, Resumed
<1>10. CASE ConsumeInspect
  BY <1>10 DEF ConsumeInspect, Resumed
<1>11. CASE ConsumeChecked
  BY <1>11 DEF ConsumeChecked, Resumed
<1>12. CASE RunStart
  BY <1>12 DEF RunStart, Resumed
<1>13. CASE RunLaunch
  BY <1>13 DEF RunLaunch, Resumed
<1>14. CASE RunDone
  BY <1>14 DEF RunDone, Resumed
<1>15. CASE FeedbackSkip
  BY <1>15 DEF FeedbackSkip, Resumed
<1>16. CASE FeedbackCheck
  BY <1>16 DEF FeedbackCheck, Resumed
<1>17. CASE FeedbackLaunch
  BY <1>17 DEF FeedbackLaunch, MustSkip, Resumed
<1>18. CASE FeedbackDone
  BY <1>18 DEF FeedbackDone, Resumed
<1>19. CASE AfterFail
  BY <1>19 DEF AfterFail, Resumed
<1>20. CASE AfterStopped
  BY <1>20 DEF AfterStopped, Resumed
<1>21. CASE AfterPending
  BY <1>21 DEF AfterPending, Resumed
<1>22. CASE AfterOk
  BY <1>22 DEF AfterOk, Resumed
<1>23. CASE SettleBlocked
  BY <1>23 DEF SettleBlocked, Resumed
<1>24. CASE SettleFine
  BY <1>24 DEF SettleFine, Resumed
<1>25. CASE PublishInspect
  BY <1>25 DEF PublishInspect, Resumed
<1>26. CASE PublishRead
  BY <1>26 DEF PublishRead, Resumed
<1>27. CASE PublishError
  BY <1>27 DEF PublishError, Resumed
<1>28. CASE PublishClosed
  BY <1>28 DEF PublishClosed, Resumed
<1>29. CASE PublishFinished
  BY <1>29 DEF PublishFinished, Resumed
<1>30. CASE PublishPush
  BY <1>30 DEF PublishPush, Resumed
<1>31. CASE PublishStopped
  BY <1>31 DEF PublishStopped, Resumed
<1>32. CASE PublishDone
  BY <1>32 DEF PublishDone, Resumed
<1>33. CASE ConsumeFinish
  BY <1>33 DEF ConsumeFinish, Resumed
<1>34. CASE ConsumeFail
  BY <1>34 DEF ConsumeFail, Resumed
<1>35. CASE ConsumeBlock
  BY <1>35 DEF ConsumeBlock, Resumed
<1>36. CASE DrainError
  BY <1>36 DEF DrainError, Resumed
<1>37. CASE DrainBlock
  BY <1>37 DEF DrainBlock, Resumed
<1>38. CASE Unwind
  BY <1>38, UnwindResumes
<1> QED
  BY <1>1, <1>2, <1>3, <1>4, <1>5, <1>6, <1>7, <1>8, <1>9, <1>10, <1>11,
     <1>12, <1>13, <1>14, <1>15, <1>16, <1>17, <1>18, <1>19, <1>20, <1>21,
     <1>22, <1>23, <1>24, <1>25, <1>26, <1>27, <1>28, <1>29, <1>30, <1>31,
     <1>32, <1>33, <1>34, <1>35, <1>36, <1>37, <1>38
  DEF Runner

LEMMA MonitorResumes ==
  ASSUME Shape, Monitor
  PROVE  Resumed
<1>1. CASE MonitorStart
  BY <1>1 DEF MonitorStart, Resumed
<1>2. CASE PollRead
  BY <1>2 DEF PollRead, Resumed
<1>3. CASE PollLimit
  BY <1>3 DEF PollLimit, Resumed
<1>4. CASE PollFeedback
  BY <1>4 DEF PollFeedback, Resumed
<1>5. CASE PollClosed
  BY <1>5 DEF PollClosed, Resumed
<1>6. CASE PollDrop
  BY <1>6 DEF PollDrop, Resumed
<1> QED
  BY <1>1, <1>2, <1>3, <1>4, <1>5, <1>6
  DEF Monitor

LEMMA ControlResumes ==
  ASSUME Shape, Control
  PROVE  Resumed
<1>1. CASE AskPause
  BY <1>1 DEF AskPause, Resumed
<1>2. CASE AskCancel
  BY <1>2 DEF AskCancel, Resumed
<1>3. CASE AskContinue
  BY <1>3 DEF AskContinue, Resumed
<1>4. CASE AskPublish
  BY <1>4 DEF AskPublish, Resumed
<1>5. CASE AskTrack
  BY <1>5 DEF AskTrack, Resumed
<1>6. CASE AskUntrack
  BY <1>6 DEF AskUntrack, Resumed
<1>7. CASE Pause
  BY <1>7 DEF Pause, Resumed
<1>8. CASE CancelStart
  BY <1>8 DEF CancelStart, Resumed
<1>9. CASE CancelMark
  BY <1>9 DEF CancelMark, Resumed
<1>10. CASE CancelQueue
  BY <1>10 DEF CancelQueue, Resumed
<1>11. CASE CancelDone
  BY <1>11 DEF CancelDone, Resumed
<1>12. CASE CancelAnswer
  BY <1>12 DEF CancelAnswer, Resumed
<1>13. CASE Disconnect
  BY <1>13 DEF Disconnect, Resumed
<1>14. CASE ContinueInspect
  BY <1>14 DEF ContinueInspect, Resumed
<1>15. CASE ContinueBroken
  BY <1>15 DEF ContinueBroken, Resumed
<1>16. CASE ContinueRefused
  BY <1>16 DEF ContinueRefused, Resumed
<1>17. CASE ContinueReconcile
  BY <1>17 DEF ContinueReconcile, Resumed
<1>18. CASE ContinueClosed
  BY <1>18 DEF ContinueClosed, Resumed
<1>19. CASE ContinueDrop
  BY <1>19 DEF ContinueDrop, Resumed
<1>20. CASE ContinueFinished
  BY <1>20 DEF ContinueFinished, Resumed
<1>21. CASE ContinueCheck
  BY <1>21 DEF ContinueCheck, Resumed
<1>22. CASE ContinueReady
  BY <1>22 DEF ContinueReady, Resumed
<1>23. CASE PublishAllow
  BY <1>23 DEF PublishAllow, Resumed
<1>24. CASE PublishEnqueue
  BY <1>24 DEF PublishEnqueue, Resumed
<1>25. CASE Track
  BY <1>25 DEF Track, Resumed
<1>26. CASE Untrack
  BY <1>26 DEF Untrack, Resumed
<1> QED
  BY <1>1, <1>2, <1>3, <1>4, <1>5, <1>6, <1>7, <1>8, <1>9, <1>10, <1>11,
     <1>12, <1>13, <1>14, <1>15, <1>16, <1>17, <1>18, <1>19, <1>20, <1>21,
     <1>22, <1>23, <1>24, <1>25, <1>26
  DEF Control

LEMMA UserResumes ==
  ASSUME Shape, User
  PROVE  Resumed
<1>1. CASE SendMessage
  BY <1>1 DEF SendMessage, Resumed
<1>2. CASE SendEnqueue
  BY <1>2 DEF SendEnqueue, Resumed
<1>3. CASE KillPause
  BY <1>3 DEF KillPause, Resumed
<1>4. CASE KillAct
  BY <1>4 DEF KillAct, Resumed
<1>5. CASE LookRead
  BY <1>5 DEF LookRead, Resumed
<1>6. CASE LookWrite
  BY <1>6 DEF LookWrite, Resumed
<1> QED
  BY <1>1, <1>2, <1>3, <1>4, <1>5, <1>6
  DEF User

LEMMA ProcessResumes ==
  ASSUME Shape, Process
  PROVE  Resumed
<1>1. CASE Shutdown
  BY <1>1 DEF Shutdown, Resumed
<1>2. CASE ShutdownCancel
  BY <1>2 DEF ShutdownCancel, Resumed
<1>3. CASE Crash
  BY <1>3 DEF Crash, Resumed
<1>4. CASE Recover
  BY <1>4 DEF Recover, Resumed
<1>5. CASE RecoverBlock
  BY <1>5 DEF RecoverBlock, Resumed
<1> QED
  BY <1>1, <1>2, <1>3, <1>4, <1>5
  DEF Process

\* Feedback starts within its limits.
LEMMA UnwindConsents ==
  ASSUME Shape, Unwind
  PROVE  Consented
<1>1. CASE UnwindDrain
  BY <1>1 DEF UnwindDrain, Consented
<1>2. CASE UnwindClaim
  BY <1>2 DEF UnwindClaim, Consented
<1>3. CASE Unclaim
  BY <1>3 DEF Unclaim, Consented
<1>4. CASE UnwindConsume
  BY <1>4 DEF UnwindConsume, Consented
<1>5. CASE UnwindRun
  BY <1>5 DEF UnwindRun, Consented
<1>6. CASE UnwindFeedback
  BY <1>6 DEF UnwindFeedback, Consented
<1> QED
  BY <1>1, <1>2, <1>3, <1>4, <1>5, <1>6
  DEF Unwind

LEMMA RunnerConsents ==
  ASSUME Shape, Runner
  PROVE  Consented
<1>1. CASE DrainRead
  BY <1>1 DEF DrainRead, Consented
<1>2. CASE DrainAccess
  BY <1>2 DEF DrainAccess, Consented
<1>3. CASE DrainResolve
  BY <1>3 DEF DrainResolve, Consented
<1>4. CASE TakeLease
  BY <1>4 DEF TakeLease, Consented
<1>5. CASE ConsumeRead
  BY <1>5 DEF ConsumeRead, Consented
<1>6. CASE Claim
  BY <1>6 DEF Claim, Consented
<1>7. CASE CheckBridge
  BY <1>7 DEF CheckBridge, Consented
<1>8. CASE CheckDenied
  BY <1>8 DEF CheckDenied, Consented
<1>9. CASE CheckAllowed
  BY <1>9 DEF CheckAllowed, Consented
<1>10. CASE ConsumeInspect
  BY <1>10 DEF ConsumeInspect, Consented
<1>11. CASE ConsumeChecked
  BY <1>11 DEF ConsumeChecked, Consented
<1>12. CASE RunStart
  BY <1>12 DEF RunStart, Consented
<1>13. CASE RunLaunch
  BY <1>13 DEF RunLaunch, Consented
<1>14. CASE RunDone
  BY <1>14 DEF RunDone, Consented
<1>15. CASE FeedbackSkip
  BY <1>15 DEF FeedbackSkip, Consented
<1>16. CASE FeedbackCheck
  BY <1>16 DEF FeedbackCheck, Consented
<1>17. CASE FeedbackLaunch
  BY <1>17 DEF FeedbackLaunch, MustSkip, Consented
<1>18. CASE FeedbackDone
  BY <1>18 DEF FeedbackDone, Consented
<1>19. CASE AfterFail
  BY <1>19 DEF AfterFail, Consented
<1>20. CASE AfterStopped
  BY <1>20 DEF AfterStopped, Consented
<1>21. CASE AfterPending
  BY <1>21 DEF AfterPending, Consented
<1>22. CASE AfterOk
  BY <1>22 DEF AfterOk, Consented
<1>23. CASE SettleBlocked
  BY <1>23 DEF SettleBlocked, Consented
<1>24. CASE SettleFine
  BY <1>24 DEF SettleFine, Consented
<1>25. CASE PublishInspect
  BY <1>25 DEF PublishInspect, Consented
<1>26. CASE PublishRead
  BY <1>26 DEF PublishRead, Consented
<1>27. CASE PublishError
  BY <1>27 DEF PublishError, Consented
<1>28. CASE PublishClosed
  BY <1>28 DEF PublishClosed, Consented
<1>29. CASE PublishFinished
  BY <1>29 DEF PublishFinished, Consented
<1>30. CASE PublishPush
  BY <1>30 DEF PublishPush, Consented
<1>31. CASE PublishStopped
  BY <1>31 DEF PublishStopped, Consented
<1>32. CASE PublishDone
  BY <1>32 DEF PublishDone, Consented
<1>33. CASE ConsumeFinish
  BY <1>33 DEF ConsumeFinish, Consented
<1>34. CASE ConsumeFail
  BY <1>34 DEF ConsumeFail, Consented
<1>35. CASE ConsumeBlock
  BY <1>35 DEF ConsumeBlock, Consented
<1>36. CASE DrainError
  BY <1>36 DEF DrainError, Consented
<1>37. CASE DrainBlock
  BY <1>37 DEF DrainBlock, Consented
<1>38. CASE Unwind
  BY <1>38, UnwindConsents
<1> QED
  BY <1>1, <1>2, <1>3, <1>4, <1>5, <1>6, <1>7, <1>8, <1>9, <1>10, <1>11,
     <1>12, <1>13, <1>14, <1>15, <1>16, <1>17, <1>18, <1>19, <1>20, <1>21,
     <1>22, <1>23, <1>24, <1>25, <1>26, <1>27, <1>28, <1>29, <1>30, <1>31,
     <1>32, <1>33, <1>34, <1>35, <1>36, <1>37, <1>38
  DEF Runner

LEMMA MonitorConsents ==
  ASSUME Shape, Monitor
  PROVE  Consented
<1>1. CASE MonitorStart
  BY <1>1 DEF MonitorStart, Consented
<1>2. CASE PollRead
  BY <1>2 DEF PollRead, Consented
<1>3. CASE PollLimit
  BY <1>3 DEF PollLimit, Consented
<1>4. CASE PollFeedback
  BY <1>4 DEF PollFeedback, Consented
<1>5. CASE PollClosed
  BY <1>5 DEF PollClosed, Consented
<1>6. CASE PollDrop
  BY <1>6 DEF PollDrop, Consented
<1> QED
  BY <1>1, <1>2, <1>3, <1>4, <1>5, <1>6
  DEF Monitor

LEMMA ControlConsents ==
  ASSUME Shape, Control
  PROVE  Consented
<1>1. CASE AskPause
  BY <1>1 DEF AskPause, Consented
<1>2. CASE AskCancel
  BY <1>2 DEF AskCancel, Consented
<1>3. CASE AskContinue
  BY <1>3 DEF AskContinue, Consented
<1>4. CASE AskPublish
  BY <1>4 DEF AskPublish, Consented
<1>5. CASE AskTrack
  BY <1>5 DEF AskTrack, Consented
<1>6. CASE AskUntrack
  BY <1>6 DEF AskUntrack, Consented
<1>7. CASE Pause
  BY <1>7 DEF Pause, Consented
<1>8. CASE CancelStart
  BY <1>8 DEF CancelStart, Consented
<1>9. CASE CancelMark
  BY <1>9 DEF CancelMark, Consented
<1>10. CASE CancelQueue
  BY <1>10 DEF CancelQueue, Consented
<1>11. CASE CancelDone
  BY <1>11 DEF CancelDone, Consented
<1>12. CASE CancelAnswer
  BY <1>12 DEF CancelAnswer, Consented
<1>13. CASE Disconnect
  BY <1>13 DEF Disconnect, Consented
<1>14. CASE ContinueInspect
  BY <1>14 DEF ContinueInspect, Consented
<1>15. CASE ContinueBroken
  BY <1>15 DEF ContinueBroken, Consented
<1>16. CASE ContinueRefused
  BY <1>16 DEF ContinueRefused, Consented
<1>17. CASE ContinueReconcile
  BY <1>17 DEF ContinueReconcile, Consented
<1>18. CASE ContinueClosed
  BY <1>18 DEF ContinueClosed, Consented
<1>19. CASE ContinueDrop
  BY <1>19 DEF ContinueDrop, Consented
<1>20. CASE ContinueFinished
  BY <1>20 DEF ContinueFinished, Consented
<1>21. CASE ContinueCheck
  BY <1>21 DEF ContinueCheck, Consented
<1>22. CASE ContinueReady
  BY <1>22 DEF ContinueReady, Consented
<1>23. CASE PublishAllow
  BY <1>23 DEF PublishAllow, Consented
<1>24. CASE PublishEnqueue
  BY <1>24 DEF PublishEnqueue, Consented
<1>25. CASE Track
  BY <1>25 DEF Track, Consented
<1>26. CASE Untrack
  BY <1>26 DEF Untrack, Consented
<1> QED
  BY <1>1, <1>2, <1>3, <1>4, <1>5, <1>6, <1>7, <1>8, <1>9, <1>10, <1>11,
     <1>12, <1>13, <1>14, <1>15, <1>16, <1>17, <1>18, <1>19, <1>20, <1>21,
     <1>22, <1>23, <1>24, <1>25, <1>26
  DEF Control

LEMMA UserConsents ==
  ASSUME Shape, User
  PROVE  Consented
<1>1. CASE SendMessage
  BY <1>1 DEF SendMessage, Consented
<1>2. CASE SendEnqueue
  BY <1>2 DEF SendEnqueue, Consented
<1>3. CASE KillPause
  BY <1>3 DEF KillPause, Consented
<1>4. CASE KillAct
  BY <1>4 DEF KillAct, Consented
<1>5. CASE LookRead
  BY <1>5 DEF LookRead, Consented
<1>6. CASE LookWrite
  BY <1>6 DEF LookWrite, Consented
<1> QED
  BY <1>1, <1>2, <1>3, <1>4, <1>5, <1>6
  DEF User

LEMMA ProcessConsents ==
  ASSUME Shape, Process
  PROVE  Consented
<1>1. CASE Shutdown
  BY <1>1 DEF Shutdown, Consented
<1>2. CASE ShutdownCancel
  BY <1>2 DEF ShutdownCancel, Consented
<1>3. CASE Crash
  BY <1>3 DEF Crash, Consented
<1>4. CASE Recover
  BY <1>4 DEF Recover, Consented
<1>5. CASE RecoverBlock
  BY <1>5 DEF RecoverBlock, Consented
<1> QED
  BY <1>1, <1>2, <1>3, <1>4, <1>5
  DEF Process

-----------------------------------------------------------------------------
(* The inductive invariant.                                                *)

LEMMA NextFlags ==
  ASSUME Flags, [Next]_vars
  PROVE  Flags'
<1>1. CASE Runner
  BY <1>1, RunnerFlags
<1>2. CASE Monitor
  BY <1>2, MonitorFlags
<1>3. CASE Control
  BY <1>3, ControlFlags
<1>4. CASE User
  BY <1>4, UserFlags
<1>5. CASE Process
  BY <1>5, ProcessFlags
<1>6. CASE Expire
  BY <1>6, Zenon DEF Expire, Flags
<1>7. CASE UNCHANGED vars
  BY <1>7, Zenon DEF vars, Flags
<1> QED
  BY <1>1, <1>2, <1>3, <1>4, <1>5, <1>6, <1>7 DEF Next

LEMMA NextShape ==
  ASSUME Shape, [Next]_vars
  PROVE  Shape'
<1>1. CASE Runner
  BY <1>1, RunnerShape
<1>2. CASE Monitor
  BY <1>2, MonitorShape
<1>3. CASE Control
  BY <1>3, ControlShape
<1>4. CASE User
  BY <1>4, UserShape
<1>5. CASE Process
  BY <1>5, ProcessShape
<1>6. CASE Expire
  BY <1>6 DEF Expire
<1>7. CASE UNCHANGED vars
  BY <1>7 DEF vars
<1> QED
  BY <1>1, <1>2, <1>3, <1>4, <1>5, <1>6, <1>7 DEF Next

LEMMA NextOnce ==
  ASSUME Shape, Taken, Fresh, SingleFlight, [Next]_vars
  PROVE  Taken' /\ Fresh' /\ SingleFlight'
<1>1. CASE Runner
  BY <1>1, RunnerOnce
<1>2. CASE Monitor
  BY <1>2, MonitorOnce
<1>3. CASE Control
  BY <1>3, ControlOnce
<1>4. CASE User
  BY <1>4, UserOnce
<1>5. CASE Process
  BY <1>5, ProcessOnce
<1>6. CASE Expire
  BY <1>6 DEF Expire, Taken, Fresh, SingleFlight, InFlight
<1>7. CASE UNCHANGED vars
  BY <1>7 DEF vars, Taken, Fresh, SingleFlight, InFlight
<1> QED
  BY <1>1, <1>2, <1>3, <1>4, <1>5, <1>6, <1>7 DEF Next

LEMMA NextChats ==
  ASSUME Shape, Taken, ChatAgrees, [Next]_vars
  PROVE  ChatAgrees'
<1>1. CASE Runner
  BY <1>1, RunnerChats
<1>2. CASE Monitor
  BY <1>2, MonitorChats
<1>3. CASE Control
  BY <1>3, ControlChats
<1>4. CASE User
  BY <1>4, UserChats
<1>5. CASE Process
  BY <1>5, ProcessChats
<1>6. CASE Expire
  BY <1>6 DEF Expire, ChatAgrees
<1>7. CASE UNCHANGED vars
  BY <1>7 DEF vars, ChatAgrees
<1> QED
  BY <1>1, <1>2, <1>3, <1>4, <1>5, <1>6, <1>7 DEF Next

LEMMA NextOrder ==
  ASSUME Shape, Taken, Fresh, Ordered, FifoOrder, [Next]_vars
  PROVE  Ordered' /\ FifoOrder'
<1>1. CASE Runner
  BY <1>1, RunnerOrder
<1>2. CASE Monitor
  BY <1>2, MonitorOrder
<1>3. CASE Control
  BY <1>3, ControlOrder
<1>4. CASE User
  BY <1>4, UserOrder
<1>5. CASE Process
  BY <1>5, ProcessOrder
<1>6. CASE Expire
  BY <1>6 DEF Expire, Taken, Fresh, Ordered, FifoOrder
<1>7. CASE UNCHANGED vars
  BY <1>7 DEF vars, Taken, Fresh, Ordered, FifoOrder
<1> QED
  BY <1>1, <1>2, <1>3, <1>4, <1>5, <1>6, <1>7 DEF Next

LEMMA NextQuiet ==
  ASSUME Shape, CancelQuiesces, [Next]_vars
  PROVE  CancelQuiesces'
<1>1. CASE Runner
  BY <1>1, RunnerQuiet
<1>2. CASE Monitor
  BY <1>2, MonitorQuiet
<1>3. CASE Control
  BY <1>3, ControlQuiet
<1>4. CASE User
  BY <1>4, UserQuiet
<1>5. CASE Process
  BY <1>5, ProcessQuiet
<1>6. CASE Expire
  BY <1>6 DEF Expire, CancelQuiesces
<1>7. CASE UNCHANGED vars
  BY <1>7 DEF vars, CancelQuiesces
<1> QED
  BY <1>1, <1>2, <1>3, <1>4, <1>5, <1>6, <1>7 DEF Next

LEMMA NextResumes ==
  ASSUME Shape, [Next]_vars
  PROVE  Resumed
<1>1. CASE Runner
  BY <1>1, RunnerResumes
<1>2. CASE Monitor
  BY <1>2, MonitorResumes
<1>3. CASE Control
  BY <1>3, ControlResumes
<1>4. CASE User
  BY <1>4, UserResumes
<1>5. CASE Process
  BY <1>5, ProcessResumes
<1>6. CASE Expire
  BY <1>6 DEF Expire, Resumed
<1>7. CASE UNCHANGED vars
  BY <1>7 DEF vars, Resumed
<1> QED
  BY <1>1, <1>2, <1>3, <1>4, <1>5, <1>6, <1>7 DEF Next

LEMMA NextConsents ==
  ASSUME Shape, [Next]_vars
  PROVE  Consented
<1>1. CASE Runner
  BY <1>1, RunnerConsents
<1>2. CASE Monitor
  BY <1>2, MonitorConsents
<1>3. CASE Control
  BY <1>3, ControlConsents
<1>4. CASE User
  BY <1>4, UserConsents
<1>5. CASE Process
  BY <1>5, ProcessConsents
<1>6. CASE Expire
  BY <1>6 DEF Expire, Consented
<1>7. CASE UNCHANGED vars
  BY <1>7 DEF vars, Consented
<1> QED
  BY <1>1, <1>2, <1>3, <1>4, <1>5, <1>6, <1>7 DEF Next

LEMMA InitInv == Init => IInv
<1> SUFFICES ASSUME Init PROVE IInv
  OBVIOUS
<1>1. Flags
  BY AllowedAssumption, Zenon DEF Init, Flags
<1>2. Shape
  BY DEF Init
<1>3. Taken /\ Fresh /\ SingleFlight
  BY DEF Init, Taken, Fresh, SingleFlight, InFlight
<1>4. Ordered
  <2>1. \A d, e \in Id : d < e /\ state[d] = "absent" => state[e] = "absent"
    <3> SUFFICES ASSUME NEW d \in Id, NEW e \in Id, d < e, state[d] = "absent"
                 PROVE  state[e] = "absent"
      OBVIOUS
    <3>1. d \in Nat /\ e \in Nat /\ d >= 1 /\ e # 1
      BY EventsAssumption DEF Id
    <3>2. kind[e] = "run"
      BY <3>1 DEF Init
    <3> QED
      BY <3>2 DEF Init
  <2> QED
    BY <2>1 DEF Init, Ordered
<1>5. FifoOrder /\ CancelQuiesces /\ ChatAgrees
  BY DEF Init, FifoOrder, CancelQuiesces, ChatAgrees
<1> QED
  BY <1>1, <1>2, <1>3, <1>4, <1>5 DEF IInv, TypeOK

LEMMA StepInv == IInv /\ [Next]_vars => IInv'
<1> SUFFICES ASSUME IInv, [Next]_vars PROVE IInv'
  OBVIOUS
<1>1. Flags /\ Shape
  BY DEF IInv, TypeOK
<1>2. Flags' /\ Shape'
  BY <1>1, NextFlags, NextShape
<1>3. Taken' /\ Fresh' /\ SingleFlight'
  BY <1>1, NextOnce DEF IInv
<1>4. Ordered' /\ FifoOrder'
  BY <1>1, NextOrder DEF IInv
<1>5. CancelQuiesces'
  BY <1>1, NextQuiet DEF IInv
<1>6. ChatAgrees'
  BY <1>1, NextChats DEF IInv
<1> QED
  BY <1>2, <1>3, <1>4, <1>5, <1>6 DEF IInv, TypeOK

THEOREM Invariance == Spec => []IInv
  BY InitInv, StepInv, PTL DEF Spec

\* Every variable keeps its type, whatever stale value a step writes.
THEOREM TypeCorrect == Spec => []TypeOK
<1>1. IInv => TypeOK
  BY DEF IInv
<1> QED
  BY <1>1, Invariance, PTL

\* At most one event of the conversation is running or has an unknown outcome:
\* the claim transaction against every canceller, failure and restart.
THEOREM OneInFlight == Spec => []SingleFlight
<1>1. IInv => SingleFlight
  BY DEF IInv
<1> QED
  BY <1>1, Invariance, PTL

\* No event reaches the executor twice, and none that did waits again.
THEOREM AtMostOnce == Spec => []NeverReplayed
<1>1. IInv => NeverReplayed
  BY DEF IInv, TypeOK, Fresh, NeverReplayed
<1> QED
  BY <1>1, Invariance, PTL

\* No message or publication is overtaken on its way to the executor.
THEOREM InOrder == Spec => []FifoOrder
<1>1. IInv => FifoOrder
  BY DEF IInv
<1> QED
  BY <1>1, Invariance, PTL

\* Once a cancellation is over, the runner holds no event of the task.
THEOREM CancelHolds == Spec => []CancelQuiesces
<1>1. IInv => CancelQuiesces
  BY DEF IInv
<1> QED
  BY <1>1, Invariance, PTL

\* The chat rows that people see tell what the queue does with their events.
THEOREM ChatsTell == Spec => []ChatAgrees
<1>1. IInv => ChatAgrees
  BY DEF IInv
<1> QED
  BY <1>1, Invariance, PTL

\* A stop survives every step in flight; only the user's requests end it.
THEOREM StopHolds == Spec => StopSticks
<1>1. IInv /\ [Next]_vars => [Resumed]_vars
  BY NextResumes DEF IInv, TypeOK
<1> QED
  BY <1>1, Invariance, PTL DEF Spec, StopSticks, Resumed

\* Feedback runs only under limits read in the transaction that admits it.
THEOREM ConsentHolds == Spec => FeedbackConsent
<1>1. IInv /\ [Next]_vars => [Consented]_vars
  BY NextConsents DEF IInv, TypeOK
<1> QED
  BY <1>1, Invariance, PTL DEF Spec, FeedbackConsent, Consented
=============================================================================
