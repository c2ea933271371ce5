--------------------------- MODULE AutoPauseProofs ---------------------------
(* What Auto Pause guarantees for every set of background threads, every    *)
(* set of requests and whatever fails.                                      *)
EXTENDS AutoPause, FiniteSetTheorems, TLAPS

Counts == Gate!TypeOK /\ CountsWork

-----------------------------------------------------------------------------
(* The gate's part of the invariant. *)

\* The gate's variables but the window's flag are left alone by everybody but
\* the background threads.
LEMMA CountsUntouched ==
  ASSUME Counts, UNCHANGED <<active, job>>, quiet' \in BOOLEAN, stop' \in BOOLEAN
  PROVE  Counts'
BY DEF Counts, Gate!TypeOK, CountsWork, Gate!Working

\* A thread that is admitted, or is done, changes the count by itself.
LEMMA BackgroundCounts ==
  ASSUME Counts, NEW w \in Workers, Gate!Worker(w)
  PROVE  Counts' /\ UNCHANGED <<quiet, stop>>
<1>. USE DEF Counts, Gate!TypeOK, CountsWork
<1>1. IsFiniteSet(Gate!Working)
  BY ConstantsAssumption, FS_Subset DEF Gate!Working
<1>2. CASE Gate!Acquire(w)
  <2>1. Gate!Working' = Gate!Working \cup {w} /\ w \notin Gate!Working
    BY <1>2 DEF Gate!Acquire, Gate!Working
  <2>2. Cardinality(Gate!Working \cup {w}) = Cardinality(Gate!Working) + 1
    BY <1>1, <2>1, FS_AddElement
  <2> QED BY <1>2, <2>1, <2>2 DEF Gate!Acquire
<1>3. CASE Gate!Release(w)
  <2>1. Gate!Working' = Gate!Working \ {w} /\ w \in Gate!Working
    BY <1>3 DEF Gate!Release, Gate!Working
  <2>2. Cardinality(Gate!Working \ {w}) = Cardinality(Gate!Working) - 1
    BY <1>1, <2>1, FS_RemoveElement
  <2> QED BY <1>3, <2>1, <2>2 DEF Gate!Release
<1>4. CASE Gate!Refuse(w) \/ Gate!WakeUp(w) \/ Gate!Quit(w)
  <2>1. UNCHANGED <<active, quiet, stop>> /\ job[w] # "working"
    BY <1>4 DEF Gate!Refuse, Gate!WakeUp, Gate!Quit
  <2>2. PICK s \in {"idle", "waiting", "gone"} : job' = [job EXCEPT ![w] = s]
    BY <1>4 DEF Gate!Refuse, Gate!WakeUp, Gate!Quit
  <2>3. Gate!Working' = Gate!Working
    BY <2>1, <2>2 DEF Gate!Working
  <2> QED BY <2>1, <2>2, <2>3
<1> QED BY <1>2, <1>3, <1>4 DEF Gate!Worker

\* With the counter at zero nobody is at work.
LEMMA ZeroMeansNobody ==
  ASSUME Counts, active = 0
  PROVE  Gate!Working = {}
<1>1. IsFiniteSet(Gate!Working)
  BY ConstantsAssumption, FS_Subset DEF Gate!Working
<1> QED BY <1>1, FS_EmptySet DEF Counts, CountsWork

-----------------------------------------------------------------------------
(* Every step keeps the invariant. *)

LEMMA InitLockInv == Init => LockInv
<1> SUFFICES ASSUME Init PROVE LockInv
  OBVIOUS
<1>1. Gate!Working = {} /\ Gate!TypeOK
  BY DEF Init, Gate!Init, Gate!Working, Gate!TypeOK
<1>2. CountsWork
  BY <1>1, FS_EmptySet DEF Init, Gate!Init, CountsWork
<1>3. TypeOK
  BY <1>1 DEF Init, EvidenceInit, TypeOK, ControlPoints
<1> QED BY <1>2, <1>3 DEF Init, Gate!Init, LockInv, Frozen, LockIsOwned, ExitIsLatched,
  LatchStopsSuspension, WindowIsHeld, StoppedIsGuarded, StoppedIsPaused, AttemptIsAwake,
  ResumedIsAwake, StreamEndIsFinal, RunDisabledIsAwake, RecoveryKnows, AwakeAtSigint,
  LockPoints, AttemptPoints, HeldPoints, SuspendPoints

LEMMA LoopKeepsLockInv ==
  ASSUME LockInv,
         LeaveLoop \/ HandleDisabled \/ NoRequest \/ PauseRequest \/ ResumeRequest
         \/ ResetRequest \/ Tick \/ IdleAttempt \/ TickPaused \/ WakeEvent \/ WaitEnds
  PROVE  LockInv'
<1>. USE DEF attempt, control, files, evidence, world, gateVars, exit, Goto, Return,
             BeginResume
<1>1. quiet' \in BOOLEAN /\ stop' \in BOOLEAN /\ UNCHANGED <<active, job>>
  BY DEF LockInv, TypeOK, Gate!TypeOK, LeaveLoop, HandleDisabled, NoRequest, PauseRequest,
     ResumeRequest, ResetRequest, Tick, IdleAttempt, TickPaused, WakeEvent, WaitEnds
<1>2. Counts'
  BY <1>1, CountsUntouched DEF LockInv, TypeOK, Counts
<1>. USE <1>2 DEF LockInv, TypeOK, Counts, ControlPoints, RequestKinds, Frozen, LockIsOwned, ExitIsLatched,
  LatchStopsSuspension, WindowIsHeld, StoppedIsGuarded, StoppedIsPaused, AttemptIsAwake,
  ResumedIsAwake, StreamEndIsFinal, RunDisabledIsAwake, RecoveryKnows, AwakeAtSigint,
  LockPoints, AttemptPoints, HeldPoints, SuspendPoints
<1>3. CASE LeaveLoop
  BY <1>3 DEF LeaveLoop
<1>4. CASE HandleDisabled
  BY <1>4 DEF HandleDisabled
<1>5. CASE NoRequest
  BY <1>5 DEF NoRequest
<1>6. CASE PauseRequest
  <2>1. forced' \in BOOLEAN
    BY <1>6 DEF PauseRequest
  <2> QED BY <1>6, <2>1 DEF PauseRequest
<1>7. CASE ResumeRequest
  BY <1>7 DEF ResumeRequest
<1>8. CASE ResetRequest
  <2>1. present' \in BOOLEAN /\ session' \in BOOLEAN /\ degraded' \in BOOLEAN
        /\ UNCHANGED <<ready, stream, activity>>
    BY <1>8 DEF ResetRequest, ForgetEvidence
  <2> QED BY <1>8, <2>1 DEF ResetRequest
<1>9. CASE Tick
  BY <1>9 DEF Tick
<1>10. CASE IdleAttempt
  <2>1. forced' \in BOOLEAN
    BY <1>10 DEF IdleAttempt
  <2> QED BY <1>10, <2>1 DEF IdleAttempt
<1>11. CASE TickPaused
  BY <1>11 DEF TickPaused
<1>12. CASE WakeEvent
  BY <1>12 DEF WakeEvent
<1>13. CASE WaitEnds
  BY <1>13 DEF WaitEnds
<1> QED BY <1>3, <1>4, <1>5, <1>6, <1>7, <1>8, <1>9, <1>10, <1>11, <1>12, <1>13

LEMMA ResumeKeepsLockInv ==
  ASSUME LockInv,
         ResumeTree \/ ReopenGate \/ DisableAfterResume
  PROVE  LockInv'
<1>. USE DEF attempt, control, files, evidence, world, gateVars, exit, Goto, Return
<1>1. quiet' \in BOOLEAN /\ stop' \in BOOLEAN /\ UNCHANGED <<active, job>>
  BY DEF LockInv, TypeOK, Gate!TypeOK, ResumeTree, ReopenGate, DisableAfterResume, TreeAwakes
     , TreeStaysFrozen, ClearPaused, Gate!Resume
<1>2. Counts'
  BY <1>1, CountsUntouched DEF LockInv, TypeOK, Counts
<1>. USE <1>2 DEF LockInv, TypeOK, Counts, ControlPoints, RequestKinds, Frozen, LockIsOwned, ExitIsLatched,
  LatchStopsSuspension, WindowIsHeld, StoppedIsGuarded, StoppedIsPaused, AttemptIsAwake,
  ResumedIsAwake, StreamEndIsFinal, RunDisabledIsAwake, RecoveryKnows, AwakeAtSigint,
  LockPoints, AttemptPoints, HeldPoints, SuspendPoints
<1>3. CASE ResumeTree
  BY <1>3 DEF ResumeTree, TreeAwakes, TreeStaysFrozen
<1>4. CASE ReopenGate
  <2>1. pausedMarker' \in BOOLEAN
    BY <1>4 DEF ReopenGate, ClearPaused, Gate!Resume
  <2> QED BY <1>4, <2>1 DEF ReopenGate, ClearPaused, Gate!Resume
<1>5. CASE DisableAfterResume
  <2>1. runDisabled' \in BOOLEAN
    BY <1>5 DEF DisableAfterResume
  <2> QED BY <1>5, <2>1 DEF DisableAfterResume
<1> QED BY <1>3, <1>4, <1>5

LEMMA AttemptKeepsLockInv ==
  ASSUME LockInv,
         Check \/ EnterWindow \/ FirstProbe \/ BaseSave \/ AwaitSave \/ Settle
         \/ ArmWake \/ SecondProbe \/ Restat \/ Unarm \/ Unquiet
  PROVE  LockInv'
<1>. USE DEF attempt, control, files, evidence, world, gateVars, exit, Goto, Return
<1>1. quiet' \in BOOLEAN /\ stop' \in BOOLEAN /\ UNCHANGED <<active, job>>
  BY DEF LockInv, TypeOK, Gate!TypeOK, Check, EnterWindow, FirstProbe, BaseSave, AwaitSave
     , Settle, ArmWake, SecondProbe, Restat, Unarm, Unquiet, Vetoed, Gate!TryQuiet
     , GiveUpSave, Interrupted, Gate!Resume
<1>2. Counts'
  BY <1>1, CountsUntouched DEF LockInv, TypeOK, Counts
<1>. USE <1>2 DEF LockInv, TypeOK, Counts, ControlPoints, RequestKinds, Frozen, LockIsOwned, ExitIsLatched,
  LatchStopsSuspension, WindowIsHeld, StoppedIsGuarded, StoppedIsPaused, AttemptIsAwake,
  ResumedIsAwake, StreamEndIsFinal, RunDisabledIsAwake, RecoveryKnows, AwakeAtSigint,
  LockPoints, AttemptPoints, HeldPoints, SuspendPoints
<1>3. CASE Check
  BY <1>3 DEF Check, Vetoed
<1>4. CASE EnterWindow
  <2>1. activity' \in BOOLEAN /\ UNCHANGED <<ready, stream, degraded, present, session>>
    BY <1>4 DEF EnterWindow, RecordGeneration
  <2> QED BY <1>4, <2>1 DEF EnterWindow, Gate!TryQuiet
<1>5. CASE FirstProbe
  BY <1>5 DEF FirstProbe
<1>6. CASE BaseSave
  BY <1>6 DEF BaseSave, GiveUpSave
<1>7. CASE AwaitSave
  BY <1>7 DEF AwaitSave, GiveUpSave, Interrupted
<1>8. CASE Settle
  BY <1>8 DEF Settle, GiveUpSave, Interrupted
<1>9. CASE ArmWake
  BY <1>9 DEF ArmWake
<1>10. CASE SecondProbe
  BY <1>10 DEF SecondProbe
<1>11. CASE Restat
  BY <1>11 DEF Restat
<1>12. CASE Unarm
  BY <1>12 DEF Unarm
<1>13. CASE Unquiet
  BY <1>13 DEF Unquiet, Gate!Resume
<1> QED BY <1>3, <1>4, <1>5, <1>6, <1>7, <1>8, <1>9, <1>10, <1>11, <1>12, <1>13

LEMMA SuspendKeepsLockInv ==
  ASSUME LockInv,
         TakeLock \/ FinalCheck \/ SignalTree \/ VerifyTree \/ Pause
  PROVE  LockInv'
<1>. USE DEF attempt, control, files, evidence, world, gateVars, exit, Goto, Return
<1>1. quiet' \in BOOLEAN /\ stop' \in BOOLEAN /\ UNCHANGED <<active, job>>
  BY DEF LockInv, TypeOK, Gate!TypeOK, TakeLock, FinalCheck, SignalTree, VerifyTree, Pause
     , Vetoed, SuspendFailed, TreeAwakes
<1>2. Counts'
  BY <1>1, CountsUntouched DEF LockInv, TypeOK, Counts
<1>. USE <1>2 DEF LockInv, TypeOK, Counts, ControlPoints, RequestKinds, Frozen, LockIsOwned, ExitIsLatched,
  LatchStopsSuspension, WindowIsHeld, StoppedIsGuarded, StoppedIsPaused, AttemptIsAwake,
  ResumedIsAwake, StreamEndIsFinal, RunDisabledIsAwake, RecoveryKnows, AwakeAtSigint,
  LockPoints, AttemptPoints, HeldPoints, SuspendPoints
<1>3. CASE TakeLock
  BY <1>3 DEF TakeLock
<1>4. CASE FinalCheck
  BY <1>4 DEF FinalCheck, Vetoed
<1>5. CASE SignalTree
  BY <1>5 DEF SignalTree, SuspendFailed
<1>6. CASE VerifyTree
  BY <1>6 DEF VerifyTree, SuspendFailed, TreeAwakes
<1>7. CASE Pause
  <2>1. pausedMarker' \in BOOLEAN
    BY <1>7 DEF Pause
  <2> QED BY <1>7, <2>1 DEF Pause
<1> QED BY <1>3, <1>4, <1>5, <1>6, <1>7

LEMMA FailureKeepsLockInv ==
  ASSUME LockInv,
         Raise \/ HandleFailure \/ Recover \/ CloseAndEnd
  PROVE  LockInv'
<1>. USE DEF attempt, control, files, evidence, world, gateVars, exit, Goto, Return
<1>1. quiet' \in BOOLEAN /\ stop' \in BOOLEAN /\ UNCHANGED <<active, job>>
  BY DEF LockInv, TypeOK, Gate!TypeOK, Raise, HandleFailure, Recover, CloseAndEnd, Gate!Resume
     , TreeAwakes, TreeStaysFrozen
<1>2. Counts'
  BY <1>1, CountsUntouched DEF LockInv, TypeOK, Counts
<1>. USE <1>2 DEF LockInv, TypeOK, Counts, ControlPoints, RequestKinds, Frozen, LockIsOwned, ExitIsLatched,
  LatchStopsSuspension, WindowIsHeld, StoppedIsGuarded, StoppedIsPaused, AttemptIsAwake,
  ResumedIsAwake, StreamEndIsFinal, RunDisabledIsAwake, RecoveryKnows, AwakeAtSigint,
  LockPoints, AttemptPoints, HeldPoints, SuspendPoints
<1>3. CASE Raise
  <2>1. pausedMarker' \in BOOLEAN
    BY <1>3 DEF Raise
  <2>2. CASE ctl = "pausing"
    BY <1>3, <2>1, <2>2 DEF Raise
  <2>3. CASE ctl # "pausing"
    <3>1. UNCHANGED <<state, lock, pausedMarker>>
      BY <1>3, <2>3 DEF Raise
    <3>2. ctl' \in {"failed", "unquiet", "unarm"} /\ site' \in {site, "failed"}
          /\ ctl \notin LockPoints \cup {"recover", "close", "dead"}
      BY <1>3, <2>3, Zenon DEF Raise
    <3>3. UNCHANGED <<forced, latch, runDisabled, disabledMarker, request, evidence, world,
                      gateVars, exit>>
      BY <1>3, Zenon DEF Raise
    <3> QED BY <2>1, <2>3, <3>1, <3>2, <3>3
  <2> QED BY <2>2, <2>3
<1>4. CASE HandleFailure
  <2>1. runDisabled' \in BOOLEAN
    BY <1>4 DEF HandleFailure
  <2> QED BY <1>4, <2>1 DEF HandleFailure
<1>5. CASE Recover
  <2>1. pausedMarker' \in BOOLEAN
    BY <1>5 DEF Recover, Gate!Resume, ClearPaused, TreeAwakes, TreeStaysFrozen
  <2>2. CASE TreeAwakes
    BY <1>5, <2>1, <2>2 DEF Recover, TreeAwakes, Gate!Resume
  <2>3. CASE TreeStaysFrozen
    <3>1. CASE site = "was_paused"
      BY <1>5, <2>1, <2>3, <3>1 DEF Recover, TreeAwakes, TreeStaysFrozen, Gate!Resume
    <3>2. CASE site # "was_paused"
      BY <1>5, <2>1, <2>3, <3>2 DEF Recover, TreeAwakes, TreeStaysFrozen, Gate!Resume
    <3> QED BY <3>1, <3>2
  <2> QED BY <1>5, <2>2, <2>3 DEF Recover
<1>6. CASE CloseAndEnd
  BY <1>6 DEF CloseAndEnd
<1> QED BY <1>3, <1>4, <1>5, <1>6

LEMMA MainThreadKeepsLockInv ==
  ASSUME LockInv,
         ExitServer \/ SetLatch \/ CloseWake \/ Join \/ BeginShutdownResume
         \/ ShutdownResume \/ StopServer \/ SignalHandler
  PROVE  LockInv'
<1>. USE DEF attempt, control, files, evidence, world, gateVars, exit, Goto, Return
<1>1. quiet' \in BOOLEAN /\ stop' \in BOOLEAN /\ UNCHANGED <<active, job>>
  BY DEF LockInv, TypeOK, Gate!TypeOK, ExitServer, SetLatch, CloseWake, Join
     , BeginShutdownResume, ShutdownResume, StopServer, SignalHandler, Gate!Resume
     , TreeAwakes, TreeStaysFrozen, Gate!Stop, Gate!gateVars
<1>2. Counts'
  BY <1>1, CountsUntouched DEF LockInv, TypeOK, Counts
<1>. USE <1>2 DEF LockInv, TypeOK, Counts, ControlPoints, RequestKinds, Frozen, LockIsOwned, ExitIsLatched,
  LatchStopsSuspension, WindowIsHeld, StoppedIsGuarded, StoppedIsPaused, AttemptIsAwake,
  ResumedIsAwake, StreamEndIsFinal, RunDisabledIsAwake, RecoveryKnows, AwakeAtSigint,
  LockPoints, AttemptPoints, HeldPoints, SuspendPoints
<1>3. CASE ExitServer
  BY <1>3 DEF ExitServer
<1>4. CASE SetLatch
  <2>1. latch' \in BOOLEAN
    BY <1>4 DEF SetLatch
  <2> QED BY <1>4, <2>1 DEF SetLatch
<1>5. CASE CloseWake
  BY <1>5 DEF CloseWake
<1>6. CASE Join
  BY <1>6 DEF Join
<1>7. CASE BeginShutdownResume
  BY <1>7 DEF BeginShutdownResume
<1>8. CASE ShutdownResume
  <2>1. pausedMarker' \in BOOLEAN
    BY <1>8 DEF ShutdownResume, Gate!Resume, ClearPaused, TreeAwakes, TreeStaysFrozen
  <2> QED BY <1>8, <2>1 DEF ShutdownResume, Gate!Resume, TreeAwakes, TreeStaysFrozen
<1>9. CASE StopServer
  BY <1>9 DEF StopServer
<1>10. CASE SignalHandler
  BY <1>10 DEF SignalHandler, Gate!Stop, Gate!gateVars
<1> QED BY <1>3, <1>4, <1>5, <1>6, <1>7, <1>8, <1>9, <1>10

LEMMA EnvironmentKeepsLockInv ==
  ASSUME LockInv,
         NewEvidence \/ Operator \/ World
  PROVE  LockInv'
<1>. USE DEF attempt, control, files, evidence, world, gateVars, exit, Goto, Return
<1>1. quiet' \in BOOLEAN /\ stop' \in BOOLEAN /\ UNCHANGED <<active, job>>
  BY DEF LockInv, TypeOK, Gate!TypeOK, NewEvidence, Operator, World, Request,
     ToggleDisabled, GameSaves, Packet, GameDies
<1>2. Counts'
  BY <1>1, CountsUntouched DEF LockInv, TypeOK, Counts
<1>. USE <1>2 DEF LockInv, TypeOK, Counts, ControlPoints, RequestKinds, Frozen, LockIsOwned, ExitIsLatched,
  LatchStopsSuspension, WindowIsHeld, StoppedIsGuarded, StoppedIsPaused, AttemptIsAwake,
  ResumedIsAwake, StreamEndIsFinal, RunDisabledIsAwake, RecoveryKnows, AwakeAtSigint,
  LockPoints, AttemptPoints, HeldPoints, SuspendPoints
<1>3. CASE NewEvidence
  <2>1. ready' \in BOOLEAN /\ stream' \in BOOLEAN /\ degraded' \in BOOLEAN
        /\ present' \in BOOLEAN /\ session' \in BOOLEAN /\ activity' \in BOOLEAN
    BY <1>3 DEF NewEvidence, EvidenceMoves, ActivityLine, ClearSession, Expiry, StreamEnds, Wanes
  <2>2. UNCHANGED stream \/ ~stream'
    <3>1. ActivityLine \/ ClearSession \/ Expiry \/ StreamEnds
      BY <1>3, Zenon DEF NewEvidence, EvidenceMoves
    <3> QED BY <3>1, Zenon DEF ActivityLine, ClearSession, Expiry, StreamEnds
  <2>3. UNCHANGED <<ctl, attempt, control, files, world, gateVars, exit>>
    BY <1>3, Zenon DEF NewEvidence
  <2> QED BY <2>1, <2>2, <2>3
<1>4. CASE Operator
  <2>1. disabledMarker' \in BOOLEAN
    BY <1>4 DEF Operator, Request, ToggleDisabled
  <2> QED BY <1>4, <2>1 DEF Operator, Request, ToggleDisabled
<1>5. CASE World
  BY <1>5 DEF World, GameSaves, Packet, GameDies
<1> QED BY <1>3, <1>4, <1>5

LEMMA BackgroundKeepsLockInv ==
  ASSUME LockInv, Background
  PROVE  LockInv'
<1>1. PICK w \in Workers : Gate!Worker(w)
  BY DEF Background
<1>2. Counts' /\ UNCHANGED <<quiet, stop>>
  BY <1>1, BackgroundCounts DEF LockInv, TypeOK, Counts
<1>3. active = 0 => active' = 0 \/ (~quiet /\ ~stop)
  <2>1. CASE Gate!Acquire(w)
    BY <2>1 DEF Gate!Acquire
  <2>2. CASE Gate!Release(w)
    BY <2>2 DEF Gate!Release
  <2>3. CASE Gate!Refuse(w) \/ Gate!WakeUp(w) \/ Gate!Quit(w)
    BY <2>3 DEF Gate!Refuse, Gate!WakeUp, Gate!Quit
  <2> QED BY <1>1, <2>1, <2>2, <2>3 DEF Gate!Worker
<1>4. UNCHANGED <<ctl, attempt, control, files, evidence, world, main>>
  BY DEF Background
<1> QED BY <1>2, <1>3, <1>4 DEF attempt, control, files, evidence, world,
  LockInv, TypeOK, Counts, ControlPoints, RequestKinds, Frozen, LockIsOwned, ExitIsLatched,
  LatchStopsSuspension, WindowIsHeld, StoppedIsGuarded, StoppedIsPaused, AttemptIsAwake,
  ResumedIsAwake, StreamEndIsFinal, RunDisabledIsAwake, RecoveryKnows, AwakeAtSigint,
  LockPoints, AttemptPoints, HeldPoints, SuspendPoints

LEMMA StutterKeepsLockInv ==
  ASSUME LockInv, UNCHANGED vars
  PROVE  LockInv'
<1>. USE DEF vars, attempt, control, files, evidence, world, gateVars, exit
<1>1. Counts'
  BY CountsUntouched DEF LockInv, TypeOK, Gate!TypeOK, Counts
<1> QED BY <1>1 DEF LockInv, TypeOK, Counts, ControlPoints, RequestKinds, Frozen, LockIsOwned, ExitIsLatched,
  LatchStopsSuspension, WindowIsHeld, StoppedIsGuarded, StoppedIsPaused, AttemptIsAwake,
  ResumedIsAwake, StreamEndIsFinal, RunDisabledIsAwake, RecoveryKnows, AwakeAtSigint,
  LockPoints, AttemptPoints, HeldPoints, SuspendPoints

LEMMA StepKeepsLockInv == LockInv /\ [Next]_vars => LockInv'
<1> SUFFICES ASSUME LockInv, [Next]_vars PROVE LockInv'
  OBVIOUS
<1>1. CASE Controller
  BY <1>1, LoopKeepsLockInv, ResumeKeepsLockInv, AttemptKeepsLockInv, SuspendKeepsLockInv,
     FailureKeepsLockInv DEF Controller
<1>2. CASE Raise
  BY <1>2, FailureKeepsLockInv
<1>3. CASE MainThread \/ SignalHandler
  BY <1>3, MainThreadKeepsLockInv DEF MainThread
<1>4. CASE NewEvidence \/ Operator \/ World
  BY <1>4, EnvironmentKeepsLockInv
<1>5. CASE Background
  BY <1>5, BackgroundKeepsLockInv
<1>6. CASE UNCHANGED vars
  BY <1>6, StutterKeepsLockInv
<1> QED BY <1>1, <1>2, <1>3, <1>4, <1>5, <1>6 DEF Next

-----------------------------------------------------------------------------
(* Every step keeps what the state says of the pause. *)

\* Those who touch neither the controller nor the pause.
LEMMA BystandersKeepPausedInv ==
  ASSUME LockInv, PausedInv,
         SignalHandler \/ NewEvidence \/ Operator \/ Background \/ UNCHANGED vars
  PROVE  PausedInv'
<1>1. UNCHANGED <<ctl, site, lock, latch, state, runDisabled, pausedMarker, tree, wake, main>>
  BY DEF SignalHandler, NewEvidence, Operator, Request, ToggleDisabled, Background, vars,
     attempt, control, files, world, exit
<1>2. quiet' = quiet
  <2>1. CASE Background
    <3>1. PICK w \in Workers : Gate!Worker(w)
      BY <2>1 DEF Background
    <3> QED BY <3>1, BackgroundCounts DEF LockInv, TypeOK, Counts
  <2>2. CASE SignalHandler \/ NewEvidence \/ Operator \/ UNCHANGED vars
    BY <2>2 DEF SignalHandler, Gate!Stop, Gate!gateVars, NewEvidence, Operator, vars, gateVars
  <2> QED BY <2>1, <2>2
<1> QED BY <1>1, <1>2 DEF PausedInv, ServingIsUnlatched, DisablingIsOpen, RunDisabledIsOver,
  PauseIsKnown, ArmedToPause, PauseIsHeld, MarkerTells, FrozenIsPaused, NoLeakedWindow, Frozen

\* The game changes no more than the tree, which ends, and the wake source,
\* which is hit while it is armed.
LEMMA WorldKeepsPausedInv ==
  ASSUME LockInv, PausedInv, World
  PROVE  PausedInv'
<1>1. UNCHANGED <<ctl, site, lock, latch, state, runDisabled, pausedMarker, quiet, main>>
  BY DEF World, attempt, control, files, gateVars, exit
<1>2. tree' \in {tree, "gone"} /\ (wake # "closed" => wake' # "closed")
  BY DEF World, GameSaves, Packet, GameDies
<1> QED BY <1>1, <1>2 DEF PausedInv, ServingIsUnlatched, DisablingIsOpen, RunDisabledIsOver,
  PauseIsKnown, ArmedToPause, PauseIsHeld, MarkerTells, FrozenIsPaused, NoLeakedWindow, Frozen

\* Once the exit has begun, only the window and the latch are at stake.
LEMMA MainThreadKeepsPausedInv ==
  ASSUME LockInv, PausedInv,
         ExitServer \/ SetLatch \/ CloseWake \/ Join \/ BeginShutdownResume
         \/ ShutdownResume \/ StopServer
  PROVE  PausedInv'
<1>1. main' # "serving" /\ UNCHANGED <<ctl, runDisabled>>
  BY DEF ExitServer, SetLatch, CloseWake, Join, BeginShutdownResume, ShutdownResume,
     StopServer, attempt, control, files, exit
<1>2. latch' = TRUE \/ UNCHANGED <<latch, state>>
  BY DEF ExitServer, SetLatch, CloseWake, Join, BeginShutdownResume, ShutdownResume,
     StopServer, control, LockInv, TypeOK, ExitIsLatched
<1>3. \/ UNCHANGED <<quiet, state, lock>>
      \/ quiet' = FALSE
      \/ quiet' = quiet /\ (lock' = "main" \/ state' = "paused")
  BY DEF ExitServer, SetLatch, CloseWake, Join, BeginShutdownResume, ShutdownResume,
     StopServer, control, gateVars, Gate!Resume
<1> QED BY <1>1, <1>2, <1>3 DEF PausedInv, ServingIsUnlatched, DisablingIsOpen,
  RunDisabledIsOver, PauseIsKnown, ArmedToPause, PauseIsHeld, MarkerTells, FrozenIsPaused,
  NoLeakedWindow


LEMMA LoopKeepsPausedInv ==
  ASSUME LockInv, PausedInv,
         LeaveLoop \/ HandleDisabled \/ NoRequest \/ PauseRequest \/ ResumeRequest \/ ResetRequest \/ Tick \/ IdleAttempt \/ TickPaused \/ WakeEvent \/ WaitEnds
  PROVE  PausedInv'
<1>. USE DEF attempt, control, files, evidence, world, gateVars, exit, Goto, Return, Frozen,
  LockInv, TypeOK, LockIsOwned, ExitIsLatched, LatchStopsSuspension, WindowIsHeld,
  ResumedIsAwake, RunDisabledIsAwake, PausedInv, ServingIsUnlatched, DisablingIsOpen,
  RunDisabledIsOver, PauseIsKnown, ArmedToPause, PauseIsHeld, MarkerTells, FrozenIsPaused,
  NoLeakedWindow, WindowPoints, LockPoints, AttemptPoints, HeldPoints, SuspendPoints
<1>1. CASE LeaveLoop
  BY <1>1 DEF LeaveLoop
<1>2. CASE HandleDisabled
  BY <1>2 DEF HandleDisabled, BeginResume
<1>3. CASE NoRequest
  BY <1>3 DEF NoRequest
<1>4. CASE PauseRequest
  BY <1>4 DEF PauseRequest
<1>5. CASE ResumeRequest
  BY <1>5 DEF ResumeRequest
<1>6. CASE ResetRequest
  BY <1>6 DEF ResetRequest
<1>7. CASE Tick
  BY <1>7 DEF Tick
<1>8. CASE IdleAttempt
  BY <1>8 DEF IdleAttempt
<1>9. CASE TickPaused
  BY <1>9 DEF TickPaused, BeginResume
<1>10. CASE WakeEvent
  BY <1>10 DEF WakeEvent, BeginResume
<1>11. CASE WaitEnds
  BY <1>11 DEF WaitEnds
<1> QED BY <1>1, <1>2, <1>3, <1>4, <1>5, <1>6, <1>7, <1>8, <1>9, <1>10, <1>11

LEMMA ResumeKeepsPausedInv ==
  ASSUME LockInv, PausedInv,
         ResumeTree \/ ReopenGate \/ DisableAfterResume
  PROVE  PausedInv'
<1>. USE DEF attempt, control, files, evidence, world, gateVars, exit, Goto, Return, Frozen,
  LockInv, TypeOK, LockIsOwned, ExitIsLatched, LatchStopsSuspension, WindowIsHeld,
  ResumedIsAwake, RunDisabledIsAwake, PausedInv, ServingIsUnlatched, DisablingIsOpen,
  RunDisabledIsOver, PauseIsKnown, ArmedToPause, PauseIsHeld, MarkerTells, FrozenIsPaused,
  NoLeakedWindow, WindowPoints, LockPoints, AttemptPoints, HeldPoints, SuspendPoints
<1>1. CASE ResumeTree
  BY <1>1 DEF ResumeTree, TreeAwakes, TreeStaysFrozen
<1>2. CASE ReopenGate
  BY <1>2 DEF ReopenGate, ClearPaused, Gate!Resume
<1>3. CASE DisableAfterResume
  BY <1>3 DEF DisableAfterResume
<1> QED BY <1>1, <1>2, <1>3

LEMMA AttemptKeepsPausedInv ==
  ASSUME LockInv, PausedInv,
         Check \/ EnterWindow \/ FirstProbe \/ BaseSave \/ AwaitSave \/ Settle \/ ArmWake \/ SecondProbe \/ Restat \/ Unarm \/ Unquiet
  PROVE  PausedInv'
<1>. USE DEF attempt, control, files, evidence, world, gateVars, exit, Goto, Return, Frozen,
  LockInv, TypeOK, LockIsOwned, ExitIsLatched, LatchStopsSuspension, WindowIsHeld,
  ResumedIsAwake, RunDisabledIsAwake, PausedInv, ServingIsUnlatched, DisablingIsOpen,
  RunDisabledIsOver, PauseIsKnown, ArmedToPause, PauseIsHeld, MarkerTells, FrozenIsPaused,
  NoLeakedWindow, WindowPoints, LockPoints, AttemptPoints, HeldPoints, SuspendPoints
<1>1. CASE Check
  BY <1>1 DEF Check, Vetoed
<1>2. CASE EnterWindow
  BY <1>2 DEF EnterWindow, Gate!TryQuiet
<1>3. CASE FirstProbe
  BY <1>3 DEF FirstProbe
<1>4. CASE BaseSave
  BY <1>4 DEF BaseSave, GiveUpSave
<1>5. CASE AwaitSave
  BY <1>5 DEF AwaitSave, GiveUpSave
<1>6. CASE Settle
  BY <1>6 DEF Settle, GiveUpSave
<1>7. CASE ArmWake
  BY <1>7 DEF ArmWake
<1>8. CASE SecondProbe
  BY <1>8 DEF SecondProbe
<1>9. CASE Restat
  BY <1>9 DEF Restat
<1>10. CASE Unarm
  BY <1>10 DEF Unarm
<1>11. CASE Unquiet
  BY <1>11 DEF Unquiet, Gate!Resume
<1> QED BY <1>1, <1>2, <1>3, <1>4, <1>5, <1>6, <1>7, <1>8, <1>9, <1>10, <1>11

LEMMA SuspendKeepsPausedInv ==
  ASSUME LockInv, PausedInv,
         TakeLock \/ FinalCheck \/ SignalTree \/ VerifyTree \/ Pause
  PROVE  PausedInv'
<1>. USE DEF attempt, control, files, evidence, world, gateVars, exit, Goto, Return, Frozen,
  LockInv, TypeOK, LockIsOwned, ExitIsLatched, LatchStopsSuspension, WindowIsHeld,
  ResumedIsAwake, RunDisabledIsAwake, PausedInv, ServingIsUnlatched, DisablingIsOpen,
  RunDisabledIsOver, PauseIsKnown, ArmedToPause, PauseIsHeld, MarkerTells, FrozenIsPaused,
  NoLeakedWindow, WindowPoints, LockPoints, AttemptPoints, HeldPoints, SuspendPoints
<1>1. CASE TakeLock
  BY <1>1 DEF TakeLock
<1>2. CASE FinalCheck
  BY <1>2 DEF FinalCheck
<1>3. CASE SignalTree
  BY <1>3 DEF SignalTree, SuspendFailed
<1>4. CASE VerifyTree
  BY <1>4 DEF VerifyTree, SuspendFailed, TreeAwakes
<1>5. CASE Pause
  BY <1>5 DEF Pause
<1> QED BY <1>1, <1>2, <1>3, <1>4, <1>5

LEMMA FailureKeepsPausedInv ==
  ASSUME LockInv, PausedInv,
         Raise \/ HandleFailure \/ Recover \/ CloseAndEnd
  PROVE  PausedInv'
<1>. USE DEF attempt, control, files, evidence, world, gateVars, exit, Goto, Return, Frozen,
  LockInv, TypeOK, LockIsOwned, ExitIsLatched, LatchStopsSuspension, WindowIsHeld,
  ResumedIsAwake, RunDisabledIsAwake, PausedInv, ServingIsUnlatched, DisablingIsOpen,
  RunDisabledIsOver, PauseIsKnown, ArmedToPause, PauseIsHeld, MarkerTells, FrozenIsPaused,
  NoLeakedWindow, WindowPoints, LockPoints, AttemptPoints, HeldPoints, SuspendPoints
<1>1. CASE Raise
  <2>1. UNCHANGED <<forced, latch, runDisabled, quiet, tree, wake, main>>
    BY <1>1 DEF Raise
  <2>2. CASE ctl = "pausing"
    <3>1. /\ ctl' = "unarm" /\ site' = "failed" /\ state' = "paused" /\ lock' = "free"
      BY <1>1, <2>2 DEF Raise
    <3> QED BY <2>1, <2>2, <3>1
  <2>3. CASE ctl # "pausing"
    <3>1. UNCHANGED <<state, lock, pausedMarker>>
      BY <1>1, <2>3 DEF Raise
    <3>2. \/ ctl' = "failed" /\ ctl \notin {"resume", "reopen", "unarm", "unquiet"}
          \/ ctl' \in {"unquiet", "unarm"} /\ site' = "failed" /\ ctl \in HeldPoints
      BY <1>1, <2>3, Zenon DEF Raise
    <3>3. ctl \notin {"recover", "close", "dead", "verify"}
      BY <1>1, Zenon DEF Raise
    <3> QED BY <2>1, <2>3, <3>1, <3>2, <3>3
  <2> QED BY <2>2, <2>3
<1>2. CASE HandleFailure
  BY <1>2 DEF HandleFailure
<1>3. CASE Recover
  BY <1>3 DEF Recover, TreeAwakes, TreeStaysFrozen, Gate!Resume
<1>4. CASE CloseAndEnd
  BY <1>4 DEF CloseAndEnd
<1> QED BY <1>1, <1>2, <1>3, <1>4

LEMMA InitPausedInv == Init => PausedInv
<1> SUFFICES ASSUME Init PROVE PausedInv
  OBVIOUS
<1>1. /\ ctl = "top" /\ main = "serving" /\ latch = FALSE /\ quiet = FALSE
      /\ runDisabled = FALSE /\ pausedMarker = FALSE /\ tree = "running"
  BY DEF Init, Gate!Init
<1>2. state # "paused"
  BY DEF Init
<1> QED BY <1>1, <1>2 DEF PausedInv, ServingIsUnlatched, DisablingIsOpen, RunDisabledIsOver,
  PauseIsKnown, ArmedToPause, PauseIsHeld, MarkerTells, FrozenIsPaused, NoLeakedWindow,
  Frozen, AttemptPoints, SuspendPoints

LEMMA StepKeepsPausedInv == LockInv /\ PausedInv /\ [Next]_vars => PausedInv'
<1> SUFFICES ASSUME LockInv, PausedInv, [Next]_vars PROVE PausedInv'
  OBVIOUS
<1>1. CASE Controller
  BY <1>1, LoopKeepsPausedInv, ResumeKeepsPausedInv, AttemptKeepsPausedInv,
     SuspendKeepsPausedInv, FailureKeepsPausedInv DEF Controller
<1>2. CASE Raise
  BY <1>2, FailureKeepsPausedInv
<1>3. CASE MainThread
  BY <1>3, MainThreadKeepsPausedInv DEF MainThread
<1>4. CASE World
  BY <1>4, WorldKeepsPausedInv
<1>5. CASE SignalHandler \/ NewEvidence \/ Operator \/ Background \/ UNCHANGED vars
  BY <1>5, BystandersKeepPausedInv
<1> QED BY <1>1, <1>2, <1>3, <1>4, <1>5 DEF Next

-----------------------------------------------------------------------------
(* The theorems. *)

(* What the lock, the latch, the gate and the tree are to each other at every  *)
(* control point of the controller and the main thread (autopause.py); the     *)
(* theorems below follow from it.                                              *)
THEOREM PauseInvariant == Spec => []IInv
<1>1. Init => IInv
  BY InitLockInv, InitPausedInv DEF IInv
<1>2. IInv /\ [Next]_vars => IInv'
  BY StepKeepsLockInv, StepKeepsPausedInv DEF IInv
<1> QED BY <1>1, <1>2, PTL DEF Spec

\* Every variable has its type in every reachable state: the statuses written
\* are the documented ones, the gate's counter never goes below zero.
THEOREM AutoPauseTypeCorrect == Spec => []TypeOK
<1>1. LockInv => TypeOK
  BY DEF LockInv
<1> QED BY <1>1, InitLockInv, StepKeepsLockInv, PTL DEF Spec

\* SIGINT is never sent to a tree with a stopped process in it, whatever the
\* controller was doing when the shutdown began and whatever failed, unless
\* resume_for_shutdown() found out that the tree does not wake.
THEOREM ShutdownWakesTheTree == Spec => []AwakeAtSigint
<1>1. LockInv => AwakeAtSigint
  BY DEF LockInv
<1> QED BY <1>1, InitLockInv, StepKeepsLockInv, PTL DEF Spec

\* No backup, poll or summary is in flight while the tree is stopped, for every
\* number of background threads.
THEOREM NothingWorksOnAFrozenTree == Spec => []FrozenHasNoWork
<1>1. LockInv => FrozenHasNoWork
  <2> SUFFICES ASSUME LockInv, tree = "stopped" PROVE Gate!Working = {}
    BY DEF FrozenHasNoWork
  <2>1. active = 0
    BY DEF LockInv, StoppedIsGuarded
  <2> QED BY <2>1, ZeroMeansNobody DEF LockInv, Counts, TypeOK
<1> QED BY <1>1, InitLockInv, StepKeepsLockInv, PTL DEF Spec

\* A quiet window never outlives its reason, whatever fails and whenever the
\* shutdown comes: an attempt is inside it, the tree is paused, or the main
\* thread is about to end it.
THEOREM WindowsAreEnded == Spec => []NoLeakedWindow
<1>1. IInv => NoLeakedWindow
  BY DEF IInv, PausedInv
<1> QED BY <1>1, PauseInvariant, PTL

\* While the server is served, the loop's idea of the pause is the truth about
\* the tree, the window, the wake source and the marker, as long as a marker can
\* be removed and a failed suspension can be undone; every other failure, an
\* exception in the controller included, is allowed.
THEOREM PauseIsTrue ==
  ASSUME "files" \notin Faults, "rollback" \notin Faults
  PROVE  Spec => []PauseIsConsistent
<1>1. IInv => PauseIsConsistent
  <2> SUFFICES ASSUME IInv, main = "serving", ctl \in LoopPoints
               PROVE  /\ state = "paused" => tree # "running" /\ quiet /\ wake # "closed"
                      /\ pausedMarker <=> state = "paused"
                      /\ state = "active" => ~Frozen
    BY DEF PauseIsConsistent
  <2>1. ctl \in {"top", "request", "tick", "wait"}
    BY DEF LoopPoints
  <2>2. state = "paused" => tree # "running" /\ quiet /\ wake # "closed"
    BY <2>1 DEF IInv, PausedInv, PauseIsHeld
  <2>3. pausedMarker <=> state = "paused"
    BY <2>1 DEF IInv, PausedInv, MarkerTells
  <2>4. state = "active" => ~Frozen
    BY <2>1 DEF IInv, PausedInv, FrozenIsPaused
  <2> QED BY <2>2, <2>3, <2>4
<1> QED BY <1>1, PauseInvariant, PTL

-----------------------------------------------------------------------------
(* The refinement. *)

LEMMA InitRefines == Init => Window!Init
<1> SUFFICES ASSUME Init PROVE Window!Init
  OBVIOUS
<1> QED BY DEF Init, Gate!Init, Gate!Working, Window!Init

\* A step that admits nobody and changes neither flag is a thaw or a stutter,
\* unless it stops the tree.
LEMMA WorldStepRefines ==
  ASSUME UNCHANGED <<quiet, job, stop>>, tree' = "stopped" => tree = "stopped"
  PROVE  [Window!Next]_(Window!vars)
<1>1. Gate!Working' = Gate!Working
  BY DEF Gate!Working
<1>2. CASE (tree = "stopped")' = (tree = "stopped")
  BY <1>1, <1>2 DEF Window!vars
<1>3. CASE (tree = "stopped")' # (tree = "stopped")
  BY <1>1, <1>3 DEF Window!Next, Window!Thaw
<1> QED BY <1>2, <1>3

\* A step that closes the window leaves the tree awake, or comes after the stop.
LEMMA CloseRefines ==
  ASSUME UNCHANGED <<job, stop>>, quiet' = FALSE,
         tree' # "stopped" \/ (stop = TRUE /\ (tree = "stopped")' = (tree = "stopped"))
  PROVE  Window!Next
<1>1. Gate!Working' = Gate!Working
  BY DEF Gate!Working
<1> QED BY <1>1 DEF Window!Next, Window!Close

LEMMA BackgroundRefines ==
  ASSUME LockInv, Background
  PROVE  [Window!Next]_(Window!vars)
<1>1. PICK w \in Workers : Gate!Worker(w)
  BY DEF Background
<1>2. tree' = tree
  BY DEF Background, world
<1>3. CASE Gate!Acquire(w)
  <2>1. Gate!Working' = Gate!Working \cup {w}
    BY <1>3 DEF LockInv, TypeOK, Gate!TypeOK, Gate!Acquire, Gate!Working
  <2> QED BY <1>2, <1>3, <2>1 DEF Gate!Acquire, Window!Next, Window!Admit
<1>4. CASE Gate!Release(w)
  <2>1. Gate!Working' = Gate!Working \ {w}
    BY <1>4 DEF LockInv, TypeOK, Gate!TypeOK, Gate!Release, Gate!Working
  <2> QED BY <1>2, <1>4, <2>1 DEF Gate!Release, Window!Next, Window!Finish
<1>5. CASE Gate!Refuse(w) \/ Gate!WakeUp(w) \/ Gate!Quit(w)
  <2>1. UNCHANGED <<quiet, stop>> /\ job[w] # "working"
    BY <1>5 DEF Gate!Refuse, Gate!WakeUp, Gate!Quit
  <2>2. PICK s \in {"idle", "waiting", "gone"} : job' = [job EXCEPT ![w] = s]
    BY <1>5 DEF Gate!Refuse, Gate!WakeUp, Gate!Quit
  <2>3. Gate!Working' = Gate!Working
    BY <2>1, <2>2 DEF LockInv, TypeOK, Gate!TypeOK, Gate!Working
  <2> QED BY <1>2, <2>1, <2>3 DEF Window!vars
<1> QED BY <1>1, <1>3, <1>4, <1>5 DEF Gate!Worker

LEMMA StepRefines == LockInv /\ [Next]_vars => [Window!Next]_(Window!vars)
<1> SUFFICES ASSUME LockInv, [Next]_vars PROVE [Window!Next]_(Window!vars)
  OBVIOUS
<1>. USE DEF vars, attempt, control, files, evidence, world, gateVars, exit
\* Most steps concern neither the gate nor the tree.
<1>1. CASE \/ LeaveLoop \/ HandleDisabled \/ NoRequest \/ PauseRequest \/ ResumeRequest
           \/ ResetRequest \/ Tick \/ IdleAttempt \/ TickPaused \/ WakeEvent \/ WaitEnds
           \/ DisableAfterResume \/ Check \/ FirstProbe \/ BaseSave \/ AwaitSave \/ Settle
           \/ ArmWake \/ SecondProbe \/ Restat \/ TakeLock \/ FinalCheck \/ Pause \/ Unarm
           \/ HandleFailure \/ CloseAndEnd \/ Raise
  <2>1. UNCHANGED <<quiet, job, stop, tree>>
    BY <1>1 DEF LeaveLoop, HandleDisabled, NoRequest, PauseRequest, ResumeRequest,
       ResetRequest, Tick, IdleAttempt, TickPaused, WakeEvent, WaitEnds, BeginResume,
       DisableAfterResume, Check, FirstProbe, BaseSave, AwaitSave, Settle, GiveUpSave,
       ArmWake, SecondProbe, Restat, TakeLock, FinalCheck, Pause, Unarm, HandleFailure,
       CloseAndEnd, Raise, Goto
  <2> QED BY <2>1, WorldStepRefines
<1>2. CASE SetLatch \/ CloseWake \/ Join \/ BeginShutdownResume \/ NewEvidence \/ Operator
  <2>1. UNCHANGED <<quiet, job, stop, tree>>
    BY <1>2 DEF SetLatch, CloseWake, Join, BeginShutdownResume, NewEvidence, Operator
  <2> QED BY <2>1, WorldStepRefines
\* Some change the tree, none of them to "stopped".
<1>3. CASE ResumeTree \/ SignalTree \/ StopServer \/ World
  <2>1. UNCHANGED <<quiet, job, stop>> /\ (tree' = "stopped" => tree = "stopped")
    BY <1>3 DEF ResumeTree, TreeAwakes, TreeStaysFrozen, SignalTree, SuspendFailed,
       StopServer, World, GameSaves, Packet, GameDies
  <2> QED BY <2>1, WorldStepRefines
<1>4. CASE VerifyTree
  <2>1. UNCHANGED <<quiet, job, stop>>
    BY <1>4 DEF VerifyTree
  <2>2. CASE tree' # "stopped"
    BY <2>1, <2>2, WorldStepRefines
  <2>3. CASE tree' = "stopped"
    <3>1. quiet = TRUE
      BY <1>4 DEF VerifyTree, LockInv, TypeOK, Gate!TypeOK, WindowIsHeld, LatchStopsSuspension,
         HeldPoints, AttemptPoints, SuspendPoints
    <3>2. Gate!Working = {} /\ Gate!Working' = Gate!Working
      <4>1. active = 0
        BY <1>4 DEF VerifyTree, LockInv, WindowIsHeld, HeldPoints, AttemptPoints
      <4>2. Gate!Working = {}
        BY <4>1, ZeroMeansNobody DEF LockInv, TypeOK, Counts
      <4> QED BY <2>1, <4>2 DEF Gate!Working
    <3> QED BY <2>1, <2>3, <3>1, <3>2 DEF Window!Next, Window!Freeze
  <2> QED BY <2>2, <2>3
\* The window opens.
<1>5. CASE EnterWindow
  <2>1. CASE Gate!TryQuiet
    <3>1. Gate!Working = {}
      BY <2>1, ZeroMeansNobody DEF Gate!TryQuiet, LockInv, TypeOK, Counts
    <3>2. Gate!Working' = Gate!Working
      BY <2>1 DEF Gate!TryQuiet, Gate!Working
    <3> QED BY <1>5, <2>1, <3>1, <3>2 DEF EnterWindow, Gate!TryQuiet, Window!Next, Window!Open
  <2>2. CASE UNCHANGED gateVars
    BY <1>5, <2>2, WorldStepRefines DEF EnterWindow
  <2> QED BY <1>5, <2>1, <2>2 DEF EnterWindow
\* The window closes.
<1>6. CASE ReopenGate
  <2>1. UNCHANGED <<job, stop>> /\ quiet' = FALSE /\ tree' # "stopped"
    BY <1>6 DEF ReopenGate, ClearPaused, Gate!Resume, LockInv, ResumedIsAwake, Frozen
  <2> QED BY <2>1, CloseRefines
<1>7. CASE Unquiet
  <2>1. CASE state = "paused"
    BY <1>7, <2>1, WorldStepRefines DEF Unquiet
  <2>2. CASE state # "paused"
    <3>1. UNCHANGED <<job, stop, tree>> /\ quiet' = FALSE
      BY <1>7, <2>2 DEF Unquiet, Gate!Resume
    <3>2. tree # "stopped" \/ stop = TRUE
      BY <1>7, <2>2 DEF Unquiet, Goto, LockInv, TypeOK, Gate!TypeOK, StoppedIsPaused, ExitIsLatched
    <3> QED BY <3>1, <3>2, CloseRefines
  <2> QED BY <2>1, <2>2
<1>8. CASE Recover
  <2>1. UNCHANGED <<job, stop>>
    BY <1>8 DEF Recover, Gate!Resume
  <2>2. CASE TreeAwakes /\ Gate!Resume
    BY <2>1, <2>2, CloseRefines DEF TreeAwakes, Gate!Resume, Frozen
  <2>3. CASE TreeStaysFrozen /\ UNCHANGED gateVars
    BY <2>1, <2>3, WorldStepRefines DEF TreeStaysFrozen
  <2>4. CASE TreeStaysFrozen /\ site # "was_paused" /\ Gate!Resume
    <3>1. quiet' = FALSE /\ (tree' = tree \/ tree' # "stopped")
      BY <2>4 DEF Gate!Resume, TreeStaysFrozen
    <3>2. tree # "stopped" \/ stop = TRUE
      BY <1>8, <2>4 DEF Recover, Goto, LockInv, TypeOK, Gate!TypeOK, RecoveryKnows, ExitIsLatched
    <3> QED BY <2>1, <3>1, <3>2, CloseRefines
  <2> QED BY <1>8, <2>2, <2>3, <2>4 DEF Recover
<1>9. CASE ShutdownResume
  <2>1. UNCHANGED <<job, stop>>
    BY <1>9 DEF ShutdownResume, Gate!Resume
  <2>2. CASE TreeAwakes /\ Gate!Resume
    BY <2>1, <2>2, CloseRefines DEF TreeAwakes, Gate!Resume, Frozen
  <2>3. CASE TreeStaysFrozen /\ UNCHANGED gateVars
    BY <2>1, <2>3, WorldStepRefines DEF TreeStaysFrozen
  <2> QED BY <1>9, <2>2, <2>3 DEF ShutdownResume
\* Admission is sealed.
<1>10. CASE SignalHandler \/ ExitServer
  <2>1. UNCHANGED <<quiet, job, tree>> /\ stop' = TRUE
    BY <1>10 DEF SignalHandler, ExitServer, Gate!Stop, Gate!gateVars
  <2>2. Gate!Working' = Gate!Working
    BY <2>1 DEF Gate!Working
  <2> QED BY <2>1, <2>2 DEF Window!Next, Window!Seal
<1>11. CASE Background
  BY <1>11, BackgroundRefines
<1>12. CASE UNCHANGED vars
  BY <1>12, WorldStepRefines
<1> QED BY <1>1, <1>2, <1>3, <1>4, <1>5, <1>6, <1>7, <1>8, <1>9, <1>10, <1>11, <1>12
     DEF Next, Controller, MainThread

\* Auto Pause implements QuietWindow, for every set of background threads and
\* whatever fails: the tree is frozen only inside a quiet window, the window
\* opens on nobody at work and closes on an awake tree, or after the stop.
THEOREM AutoPauseImplementsQuietWindow == Spec => ImplementsQuietWindow
<1>1. LockInv /\ [Next]_vars => [Window!Next]_(Window!vars)
  BY StepRefines
<1> QED BY <1>1, InitLockInv, StepKeepsLockInv, InitRefines, PTL
        DEF Spec, ImplementsQuietWindow, Window!Spec
=============================================================================
