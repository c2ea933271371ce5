-------------------------- MODULE LifecycleProofs ---------------------------
(* What holds of every container, whatever its threads and settings, and    *)
(* however many faults and restarts there are.                              *)
EXTENDS Lifecycle, FiniteSetTheorems, TLAPS

-----------------------------------------------------------------------------
(* What the PauseGate guarantees for every set of background threads. *)

\* The inductive invariant: the counter counts, so try_quiet()'s test of the
\* counter is a test of the threads.
GateInv == TypeOK /\ CountsHolders /\ (quiet => active = 0)

\* Admitting a thread that was not working adds one to the count.
LEMMA AcquireCounts ==
  ASSUME TypeOK, CountsHolders, NEW w \in Workers, Acquire(w)
  PROVE  TypeOK' /\ CountsHolders'
<1>1. job' = [job EXCEPT ![w] = "working"] /\ active' = active + 1 /\ job[w] # "working"
  BY DEF Acquire
<1>2. Working' = Working \cup {w} /\ w \notin Working
  BY <1>1 DEF Working, TypeOK
<1>3. IsFiniteSet(Working)
  BY WorkersAssumption, FS_Subset DEF Working
<1>4. Cardinality(Working \cup {w}) = Cardinality(Working) + 1
  BY <1>2, <1>3, FS_AddElement
<1>5. TypeOK'
  BY DEF Acquire, TypeOK
<1>6. CountsHolders'
  BY <1>1, <1>2, <1>4 DEF CountsHolders
<1> QED BY <1>5, <1>6

\* Releasing takes one off, and there is one to take off.
LEMMA ReleaseCounts ==
  ASSUME TypeOK, CountsHolders, NEW w \in Workers, Release(w)
  PROVE  TypeOK' /\ CountsHolders'
<1>1. job' = [job EXCEPT ![w] = "idle"] /\ active' = active - 1 /\ job[w] = "working"
  BY DEF Release
<1>2. Working' = Working \ {w} /\ w \in Working
  BY <1>1 DEF Working, TypeOK
<1>3. IsFiniteSet(Working)
  BY WorkersAssumption, FS_Subset DEF Working
<1>4. Cardinality(Working \ {w}) = Cardinality(Working) - 1
  BY <1>2, <1>3, FS_RemoveElement
<1>5. TypeOK'
  BY DEF Release, TypeOK
<1>6. CountsHolders'
  BY <1>1, <1>2, <1>4 DEF CountsHolders
<1> QED BY <1>5, <1>6

\* The other steps of a thread leave the working set and the counter alone.
LEMMA OtherStepsCount ==
  ASSUME TypeOK, CountsHolders, NEW w \in Workers, Refuse(w) \/ WakeUp(w) \/ Quit(w)
  PROVE  TypeOK' /\ CountsHolders' /\ UNCHANGED <<active, quiet, stop>>
<1>1. UNCHANGED <<active, quiet, stop>> /\ job[w] # "working"
  BY DEF Refuse, WakeUp, Quit
<1>2. PICK s \in {"idle", "waiting", "gone"} : job' = [job EXCEPT ![w] = s]
  BY DEF Refuse, WakeUp, Quit
<1>3. Working' = Working
  BY <1>1, <1>2 DEF Working, TypeOK
<1>4. TypeOK'
  BY <1>1, <1>2 DEF TypeOK
<1> QED BY <1>1, <1>3, <1>4 DEF CountsHolders

\* A step of a background thread keeps the gate's invariant.
LEMMA WorkerKeepsGateInv ==
  ASSUME GateInv, NEW w \in Workers, Worker(w)
  PROVE  GateInv'
<1>1. CASE Acquire(w)
  <2>1. TypeOK' /\ CountsHolders'
    BY <1>1, AcquireCounts DEF GateInv
  <2> QED BY <1>1, <2>1 DEF GateInv, Acquire
<1>2. CASE Release(w)
  <2>1. TypeOK' /\ CountsHolders'
    BY <1>2, ReleaseCounts DEF GateInv
  <2> QED BY <1>2, <2>1 DEF GateInv, Release, TypeOK
<1>3. CASE Refuse(w) \/ WakeUp(w) \/ Quit(w)
  <2>1. TypeOK' /\ CountsHolders' /\ UNCHANGED <<active, quiet, stop>>
    BY <1>3, OtherStepsCount DEF GateInv
  <2> QED BY <2>1 DEF GateInv
<1> QED BY <1>1, <1>2, <1>3 DEF Worker

LEMMA InitGateInv == Init => GateInv
<1> SUFFICES ASSUME Init PROVE GateInv
  OBVIOUS
<1>1. Working = {}
  BY DEF Init, Working
<1> QED BY <1>1, FS_EmptySet DEF Init, GateInv, TypeOK, CountsHolders

LEMMA StepKeepsGateInv == GateInv /\ [Next]_vars => GateInv'
<1> SUFFICES ASSUME GateInv, [Next]_vars PROVE GateInv'
  OBVIOUS
<1>1. ASSUME NEW w \in Workers, Worker(w) PROVE GateInv'
  BY <1>1, WorkerKeepsGateInv
<1>2. CASE OpenWindow
  BY <1>2 DEF OpenWindow, TryQuiet, GateInv, TypeOK, CountsHolders, Working
<1>3. CASE CloseWindow
  BY <1>3 DEF CloseWindow, Resume, GateInv, TypeOK, CountsHolders, Working
<1>4. CASE Stop
  BY <1>4 DEF Stop, gateVars, GateInv, TypeOK, CountsHolders, Working
<1>5. CASE UNCHANGED vars
  BY <1>5 DEF vars, GateInv, TypeOK, CountsHolders, Working
<1> QED BY <1>1, <1>2, <1>3, <1>4, <1>5 DEF Next

\* The gate's fields have their types in every reachable state.
THEOREM GateTypeCorrect == Spec => []TypeOK
<1>1. GateInv => TypeOK
  BY DEF GateInv
<1> QED BY <1>1, InitGateInv, StepKeepsGateInv, PTL DEF Spec

\* release() never finds a zero counter: it counts the threads at work.
THEOREM GateCounts == Spec => []CountsHolders
<1>1. GateInv => CountsHolders
  BY DEF GateInv
<1> QED BY <1>1, InitGateInv, StepKeepsGateInv, PTL DEF Spec

\* A quiet window and work in flight exclude each other, whatever the number
\* of threads.
THEOREM GateExcludes == Spec => []QuietExcludesWork
<1>1. GateInv => QuietExcludesWork
  <2> SUFFICES ASSUME GateInv, quiet PROVE Working = {}
    BY DEF QuietExcludesWork
  <2>1. IsFiniteSet(Working)
    BY WorkersAssumption, FS_Subset DEF Working
  <2>2. Cardinality(Working) = 0
    BY DEF GateInv, CountsHolders
  <2> QED BY <2>1, <2>2, FS_EmptySet
<1> QED BY <1>1, InitGateInv, StepKeepsGateInv, PTL DEF Spec

-----------------------------------------------------------------------------
(* The inductive invariant, in parts. *)

FaultsCount == faults \in Nat

\* A signal that was heard is a request.
AskedIsHeard == asked => request # "none"

ExitPoints == {"unpause", "stop", "interrupted", "backup", "cleanup", "clear", "ended", "killed"}

\* The exit starts with a request; it works on that one to its end.
FinishHasRequest == At("finish") => request # "none"
ExitIsRequested == exiting # "none" => request # "none" /\ main \in ExitPoints
ExitKeepsRequest == main \in ExitPoints \ {"ended", "killed"} =>
                      exiting = request /\ request # "none"

\* No backup is taken before its place in the exit.
BackupInItsPlace == taken # "none" => main \in {"cleanup", "clear", "ended", "killed"}

\* The exit goes on only after the wrapper has ended, or its stop has failed.
WrapperIsGone ==
  main \in {"backup", "cleanup", "clear", "ended"} /\ wrapper = "up" => faults > 0

\* No game without a start, and none to come that the stop has signalled.
GameHasWrapper ==
  wrapper \in {"none", "up", "gone"} /\ (wrapper = "none" => game = "none")
LateIsMissed == At("interrupted") /\ game = "none" => missed

\* A game that outlives its wrapper, or is still to come after it, takes a fault
\* or a stop that found no game.
OrphanIsFault == wrapper = "gone" /\ game \in {"none", "up"} => faults > 0 \/ missed

\* What write_pid() wrote is there until the end.
PidIsThere == (At("written") \/ pidWritten) /\ ~Over => pidFile
PidIsCleared == At("ended") /\ pidFile => ~pidWritten \/ faults > 0

LifeInv ==
  /\ FaultsCount /\ AskedIsHeard
  /\ FinishHasRequest /\ ExitIsRequested /\ ExitKeepsRequest
  /\ BackupInItsPlace /\ WrapperIsGone
  /\ GameHasWrapper /\ LateIsMissed /\ OrphanIsFault
  /\ PidIsThere /\ PidIsCleared

USE DEF At, Goto, Over, Fault, exit, procs, pid, threads, bounds, vars, gateVars

-----------------------------------------------------------------------------
(* Each part is kept by every step. *)

LEMMA FaultsCountStep ==
  ASSUME FaultsCount, [LifecycleNext]_lifeVars
  PROVE  FaultsCount'
<1> USE DEF FaultsCount
<1>1. CASE StartFails \/ Kill \/ NewLife
  BY <1>1 DEF StartFails, Raise, Kill, NewLife
<1>2. CASE Prepare \/ Launch \/ WritePid \/ PidWritten \/ StartThread \/ Started
  BY <1>2 DEF Prepare, Launch, WritePid, PidWritten, StartThread, Started
<1>3. CASE Wait \/ Look \/ RecordCrash \/ Caught \/ RecordFailure \/ Signal
  BY <1>3 DEF Wait, Look, RecordCrash, Caught, RecordFailure, Signal, RecordShutdown
<1>4. CASE Finish \/ Unpause \/ StopServer \/ Stopped \/ ForceKill
  BY <1>4 DEF Finish, Unpause, StopServer, Stopped, ForceKill
<1>5. CASE WindUp
  BY <1>5 DEF WindUp, TriggeredBackup, CleanupWine, ClearPid
<1>6. CASE GameStarts \/ GameEnds \/ WrapperEnds \/ WrapperDies
  BY <1>6 DEF GameStarts, GameEnds, WrapperEnds, WrapperDies
<1>7. CASE Window \/ (\E w \in Workers : Background(w)) \/ UNCHANGED lifeVars
  BY <1>7 DEF Window, Background, lifeVars
<1> QED BY <1>1, <1>2, <1>3, <1>4, <1>5, <1>6, <1>7 DEF LifecycleNext, Main

LEMMA AskedIsHeardStep ==
  ASSUME AskedIsHeard, [LifecycleNext]_lifeVars
  PROVE  AskedIsHeard'
<1> USE DEF AskedIsHeard
<1>1. CASE StartFails \/ Kill \/ NewLife
  BY <1>1 DEF StartFails, Raise, Kill, NewLife
<1>2. CASE Prepare \/ Launch \/ WritePid \/ PidWritten \/ StartThread \/ Started
  BY <1>2 DEF Prepare, Launch, WritePid, PidWritten, StartThread, Started
<1>3. CASE Wait \/ Look \/ RecordCrash \/ Caught \/ RecordFailure \/ Signal
  BY <1>3 DEF Wait, Look, RecordCrash, Caught, RecordFailure, Signal, RecordShutdown
<1>4. CASE Finish \/ Unpause \/ StopServer \/ Stopped \/ ForceKill
  BY <1>4 DEF Finish, Unpause, StopServer, Stopped, ForceKill
<1>5. CASE WindUp
  BY <1>5 DEF WindUp, TriggeredBackup, CleanupWine, ClearPid
<1>6. CASE GameStarts \/ GameEnds \/ WrapperEnds \/ WrapperDies
  BY <1>6 DEF GameStarts, GameEnds, WrapperEnds, WrapperDies
<1>7. CASE Window \/ (\E w \in Workers : Background(w)) \/ UNCHANGED lifeVars
  BY <1>7 DEF Window, Background, lifeVars
<1> QED BY <1>1, <1>2, <1>3, <1>4, <1>5, <1>6, <1>7 DEF LifecycleNext, Main

LEMMA FinishHasRequestStep ==
  ASSUME FinishHasRequest, AskedIsHeard, [LifecycleNext]_lifeVars
  PROVE  FinishHasRequest'
<1> USE DEF FinishHasRequest, AskedIsHeard
<1>1. CASE StartFails \/ Kill \/ NewLife
  BY <1>1 DEF StartFails, Raise, Kill, NewLife
<1>2. CASE Prepare \/ Launch \/ WritePid \/ PidWritten \/ StartThread \/ Started
  BY <1>2 DEF Prepare, Launch, WritePid, PidWritten, StartThread, Started
<1>3. CASE Wait \/ Look \/ RecordCrash \/ Caught \/ RecordFailure \/ Signal
  BY <1>3 DEF Wait, Look, RecordCrash, Caught, RecordFailure, Signal, RecordShutdown
<1>4. CASE Finish \/ Unpause \/ StopServer \/ Stopped \/ ForceKill
  BY <1>4 DEF Finish, Unpause, StopServer, Stopped, ForceKill
<1>5. CASE WindUp
  BY <1>5 DEF WindUp, TriggeredBackup, CleanupWine, ClearPid
<1>6. CASE GameStarts \/ GameEnds \/ WrapperEnds \/ WrapperDies
  BY <1>6 DEF GameStarts, GameEnds, WrapperEnds, WrapperDies
<1>7. CASE Window \/ (\E w \in Workers : Background(w)) \/ UNCHANGED lifeVars
  BY <1>7 DEF Window, Background, lifeVars
<1> QED BY <1>1, <1>2, <1>3, <1>4, <1>5, <1>6, <1>7 DEF LifecycleNext, Main

LEMMA ExitIsRequestedStep ==
  ASSUME ExitIsRequested, AskedIsHeard, FinishHasRequest, [LifecycleNext]_lifeVars
  PROVE  ExitIsRequested'
<1> USE DEF ExitIsRequested, AskedIsHeard, FinishHasRequest, ExitPoints
<1>1. CASE StartFails \/ Kill \/ NewLife
  BY <1>1 DEF StartFails, Raise, Kill, NewLife
<1>2. CASE Prepare \/ Launch \/ WritePid \/ PidWritten \/ StartThread \/ Started
  BY <1>2 DEF Prepare, Launch, WritePid, PidWritten, StartThread, Started
<1>3. CASE Wait \/ Look \/ RecordCrash \/ Caught \/ RecordFailure \/ Signal
  BY <1>3 DEF Wait, Look, RecordCrash, Caught, RecordFailure, Signal, RecordShutdown
<1>4. CASE Finish \/ Unpause \/ StopServer \/ Stopped \/ ForceKill
  BY <1>4 DEF Finish, Unpause, StopServer, Stopped, ForceKill
<1>5. CASE WindUp
  BY <1>5 DEF WindUp, TriggeredBackup, CleanupWine, ClearPid
<1>6. CASE GameStarts \/ GameEnds \/ WrapperEnds \/ WrapperDies
  BY <1>6 DEF GameStarts, GameEnds, WrapperEnds, WrapperDies
<1>7. CASE Window \/ (\E w \in Workers : Background(w)) \/ UNCHANGED lifeVars
  BY <1>7 DEF Window, Background, lifeVars
<1> QED BY <1>1, <1>2, <1>3, <1>4, <1>5, <1>6, <1>7 DEF LifecycleNext, Main

LEMMA ExitKeepsRequestStep ==
  ASSUME ExitKeepsRequest, FinishHasRequest, [LifecycleNext]_lifeVars
  PROVE  ExitKeepsRequest'
<1> USE DEF ExitKeepsRequest, FinishHasRequest, ExitPoints
<1>1. CASE StartFails \/ Kill \/ NewLife
  BY <1>1 DEF StartFails, Raise, Kill, NewLife
<1>2. CASE Prepare \/ Launch \/ WritePid \/ PidWritten \/ StartThread \/ Started
  BY <1>2 DEF Prepare, Launch, WritePid, PidWritten, StartThread, Started
<1>3. CASE Wait \/ Look \/ RecordCrash \/ Caught \/ RecordFailure \/ Signal
  BY <1>3 DEF Wait, Look, RecordCrash, Caught, RecordFailure, Signal, RecordShutdown
<1>4. CASE Finish \/ Unpause \/ StopServer \/ Stopped \/ ForceKill
  BY <1>4 DEF Finish, Unpause, StopServer, Stopped, ForceKill
<1>5. CASE WindUp
  BY <1>5 DEF WindUp, TriggeredBackup, CleanupWine, ClearPid
<1>6. CASE GameStarts \/ GameEnds \/ WrapperEnds \/ WrapperDies
  BY <1>6 DEF GameStarts, GameEnds, WrapperEnds, WrapperDies
<1>7. CASE Window \/ (\E w \in Workers : Background(w)) \/ UNCHANGED lifeVars
  BY <1>7 DEF Window, Background, lifeVars
<1> QED BY <1>1, <1>2, <1>3, <1>4, <1>5, <1>6, <1>7 DEF LifecycleNext, Main

LEMMA BackupInItsPlaceStep ==
  ASSUME BackupInItsPlace, [LifecycleNext]_lifeVars
  PROVE  BackupInItsPlace'
<1> USE DEF BackupInItsPlace
<1>1. CASE StartFails \/ Kill \/ NewLife
  BY <1>1 DEF StartFails, Raise, Kill, NewLife
<1>2. CASE Prepare \/ Launch \/ WritePid \/ PidWritten \/ StartThread \/ Started
  BY <1>2 DEF Prepare, Launch, WritePid, PidWritten, StartThread, Started
<1>3. CASE Wait \/ Look \/ RecordCrash \/ Caught \/ RecordFailure \/ Signal
  BY <1>3 DEF Wait, Look, RecordCrash, Caught, RecordFailure, Signal, RecordShutdown
<1>4. CASE Finish \/ Unpause \/ StopServer \/ Stopped \/ ForceKill
  BY <1>4 DEF Finish, Unpause, StopServer, Stopped, ForceKill
<1>5. CASE WindUp
  BY <1>5 DEF WindUp, TriggeredBackup, CleanupWine, ClearPid
<1>6. CASE GameStarts \/ GameEnds \/ WrapperEnds \/ WrapperDies
  BY <1>6 DEF GameStarts, GameEnds, WrapperEnds, WrapperDies
<1>7. CASE Window \/ (\E w \in Workers : Background(w)) \/ UNCHANGED lifeVars
  BY <1>7 DEF Window, Background, lifeVars
<1> QED BY <1>1, <1>2, <1>3, <1>4, <1>5, <1>6, <1>7 DEF LifecycleNext, Main

LEMMA WrapperIsGoneStep ==
  ASSUME WrapperIsGone, FaultsCount, [LifecycleNext]_lifeVars
  PROVE  WrapperIsGone'
<1> USE DEF WrapperIsGone, FaultsCount
<1>1. CASE StartFails \/ Kill \/ NewLife
  BY <1>1 DEF StartFails, Raise, Kill, NewLife
<1>2. CASE Prepare \/ Launch \/ WritePid \/ PidWritten \/ StartThread \/ Started
  BY <1>2 DEF Prepare, Launch, WritePid, PidWritten, StartThread, Started
<1>3. CASE Wait \/ Look \/ RecordCrash \/ Caught \/ RecordFailure \/ Signal
  BY <1>3 DEF Wait, Look, RecordCrash, Caught, RecordFailure, Signal, RecordShutdown
<1>4. CASE Finish \/ Unpause \/ StopServer \/ Stopped \/ ForceKill
  BY <1>4 DEF Finish, Unpause, StopServer, Stopped, ForceKill
<1>5. CASE WindUp
  BY <1>5 DEF WindUp, TriggeredBackup, CleanupWine, ClearPid
<1>6. CASE GameStarts \/ GameEnds \/ WrapperEnds \/ WrapperDies
  BY <1>6 DEF GameStarts, GameEnds, WrapperEnds, WrapperDies
<1>7. CASE Window \/ (\E w \in Workers : Background(w)) \/ UNCHANGED lifeVars
  BY <1>7 DEF Window, Background, lifeVars
<1> QED BY <1>1, <1>2, <1>3, <1>4, <1>5, <1>6, <1>7 DEF LifecycleNext, Main

LEMMA GameHasWrapperStep ==
  ASSUME GameHasWrapper, [LifecycleNext]_lifeVars
  PROVE  GameHasWrapper'
<1> USE DEF GameHasWrapper
<1>1. CASE StartFails \/ Kill \/ NewLife
  BY <1>1 DEF StartFails, Raise, Kill, NewLife
<1>2. CASE Prepare \/ Launch \/ WritePid \/ PidWritten \/ StartThread \/ Started
  BY <1>2 DEF Prepare, Launch, WritePid, PidWritten, StartThread, Started
<1>3. CASE Wait \/ Look \/ RecordCrash \/ Caught \/ RecordFailure \/ Signal
  BY <1>3 DEF Wait, Look, RecordCrash, Caught, RecordFailure, Signal, RecordShutdown
<1>4. CASE Finish \/ Unpause \/ StopServer \/ Stopped \/ ForceKill
  BY <1>4 DEF Finish, Unpause, StopServer, Stopped, ForceKill
<1>5. CASE WindUp
  BY <1>5 DEF WindUp, TriggeredBackup, CleanupWine, ClearPid
<1>6. CASE GameStarts \/ GameEnds \/ WrapperEnds \/ WrapperDies
  BY <1>6 DEF GameStarts, GameEnds, WrapperEnds, WrapperDies
<1>7. CASE Window \/ (\E w \in Workers : Background(w)) \/ UNCHANGED lifeVars
  BY <1>7 DEF Window, Background, lifeVars
<1> QED BY <1>1, <1>2, <1>3, <1>4, <1>5, <1>6, <1>7 DEF LifecycleNext, Main

LEMMA LateIsMissedStep ==
  ASSUME LateIsMissed, [LifecycleNext]_lifeVars
  PROVE  LateIsMissed'
<1> USE DEF LateIsMissed
<1>1. CASE StartFails \/ Kill \/ NewLife
  BY <1>1 DEF StartFails, Raise, Kill, NewLife
<1>2. CASE Prepare \/ Launch \/ WritePid \/ PidWritten \/ StartThread \/ Started
  BY <1>2 DEF Prepare, Launch, WritePid, PidWritten, StartThread, Started
<1>3. CASE Wait \/ Look \/ RecordCrash \/ Caught \/ RecordFailure \/ Signal
  BY <1>3 DEF Wait, Look, RecordCrash, Caught, RecordFailure, Signal, RecordShutdown
<1>4. CASE Finish \/ Unpause \/ StopServer \/ Stopped \/ ForceKill
  BY <1>4 DEF Finish, Unpause, StopServer, Stopped, ForceKill
<1>5. CASE WindUp
  BY <1>5 DEF WindUp, TriggeredBackup, CleanupWine, ClearPid
<1>6. CASE GameStarts \/ GameEnds \/ WrapperEnds \/ WrapperDies
  BY <1>6 DEF GameStarts, GameEnds, WrapperEnds, WrapperDies
<1>7. CASE Window \/ (\E w \in Workers : Background(w)) \/ UNCHANGED lifeVars
  BY <1>7 DEF Window, Background, lifeVars
<1> QED BY <1>1, <1>2, <1>3, <1>4, <1>5, <1>6, <1>7 DEF LifecycleNext, Main

LEMMA OrphanIsFaultStep ==
  ASSUME OrphanIsFault, GameHasWrapper, LateIsMissed, FaultsCount, [LifecycleNext]_lifeVars
  PROVE  OrphanIsFault'
<1> USE DEF OrphanIsFault, GameHasWrapper, LateIsMissed, FaultsCount
<1>1. CASE StartFails \/ Kill \/ NewLife
  BY <1>1 DEF StartFails, Raise, Kill, NewLife
<1>2. CASE Prepare \/ Launch \/ WritePid \/ PidWritten \/ StartThread \/ Started
  BY <1>2 DEF Prepare, Launch, WritePid, PidWritten, StartThread, Started
<1>3. CASE Wait \/ Look \/ RecordCrash \/ Caught \/ RecordFailure \/ Signal
  BY <1>3 DEF Wait, Look, RecordCrash, Caught, RecordFailure, Signal, RecordShutdown
<1>4. CASE Finish \/ Unpause \/ StopServer \/ Stopped \/ ForceKill
  <2>1. CASE Finish \/ Unpause \/ Stopped
    BY <2>1 DEF Finish, Unpause, Stopped
  <2>2. CASE StopServer /\ wrapper = "up"
    BY <2>2 DEF StopServer
  <2>3. CASE StopServer /\ wrapper # "up"
    BY <2>3 DEF StopServer
  <2>4. CASE ForceKill
    <3>1. CASE game = "none"
      <4>1. missed /\ missed' = missed
        BY <2>4, <3>1 DEF ForceKill
      <4> QED BY <4>1
    <3>2. CASE game = "up"
      BY <2>4, <3>2 DEF ForceKill
    <3>3. CASE game \notin {"none", "up"}
      BY <2>4, <3>3 DEF ForceKill
    <3> QED BY <3>1, <3>2, <3>3
  <2> QED BY <1>4, <2>1, <2>2, <2>3, <2>4
<1>5. CASE WindUp
  BY <1>5 DEF WindUp, TriggeredBackup, CleanupWine, ClearPid
<1>6. CASE GameStarts \/ GameEnds \/ WrapperEnds \/ WrapperDies
  BY <1>6 DEF GameStarts, GameEnds, WrapperEnds, WrapperDies
<1>7. CASE Window \/ (\E w \in Workers : Background(w)) \/ UNCHANGED lifeVars
  BY <1>7 DEF Window, Background, lifeVars
<1> QED BY <1>1, <1>2, <1>3, <1>4, <1>5, <1>6, <1>7 DEF LifecycleNext, Main

LEMMA PidIsThereStep ==
  ASSUME PidIsThere, [LifecycleNext]_lifeVars
  PROVE  PidIsThere'
<1> USE DEF PidIsThere
<1>1. CASE StartFails \/ Kill \/ NewLife
  BY <1>1 DEF StartFails, Raise, Kill, NewLife
<1>2. CASE Prepare \/ Launch \/ WritePid \/ PidWritten \/ StartThread \/ Started
  BY <1>2 DEF Prepare, Launch, WritePid, PidWritten, StartThread, Started
<1>3. CASE Wait \/ Look \/ RecordCrash \/ Caught \/ RecordFailure \/ Signal
  BY <1>3 DEF Wait, Look, RecordCrash, Caught, RecordFailure, Signal, RecordShutdown
<1>4. CASE Finish \/ Unpause \/ StopServer \/ Stopped \/ ForceKill
  BY <1>4 DEF Finish, Unpause, StopServer, Stopped, ForceKill
<1>5. CASE WindUp
  BY <1>5 DEF WindUp, TriggeredBackup, CleanupWine, ClearPid
<1>6. CASE GameStarts \/ GameEnds \/ WrapperEnds \/ WrapperDies
  BY <1>6 DEF GameStarts, GameEnds, WrapperEnds, WrapperDies
<1>7. CASE Window \/ (\E w \in Workers : Background(w)) \/ UNCHANGED lifeVars
  BY <1>7 DEF Window, Background, lifeVars
<1> QED BY <1>1, <1>2, <1>3, <1>4, <1>5, <1>6, <1>7 DEF LifecycleNext, Main

LEMMA PidIsClearedStep ==
  ASSUME PidIsCleared, FaultsCount, [LifecycleNext]_lifeVars
  PROVE  PidIsCleared'
<1> USE DEF PidIsCleared, FaultsCount
<1>1. CASE StartFails \/ Kill \/ NewLife
  BY <1>1 DEF StartFails, Raise, Kill, NewLife
<1>2. CASE Prepare \/ Launch \/ WritePid \/ PidWritten \/ StartThread \/ Started
  BY <1>2 DEF Prepare, Launch, WritePid, PidWritten, StartThread, Started
<1>3. CASE Wait \/ Look \/ RecordCrash \/ Caught \/ RecordFailure \/ Signal
  BY <1>3 DEF Wait, Look, RecordCrash, Caught, RecordFailure, Signal, RecordShutdown
<1>4. CASE Finish \/ Unpause \/ StopServer \/ Stopped \/ ForceKill
  BY <1>4 DEF Finish, Unpause, StopServer, Stopped, ForceKill
<1>5. CASE WindUp
  <2>1. CASE TriggeredBackup \/ CleanupWine
    BY <2>1 DEF TriggeredBackup, CleanupWine
  <2>2. CASE ClearPid /\ faults' = faults + 1
    BY <2>2
  <2>3. CASE ClearPid /\ pidFile' = (pidFile /\ ~pidWritten)
    <3>1. pidFile' => ~pidWritten
      BY <2>3
    <3>2. pidWritten' = pidWritten
      BY <2>3 DEF ClearPid
    <3> QED BY <3>1, <3>2
  <2> QED BY <1>5, <2>1, <2>2, <2>3 DEF WindUp, ClearPid
<1>6. ASSUME UNCHANGED <<main, pidFile, pidWritten, faults>>
      PROVE  PidIsCleared'
  BY <1>6
<1>7. CASE GameStarts \/ GameEnds \/ WrapperEnds
  <2>1. UNCHANGED <<main, pidFile, pidWritten, faults>>
    BY <1>7 DEF GameStarts, GameEnds, WrapperEnds
  <2> QED BY <1>6, <2>1
<1>8. CASE WrapperDies
  BY <1>8 DEF WrapperDies
<1>9. CASE Window \/ (\E w \in Workers : Background(w)) \/ UNCHANGED lifeVars
  <2>1. UNCHANGED <<main, pidFile, pidWritten, faults>>
    BY <1>9 DEF Window, Background, lifeVars
  <2> QED BY <1>6, <2>1
<1> QED BY <1>1, <1>2, <1>3, <1>4, <1>5, <1>7, <1>8, <1>9 DEF LifecycleNext, Main

LEMMA InitLifeInv == LifecycleInit => LifeInv
  BY DEF LifecycleInit, LifeInv, FaultsCount, AskedIsHeard, FinishHasRequest, ExitIsRequested,
     ExitKeepsRequest, BackupInItsPlace, WrapperIsGone, GameHasWrapper, LateIsMissed, OrphanIsFault,
     PidIsThere, PidIsCleared,
     ExitPoints

LEMMA StepLifeInv == LifeInv /\ [LifecycleNext]_lifeVars => LifeInv'
  BY FaultsCountStep, AskedIsHeardStep, FinishHasRequestStep, ExitIsRequestedStep,
     ExitKeepsRequestStep, BackupInItsPlaceStep, WrapperIsGoneStep, GameHasWrapperStep,
     LateIsMissedStep, OrphanIsFaultStep, PidIsThereStep, PidIsClearedStep DEF LifeInv

-----------------------------------------------------------------------------
(* The theorems. *)

\* The invariant above, in every container and all its restarts.
THEOREM LifecycleInvariant == LifecycleSpec => []LifeInv
  BY InitLifeInv, StepLifeInv, PTL DEF LifecycleSpec

\* What the restore guard reads of the PID file is true: it is there while the
\* game may run after write_pid(), and goes with an exit in order.
THEOREM PidFileIsTrue == LifecycleSpec => []PidFileTells
<1>1. LifeInv => PidFileTells
  BY DEF LifeInv, PidFileTells, PidIsThere, PidIsCleared
<1> QED BY <1>1, InitLifeInv, StepLifeInv, PTL DEF LifecycleSpec

\* The first event decides which exit it is, but for a signal that comes between
\* the last look and the assignment of a crash, in _wait_for_exit() and in the
\* except clause; once the exit has begun no event changes it.
THEOREM FirstEventDecides == LifecycleSpec => FirstRequestStands
<1>1. ASSUME LifeInv, LifeInv', [LifecycleNext]_lifeVars
      PROVE  asked' => request' # "none"
  BY <1>1 DEF LifeInv, AskedIsHeard
<1>2. ASSUME LifeInv, [LifecycleNext]_lifeVars
      PROVE  request' # request =>
               \/ request = "none" \/ Over
               \/ main \in {"record", "failing"} /\ request' \in {"crash", "failure"}
  <2>1. CASE Main \/ StartFails \/ Signal
    BY <2>1 DEF Main, WindUp, Prepare, Launch, WritePid, PidWritten, StartThread, Started, Wait,
       Look, RecordCrash, Caught, RecordFailure, Finish, Unpause, StopServer, Stopped,
       ForceKill, TriggeredBackup,
       CleanupWine, ClearPid, StartFails, Raise, Signal, RecordShutdown
  <2>2. CASE GameStarts \/ GameEnds \/ WrapperEnds \/ WrapperDies \/ Window \/ Kill \/ NewLife
    BY <2>2 DEF GameStarts, GameEnds, WrapperEnds, WrapperDies, Window, Kill, NewLife
  <2>3. CASE (\E w \in Workers : Background(w)) \/ UNCHANGED lifeVars
    BY <2>3 DEF Background, lifeVars
  <2> QED BY <1>2, <2>1, <2>2, <2>3 DEF LifecycleNext
<1>3. ASSUME LifeInv, [LifecycleNext]_lifeVars, exiting # "none"
      PROVE  request' = request \/ Over
  <2>1. request # "none" /\ main \notin {"record", "failing"}
    BY <1>3 DEF LifeInv, ExitIsRequested, ExitPoints
  <2> QED BY <1>2, <1>3, <2>1
<1>4. LifeInv /\ LifeInv' /\ [LifecycleNext]_lifeVars =>
        [/\ asked' => request' # "none"
         /\ request' # request =>
              \/ request = "none" \/ Over
              \/ main \in {"record", "failing"} /\ request' \in {"crash", "failure"}
         /\ exiting # "none" => request' = request \/ Over]_lifeVars
  BY <1>1, <1>2, <1>3
<1> QED BY <1>4, LifecycleInvariant, PTL DEF LifecycleSpec, FirstRequestStands

\* The backup of an exit is the one of its trigger, there is one, and it waits
\* for the wrapper; a game that runs beside it took a fault or came too late for
\* the stop to find it.
THEOREM BackupAfterServer == LifecycleSpec => ExitBackup
<1>1. ASSUME LifeInv, [LifecycleNext]_lifeVars, taken' # taken, ~Over
      PROVE  TriggeredBackup
  <2>1. CASE Main
    BY <1>1, <2>1 DEF Main, WindUp, Prepare, Launch, WritePid, PidWritten, StartThread, Started,
       Wait, Look, RecordCrash, Caught, RecordFailure, Finish, Unpause, StopServer, Stopped,
       ForceKill, CleanupWine, ClearPid
  <2>2. CASE StartFails \/ Signal \/ GameStarts \/ GameEnds \/ WrapperEnds \/ WrapperDies
    BY <1>1, <2>2 DEF StartFails, Raise, Signal, GameStarts, GameEnds, WrapperEnds, WrapperDies
  <2>3. CASE Window \/ Kill \/ NewLife \/ (\E w \in Workers : Background(w)) \/ UNCHANGED lifeVars
    BY <1>1, <2>3 DEF Window, Kill, NewLife, Background, lifeVars
  <2> QED BY <1>1, <2>1, <2>2, <2>3 DEF LifecycleNext
<1>2. ASSUME LifeInv, TriggeredBackup, taken' # taken
      PROVE  /\ taken = "none" /\ taken' = BackupOf(request)
             /\ wrapper = "up" => faults > 0
             /\ game = "up" => faults > 0 \/ missed
  <2>1. taken = "none" /\ exiting = request
    BY <1>2 DEF LifeInv, BackupInItsPlace, ExitKeepsRequest, ExitPoints, TriggeredBackup
  <2>2. wrapper = "up" => faults > 0
    BY <1>2 DEF LifeInv, WrapperIsGone, TriggeredBackup
  <2>3. game = "up" => faults > 0 \/ missed
    BY <1>2, <2>2 DEF LifeInv, OrphanIsFault, GameHasWrapper
  <2> QED BY <1>2, <2>1, <2>2, <2>3 DEF TriggeredBackup
<1>3. LifeInv /\ [LifecycleNext]_lifeVars =>
        [taken' # taken /\ ~Over =>
           /\ taken = "none" /\ taken' = BackupOf(request)
           /\ wrapper = "up" => faults > 0
           /\ game = "up" => faults > 0 \/ missed]_lifeVars
  BY <1>1, <1>2
<1> QED BY <1>3, LifecycleInvariant, PTL DEF LifecycleSpec, ExitBackup

-----------------------------------------------------------------------------
(* The gate in the container. *)

\* A step of the container is a step of the gate, or the container's end or
\* start, which set it up anew.
LEMMA ContainerGate ==
  ASSUME TypeOK, [LifecycleNext]_lifeVars
  PROVE  [Next]_vars \/ Init' \/ Kill
<1>1. CASE Signal \/ Finish
  <2>1. UNCHANGED gateVars /\ stop' = TRUE
    BY <1>1 DEF Signal, Finish
  <2> QED BY <2>1 DEF Next, Stop, TypeOK
<1>2. CASE Unpause
  <2>1. UNCHANGED vars \/ (Resume /\ UNCHANGED stop)
    BY <1>2 DEF Unpause
  <2> QED BY <2>1 DEF Next, Resume, CloseWindow, TypeOK
<1>3. CASE Window
  BY <1>3 DEF Window, Next
<1>4. CASE \E w \in Workers : Background(w)
  BY <1>4 DEF Background, Next
<1>5. CASE NewLife
  BY <1>5 DEF NewLife, Init
<1>6. CASE StartFails \/ GameStarts \/ GameEnds \/ WrapperEnds \/ WrapperDies \/ UNCHANGED lifeVars
  BY <1>6 DEF StartFails, Raise, GameStarts, GameEnds, WrapperEnds, WrapperDies, lifeVars
<1>7. CASE Main /\ ~Finish /\ ~Unpause
  BY <1>7 DEF Main, WindUp, Prepare, Launch, WritePid, PidWritten, StartThread, Started, Wait,
     Look, RecordCrash, Caught, RecordFailure, StopServer, Stopped, ForceKill,
     TriggeredBackup, CleanupWine, ClearPid
<1> QED BY <1>1, <1>2, <1>3, <1>4, <1>5, <1>6, <1>7 DEF LifecycleNext

LEMMA KillEmptiesGate == ASSUME Kill PROVE GateInv'
<1>1. Working' = {}
  BY DEF Kill, Working
<1> QED BY <1>1, FS_EmptySet DEF Kill, GateInv, TypeOK, CountsHolders

LEMMA ContainerKeepsGate == GateInv /\ [LifecycleNext]_lifeVars => GateInv'
<1> SUFFICES ASSUME GateInv, [LifecycleNext]_lifeVars PROVE GateInv'
  OBVIOUS
<1>1. TypeOK
  BY DEF GateInv
<1>2. Init' => GateInv'
  BY InitGateInv, PTL
<1> QED BY <1>1, <1>2, ContainerGate, StepKeepsGateInv, KillEmptiesGate

\* A quiet window and work in flight exclude each other in the container too:
\* nothing the exit, a restart or a kill does to the gate breaks it.
THEOREM GateExcludesInContainer == LifecycleSpec => []QuietExcludesWork
<1>1. LifecycleInit => GateInv
  BY InitGateInv DEF LifecycleInit
<1>2. GateInv => QuietExcludesWork
  <2> SUFFICES ASSUME GateInv, quiet PROVE Working = {}
    BY DEF QuietExcludesWork
  <2>1. IsFiniteSet(Working)
    BY WorkersAssumption, FS_Subset DEF Working
  <2>2. Cardinality(Working) = 0
    BY DEF GateInv, CountsHolders
  <2> QED BY <2>1, <2>2, FS_EmptySet
<1> QED BY <1>1, <1>2, ContainerKeepsGate, PTL DEF LifecycleSpec

-----------------------------------------------------------------------------
(* The types of the main thread's fields and of the processes. *)

MainTypes ==
  /\ main \in MainPoints /\ request \in Requested /\ exiting \in Requested
  /\ wrapper \in {"none", "up", "gone"} /\ game \in {"none", "up", "gone"}
  /\ spawned \subseteq Workers /\ pauser \in {"none", "up", "stopped"}
  /\ taken \in {"none", "cold", "emergency"}
  /\ faults \in 0..MaxFaults /\ lives \in 1..MaxLives

Flags == asked \in BOOLEAN /\ missed \in BOOLEAN /\ pidFile \in BOOLEAN /\ pidWritten \in BOOLEAN

LEMMA MainTypesStep == ASSUME MainTypes, [LifecycleNext]_lifeVars PROVE MainTypes'
<1> USE LifecycleAssumption DEF MainTypes, MainPoints, Requested
<1>1. CASE StartFails \/ Kill \/ NewLife
  BY <1>1 DEF StartFails, Raise, Kill, NewLife
<1>2. CASE Prepare \/ Launch \/ WritePid \/ PidWritten \/ StartThread \/ Started
  BY <1>2 DEF Prepare, Launch, WritePid, PidWritten, StartThread, Started
<1>3. CASE Wait \/ Look \/ RecordCrash \/ Caught \/ RecordFailure \/ Signal
  BY <1>3 DEF Wait, Look, RecordCrash, Caught, RecordFailure, Signal, RecordShutdown
<1>4. CASE Finish \/ Unpause \/ StopServer \/ Stopped \/ ForceKill
  BY <1>4 DEF Finish, Unpause, StopServer, Stopped, ForceKill
<1>5. CASE WindUp
  BY <1>5 DEF WindUp, TriggeredBackup, CleanupWine, ClearPid, BackupOf
<1>6. CASE GameStarts \/ GameEnds \/ WrapperEnds \/ WrapperDies
  BY <1>6 DEF GameStarts, GameEnds, WrapperEnds, WrapperDies
<1>7. CASE Window \/ (\E w \in Workers : Background(w)) \/ UNCHANGED lifeVars
  BY <1>7 DEF Window, Background, lifeVars
<1> QED BY <1>1, <1>2, <1>3, <1>4, <1>5, <1>6, <1>7 DEF LifecycleNext, Main

LEMMA FlagsStep == ASSUME Flags, [LifecycleNext]_lifeVars PROVE Flags'
<1> USE DEF Flags
<1>1. CASE StartFails \/ Kill \/ NewLife
  BY <1>1 DEF StartFails, Raise, Kill, NewLife
<1>2. CASE Prepare \/ Launch \/ WritePid \/ PidWritten \/ StartThread \/ Started
  BY <1>2 DEF Prepare, Launch, WritePid, PidWritten, StartThread, Started
<1>3. CASE Wait \/ Look \/ RecordCrash \/ Caught \/ RecordFailure \/ Signal
  BY <1>3 DEF Wait, Look, RecordCrash, Caught, RecordFailure, Signal, RecordShutdown
<1>4. CASE Finish \/ Unpause \/ StopServer \/ Stopped \/ ForceKill
  BY <1>4 DEF Finish, Unpause, StopServer, Stopped, ForceKill
<1>5. CASE WindUp
  BY <1>5 DEF WindUp, TriggeredBackup, CleanupWine, ClearPid, BackupOf
<1>6. CASE GameStarts \/ GameEnds \/ WrapperEnds \/ WrapperDies
  BY <1>6 DEF GameStarts, GameEnds, WrapperEnds, WrapperDies
<1>7. CASE Window \/ (\E w \in Workers : Background(w)) \/ UNCHANGED lifeVars
  BY <1>7 DEF Window, Background, lifeVars
<1> QED BY <1>1, <1>2, <1>3, <1>4, <1>5, <1>6, <1>7 DEF LifecycleNext, Main

\* The fields of the lifecycle have their types, and so have those of the gate.
THEOREM LifecycleTypeCorrect == LifecycleSpec => []LifecycleTypeOK
<1>1. LifecycleInit => GateInv /\ MainTypes /\ Flags
  <2>1. LifecycleInit => MainTypes
    BY LifecycleAssumption DEF LifecycleInit, MainTypes, MainPoints, Requested
  <2>2. LifecycleInit => Flags
    BY DEF LifecycleInit, Flags
  <2> QED BY InitGateInv, <2>1, <2>2 DEF LifecycleInit
<1>2. GateInv /\ MainTypes /\ Flags => LifecycleTypeOK
  BY DEF GateInv, MainTypes, Flags, LifecycleTypeOK
<1> QED BY <1>1, <1>2, ContainerKeepsGate, MainTypesStep, FlagsStep, PTL DEF LifecycleSpec
=============================================================================
