--------------------------- MODULE WineTreeProofs ---------------------------
(***************************************************************************)
(* The truth of what suspend_all() and resume_all() return, for any set of *)
(* Wine services and any number of attempts.                               *)
(*                                                                         *)
(* Each part of IInv has a lemma of its own: in it come first the steps    *)
(* that leave the part alone or establish it trivially, then those it is   *)
(* about.                                                                  *)
(***************************************************************************)
EXTENDS WineTree, TLAPS

\* The call's own variables keep their types and its loops their bounds.
LEMMA CallStep ==
  ASSUME CallType, LoopBounds, [Next]_vars
  PROVE  (CallType /\ LoopBounds)'
<1>1. CASE List \/ RepeatScan \/ Refuse \/ StopTree \/ VerifyAgain \/
      LookForDrift \/ NothingToResume \/ ContTree \/ CheckAgain \/ ContAgain
      \/ ResumeFails \/ Resumed
  BY <1>1 DEF List, RepeatScan, Refuse, StopTree, VerifyAgain, LookForDrift,
     NothingToResume, ContTree, CheckAgain, ContAgain, ResumeFails, Resumed,
     Loop, Rescan, Return, ReturnOf, CallType, LoopBounds
<1>2. ASSUME NEW p \in Procs, Read(p) \/ Stop(p) \/ SeesStopped(p) \/ Cont(p)
             \/ SeesRunning(p) \/ Deliver(p) \/ Exit(p)
      PROVE  (CallType /\ LoopBounds)'
  BY <1>2 DEF Read, Stop, SeesStopped, Cont, SeesRunning, Deliver, Exit,
     CallType, LoopBounds
<1>3. CASE Resume \/ StopFails \/ VerifyFails \/ DriftScanned
  BY <1>3 DEF Resume, StopFails, VerifyFails, DriftScanned, Rescan, Return,
     CallType, LoopBounds, Resuming
<1>4. CASE Suspend \/ Verify \/ Check
  BY <1>4, TreeAssumption DEF Suspend, Verify, Check, Loop, Rescan, CallType,
     LoopBounds
<1>5. ASSUME NEW p \in Services, Spawn(p)
      PROVE  (CallType /\ LoopBounds)'
  BY <1>5 DEF Spawn, CallType, LoopBounds
<1>6. CASE UNCHANGED vars
  BY <1>6 DEF CallType, LoopBounds, vars
<1>. QED
  BY <1>1, <1>2, <1>3, <1>4, <1>5, <1>6 DEF Next, ScanStep, SuspendStep,
     ResumeStep, Process

\* The processes keep their types.
LEMMA ProcsStep ==
  ASSUME ProcsType, [Next]_vars
  PROVE  ProcsType'
<1>1. CASE Suspend \/ Resume \/ List \/ RepeatScan \/ Refuse \/ StopTree \/
      StopFails \/ Verify \/ VerifyAgain \/ VerifyFails \/ LookForDrift \/
      DriftScanned \/ NothingToResume \/ ContTree \/ Check \/ CheckAgain \/
      ContAgain \/ ResumeFails \/ Resumed
  BY <1>1 DEF Suspend, Resume, List, RepeatScan, Refuse, StopTree, StopFails,
     Verify, VerifyAgain, VerifyFails, LookForDrift, DriftScanned,
     NothingToResume, ContTree, Check, CheckAgain, ContAgain, ResumeFails,
     Resumed, Loop, Rescan, Return, ReturnOf, ProcsType, procs
<1>2. ASSUME NEW p \in Procs, Stop(p) \/ Cont(p) \/ Deliver(p) \/ Exit(p)
      PROVE  ProcsType'
  BY <1>2 DEF Stop, Cont, Deliver, Exit, ProcsType
<1>3. ASSUME NEW p \in Procs, Read(p) \/ SeesStopped(p) \/ SeesRunning(p)
      PROVE  ProcsType'
  BY <1>3 DEF Read, SeesStopped, SeesRunning, ProcsType, procs
<1>4. ASSUME NEW p \in Services, Spawn(p)
      PROVE  ProcsType'
  BY <1>4 DEF Spawn, ProcsType
<1>5. CASE UNCHANGED vars
  BY <1>5 DEF ProcsType, procs, vars
<1>. QED
  BY <1>1, <1>2, <1>3, <1>4, <1>5 DEF Next, ScanStep, SuspendStep, ResumeStep,
     Process

\* The sets the call works with hold processes.
LEMMA SetsStep ==
  ASSUME SetsType, [Next]_vars
  PROVE  SetsType'
<1>1. CASE Suspend \/ Resume \/ List \/ RepeatScan \/ Refuse \/ StopTree \/
      StopFails \/ Verify \/ VerifyAgain \/ VerifyFails \/ LookForDrift \/
      DriftScanned \/ NothingToResume \/ ContTree \/ Check \/ CheckAgain \/
      ContAgain \/ ResumeFails \/ Resumed
  BY <1>1 DEF Suspend, Resume, List, RepeatScan, Refuse, StopTree, StopFails,
     Verify, VerifyAgain, VerifyFails, LookForDrift, DriftScanned,
     NothingToResume, ContTree, Check, CheckAgain, ContAgain, ResumeFails,
     Resumed, Loop, Rescan, Return, ReturnOf, SetsType
<1>2. ASSUME NEW p \in Procs, Read(p) \/ Stop(p) \/ SeesStopped(p) \/ Cont(p)
             \/ SeesRunning(p) \/ Deliver(p) \/ Exit(p)
      PROVE  SetsType'
  BY <1>2 DEF Read, Stop, SeesStopped, Cont, SeesRunning, Deliver, Exit,
     SetsType
<1>3. ASSUME NEW p \in Services, Spawn(p)
      PROVE  SetsType'
  BY <1>3 DEF Spawn, SetsType
<1>4. CASE UNCHANGED vars
  BY <1>4 DEF SetsType, vars
<1>. QED
  BY <1>1, <1>2, <1>3, <1>4 DEF Next, ScanStep, SuspendStep, ResumeStep,
     Process

\* The loops over the processes stay inside pids.
LEMMA LoopsStep ==
  ASSUME LoopsInPids, [Next]_vars
  PROVE  LoopsInPids'
<1>1. CASE Suspend \/ Resume \/ List \/ RepeatScan \/ Refuse \/ StopTree \/
      StopFails \/ Verify \/ VerifyAgain \/ VerifyFails \/ LookForDrift \/
      DriftScanned \/ NothingToResume \/ ContTree \/ Check \/ CheckAgain \/
      ContAgain \/ ResumeFails \/ Resumed
  BY <1>1 DEF Suspend, Resume, List, RepeatScan, Refuse, StopTree, StopFails,
     Verify, VerifyAgain, VerifyFails, LookForDrift, DriftScanned,
     NothingToResume, ContTree, Check, CheckAgain, ContAgain, ResumeFails,
     Resumed, Loop, Rescan, Return, ReturnOf, LoopsInPids
<1>2. ASSUME NEW p \in Procs, Read(p) \/ Stop(p) \/ SeesStopped(p) \/ Cont(p)
             \/ SeesRunning(p) \/ Deliver(p) \/ Exit(p)
      PROVE  LoopsInPids'
  BY <1>2 DEF Read, Stop, SeesStopped, Cont, SeesRunning, Deliver, Exit,
     LoopsInPids
<1>3. ASSUME NEW p \in Services, Spawn(p)
      PROVE  LoopsInPids'
  BY <1>3 DEF Spawn, LoopsInPids
<1>4. CASE UNCHANGED vars
  BY <1>4 DEF LoopsInPids, vars
<1>. QED
  BY <1>1, <1>2, <1>3, <1>4 DEF Next, ScanStep, SuspendStep, ResumeStep,
     Process

\* The call never sees a process that is not born: a new one has no part in it
\* yet, and no process becomes unborn again.
LEMMA BornStep ==
  ASSUME ProcsType, SetsType, Born, [Next]_vars
  PROVE  Born'
<1>1. CASE Suspend \/ Resume \/ RepeatScan \/ Refuse \/ StopTree \/ StopFails
      \/ Verify \/ VerifyAgain \/ VerifyFails \/ LookForDrift \/ DriftScanned
      \/ NothingToResume \/ ContTree \/ Check \/ CheckAgain \/ ContAgain \/
      ResumeFails \/ Resumed
  BY <1>1 DEF Suspend, Resume, RepeatScan, Refuse, StopTree, StopFails,
     Verify, VerifyAgain, VerifyFails, LookForDrift, DriftScanned,
     NothingToResume, ContTree, Check, CheckAgain, ContAgain, ResumeFails,
     Resumed, Loop, Rescan, Return, ReturnOf, Born, procs
<1>2. ASSUME NEW p \in Procs, Read(p) \/ SeesStopped(p) \/ SeesRunning(p)
      PROVE  Born'
  BY <1>2 DEF Read, SeesStopped, SeesRunning, Born, procs
<1>3. ASSUME NEW p \in Procs, Stop(p) \/ Cont(p)
      PROVE  Born'
  BY <1>3 DEF Stop, Cont, Born
<1>4. ASSUME NEW p \in Procs, Deliver(p) \/ Exit(p)
      PROVE  Born'
  BY <1>4 DEF Deliver, Exit, ProcsType, SetsType, Born
<1>5. CASE List
  BY <1>5 DEF List, Born, Alive, procs
<1>6. ASSUME NEW p \in Services, Spawn(p)
      PROVE  Born'
  BY <1>6 DEF Spawn, Born
<1>7. CASE UNCHANGED vars
  BY <1>7 DEF Born, procs, vars
<1>. QED
  BY <1>1, <1>2, <1>3, <1>4, <1>5, <1>6, <1>7 DEF Next, ScanStep, SuspendStep,
     ResumeStep, Process

\* Each step of the call hands the processes that were asked to stop on to a
\* place where the next one finds them; only Stop makes new ones.
LEMMA StopsStep ==
  ASSUME ProcsType, LoopsInPids, StopsKnown, [Next]_vars
  PROVE  StopsKnown'
<1>1. CASE Suspend \/ List \/ RepeatScan \/ Refuse \/ StopTree \/ Verify \/
      VerifyAgain \/ LookForDrift \/ NothingToResume \/ ContTree \/ Check \/
      CheckAgain \/ ContAgain \/ ResumeFails \/ Resumed
  BY <1>1 DEF Suspend, List, RepeatScan, Refuse, StopTree, Verify,
     VerifyAgain, LookForDrift, NothingToResume, ContTree, Check, CheckAgain,
     ContAgain, ResumeFails, Resumed, Loop, NotStopped, Rescan, Return,
     ReturnOf, Scanned, StillStopped, StopsKnown, StopKnown, Alive, procs
<1>2. CASE Resume \/ StopFails \/ VerifyFails \/ DriftScanned
  BY <1>2 DEF Resume, StopFails, VerifyFails, DriftScanned, Rescan, Return,
     StopsKnown, StopKnown
<1>3. ASSUME NEW p \in Procs, Read(p) \/ SeesStopped(p) \/ SeesRunning(p)
      PROVE  StopsKnown'
  BY <1>3 DEF Read, SeesStopped, SeesRunning, StopsKnown, StopKnown, Alive,
     procs
<1>4. ASSUME NEW p \in Procs, Cont(p) \/ Deliver(p) \/ Exit(p)
      PROVE  StopsKnown'
  BY <1>4 DEF Cont, Deliver, Exit, ProcsType, StopsKnown, StopKnown, Alive
<1>5. ASSUME NEW p \in Procs, Stop(p)
      PROVE  StopsKnown'
  BY <1>5 DEF Stop, FirstGame, LoopsInPids, StopsKnown, StopKnown, Alive
<1>6. ASSUME NEW p \in Services, Spawn(p)
      PROVE  StopsKnown'
  BY <1>6 DEF Spawn, ProcsType, StopsKnown, StopKnown, Alive
<1>7. CASE UNCHANGED vars
  BY <1>7 DEF StopsKnown, StopKnown, Alive, procs, vars
<1>. QED
  BY <1>1, <1>2, <1>3, <1>4, <1>5, <1>6, <1>7 DEF Next, ScanStep, SuspendStep,
     ResumeStep, Process

\* The same of the processes that are stopped while a call resumes.  Only
\* Deliver makes new ones, of processes that StopsKnown knows.
LEMMA StoppedStep ==
  ASSUME ProcsType, LoopsInPids, StopsKnown, AllStoppedKnown, [Next]_vars
  PROVE  AllStoppedKnown'
<1>1. CASE Suspend \/ Resume \/ RepeatScan \/ Refuse \/ StopTree \/ StopFails
      \/ Verify \/ VerifyAgain \/ VerifyFails \/ LookForDrift \/ DriftScanned
      \/ NothingToResume \/ ResumeFails \/ Resumed
  BY <1>1 DEF Suspend, Resume, RepeatScan, Refuse, StopTree, StopFails,
     Verify, VerifyAgain, VerifyFails, LookForDrift, DriftScanned,
     NothingToResume, ResumeFails, Resumed, Loop, Rescan, Return, ReturnOf,
     AllStoppedKnown, StoppedKnown
<1>2. ASSUME NEW p \in Procs, Stop(p) \/ SeesStopped(p) \/ Cont(p)
      PROVE  AllStoppedKnown'
  BY <1>2 DEF Stop, SeesStopped, Cont, AllStoppedKnown, StoppedKnown
<1>3. CASE ContTree \/ Check
  BY <1>3 DEF ContTree, Check, Loop, Scanned, AllStoppedKnown, StoppedKnown,
     procs
<1>4. CASE CheckAgain \/ ContAgain
  BY <1>4 DEF CheckAgain, ContAgain, Loop, StillStopped, LoopsInPids,
     AllStoppedKnown, StoppedKnown, procs
<1>5. CASE List
  BY <1>5 DEF List, AllStoppedKnown, StoppedKnown, Alive, procs
<1>6. ASSUME NEW p \in Procs, Read(p)
      PROVE  AllStoppedKnown'
  BY <1>6 DEF Read, AllStoppedKnown, StoppedKnown, Alive, procs
<1>7. ASSUME NEW p \in Procs, SeesRunning(p)
      PROVE  AllStoppedKnown'
  BY <1>7 DEF SeesRunning, AllStoppedKnown, StoppedKnown, procs
<1>8. ASSUME NEW p \in Procs, Deliver(p)
      PROVE  AllStoppedKnown'
  BY <1>8 DEF Deliver, ProcsType, LoopsInPids, StopsKnown, StopKnown,
     AllStoppedKnown, StoppedKnown, Alive
<1>9. ASSUME NEW p \in Procs, Exit(p)
      PROVE  AllStoppedKnown'
  BY <1>9 DEF Exit, ProcsType, AllStoppedKnown, StoppedKnown
<1>10. ASSUME NEW p \in Services, Spawn(p)
      PROVE  AllStoppedKnown'
  BY <1>10 DEF Spawn, AllStoppedKnown, StoppedKnown
<1>11. CASE UNCHANGED vars
  BY <1>11 DEF AllStoppedKnown, StoppedKnown, procs, vars
<1>. QED
  BY <1>1, <1>2, <1>3, <1>4, <1>5, <1>6, <1>7, <1>8, <1>9, <1>10, <1>11 DEF
     Next, ScanStep, SuspendStep, ResumeStep, Process

\* What has been sent, and seen to be obeyed, holds while processes exit: a
\* process that stopped stays so without a SIGCONT.
LEMMA ProgressStep ==
  ASSUME ProcsType, SetsType, Born, StopProgress, [Next]_vars
  PROVE  StopProgress'
<1>1. CASE Suspend \/ Resume \/ RepeatScan \/ Refuse \/ StopTree \/ StopFails
      \/ VerifyFails \/ NothingToResume \/ ContTree \/ Check \/ CheckAgain \/
      ContAgain \/ ResumeFails \/ Resumed
  BY <1>1 DEF Suspend, Resume, RepeatScan, Refuse, StopTree, StopFails,
     VerifyFails, NothingToResume, ContTree, Check, CheckAgain, ContAgain,
     ResumeFails, Resumed, Loop, Rescan, Return, ReturnOf, Scanned, Stable,
     StopProgress
<1>2. CASE List \/ LookForDrift \/ DriftScanned
  BY <1>2 DEF List, LookForDrift, DriftScanned, Rescan, Return, Scanned,
     StopProgress, Halted, procs
<1>3. CASE Verify \/ VerifyAgain
  BY <1>3 DEF Verify, VerifyAgain, Loop, NotStopped, StopProgress, procs
<1>4. ASSUME NEW p \in Procs, Read(p) \/ SeesStopped(p)
      PROVE  StopProgress'
  BY <1>4 DEF Read, SeesStopped, StopProgress, Halted, procs
<1>5. ASSUME NEW p \in Procs, Cont(p) \/ SeesRunning(p)
      PROVE  StopProgress'
  BY <1>5 DEF Cont, SeesRunning, StopProgress
<1>6. ASSUME NEW p \in Procs, Deliver(p) \/ Exit(p)
      PROVE  StopProgress'
  BY <1>6 DEF Deliver, Exit, ProcsType, SetsType, StopProgress, Halted
<1>7. ASSUME NEW p \in Procs, Stop(p)
      PROVE  StopProgress'
  BY <1>7 DEF Stop, ProcsType, StopProgress
<1>8. ASSUME NEW p \in Services, Spawn(p)
      PROVE  StopProgress'
  BY <1>8 DEF Spawn, Born, StopProgress, Halted
<1>9. CASE UNCHANGED vars
  BY <1>9 DEF StopProgress, Halted, procs, vars
<1>. QED
  BY <1>1, <1>2, <1>3, <1>4, <1>5, <1>6, <1>7, <1>8, <1>9 DEF Next, ScanStep,
     SuspendStep, ResumeStep, Process

\* The game is the first to be asked to stop and the last to be asked to run;
\* that last step is where StopsKnown leaves no service asked to stop.
LEMMA GameStep ==
  ASSUME ProcsType, StopsKnown, StopProgress, GameFirst, [Next]_vars
  PROVE  GameFirst'
<1>1. CASE Suspend \/ Resume \/ List \/ RepeatScan \/ Refuse \/ StopTree \/
      StopFails \/ VerifyAgain \/ VerifyFails \/ LookForDrift \/ DriftScanned
      \/ NothingToResume \/ ContTree \/ Check \/ CheckAgain \/ ContAgain \/
      ResumeFails \/ Resumed
  BY <1>1 DEF Suspend, Resume, List, RepeatScan, Refuse, StopTree, StopFails,
     VerifyAgain, VerifyFails, LookForDrift, DriftScanned, NothingToResume,
     ContTree, Check, CheckAgain, ContAgain, ResumeFails, Resumed, Loop,
     Rescan, Return, ReturnOf, GameFirst, Alive, procs
<1>2. ASSUME NEW p \in Procs, Read(p) \/ SeesStopped(p) \/ SeesRunning(p)
      PROVE  GameFirst'
  BY <1>2 DEF Read, SeesStopped, SeesRunning, GameFirst, Alive, procs
<1>3. ASSUME NEW p \in Procs, Deliver(p) \/ Exit(p)
      PROVE  GameFirst'
  BY <1>3 DEF Deliver, Exit, ProcsType, GameFirst, Alive, Procs
<1>4. CASE Verify
  BY <1>4 DEF Verify, Loop, StopProgress, GameFirst, procs
<1>5. ASSUME NEW p \in Procs, Stop(p)
      PROVE  GameFirst'
  BY <1>5 DEF Stop, FirstGame, ProcsType, StopProgress, GameFirst
<1>6. ASSUME NEW p \in Procs, Cont(p)
      PROVE  GameFirst'
  BY <1>6 DEF Cont, LastGame, StopsKnown, StopKnown, GameFirst, Alive, Procs
<1>7. ASSUME NEW p \in Services, Spawn(p)
      PROVE  GameFirst'
  BY <1>7, TreeAssumption DEF Spawn, ProcsType, GameFirst, Alive
<1>8. CASE UNCHANGED vars
  BY <1>8 DEF GameFirst, Alive, procs, vars
<1>. QED
  BY <1>1, <1>2, <1>3, <1>4, <1>5, <1>6, <1>7, <1>8 DEF Next, ScanStep,
     SuspendStep, ResumeStep, Process

\* A resume that ends well has looked at every stopped process, and none is
\* asked to stop that could stop later.
LEMMA LeftStep ==
  ASSUME ProcsType, StopsKnown, AllStoppedKnown, NobodyLeftStopped, [Next]_vars
  PROVE  NobodyLeftStopped'
<1>1. CASE Suspend \/ Resume \/ List \/ RepeatScan \/ Refuse \/ StopTree \/
      StopFails \/ Verify \/ VerifyAgain \/ VerifyFails \/ LookForDrift \/
      DriftScanned \/ ContTree \/ Check \/ CheckAgain \/ ContAgain \/
      ResumeFails
  BY <1>1 DEF Suspend, Resume, List, RepeatScan, Refuse, StopTree, StopFails,
     Verify, VerifyAgain, VerifyFails, LookForDrift, DriftScanned, ContTree,
     Check, CheckAgain, ContAgain, ResumeFails, Loop, Rescan, Return,
     ReturnOf, NobodyLeftStopped
<1>2. ASSUME NEW p \in Procs, Read(p) \/ Stop(p) \/ SeesStopped(p) \/ Cont(p)
             \/ SeesRunning(p)
      PROVE  NobodyLeftStopped'
  BY <1>2 DEF Read, Stop, SeesStopped, Cont, SeesRunning, NobodyLeftStopped
<1>3. CASE NothingToResume \/ Resumed
  BY <1>3 DEF NothingToResume, Resumed, Return, ReturnOf, Scanned,
     AllStoppedKnown, StoppedKnown, NobodyLeftStopped, procs
<1>4. ASSUME NEW p \in Procs, Deliver(p)
      PROVE  NobodyLeftStopped'
  BY <1>4 DEF Deliver, StopsKnown, StopKnown, NobodyLeftStopped, Alive
<1>5. ASSUME NEW p \in Procs, Exit(p)
      PROVE  NobodyLeftStopped'
  BY <1>5 DEF Exit, ProcsType, NobodyLeftStopped
<1>6. ASSUME NEW p \in Services, Spawn(p)
      PROVE  NobodyLeftStopped'
  BY <1>6 DEF Spawn, NobodyLeftStopped
<1>7. CASE UNCHANGED vars
  BY <1>7 DEF NobodyLeftStopped, procs, vars
<1>. QED
  BY <1>1, <1>2, <1>3, <1>4, <1>5, <1>6, <1>7 DEF Next, ScanStep, SuspendStep,
     ResumeStep, Process

-----------------------------------------------------------------------------
LEMMA InitIInv == Init => IInv
<1>. SUFFICES ASSUME Init PROVE IInv
  OBVIOUS
<1>1. CallType /\ LoopBounds /\ SetsType
  BY TreeAssumption DEF Init, CallType, LoopBounds, SetsType
<1>2. ProcsType /\ \A p \in Procs : told[p] = "run" /\ state[p] # "T"
  BY DEF Init, ProcsType
<1>3. LoopsInPids /\ Born /\ StopProgress /\ NobodyLeftStopped
  BY DEF Init, LoopsInPids, Born, StopProgress, NobodyLeftStopped
<1>4. StopsKnown /\ AllStoppedKnown /\ GameFirst
  BY <1>2 DEF StopsKnown, AllStoppedKnown, GameFirst, Procs
<1>. QED
  BY <1>1, <1>2, <1>3, <1>4 DEF IInv, TypeOK

LEMMA StepIInv == IInv /\ [Next]_vars => IInv'
  BY CallStep, ProcsStep, SetsStep, LoopsStep, BornStep, StopsStep, StoppedStep,
     ProgressStep, GameStep, LeftStep DEF IInv, TypeOK

\* The invariant holds of every behaviour of the processes and the calls.
THEOREM WineTreeInvariant == Spec => []IInv
  BY InitIInv, StepIInv, PTL DEF Spec

\* Every variable has its type, and the loops of scans and polls are bounded.
THEOREM WineTreeTypeCorrect == Spec => []TypeOK
<1>1. IInv => TypeOK
  BY DEF IInv
<1>. QED
  BY <1>1, WineTreeInvariant, PTL

\* What suspend_all() has verified stays stopped: from StopProgress.
THEOREM SuspensionHolds == Spec => []SuspendedIsStopped
<1>1. IInv => SuspendedIsStopped
  BY DEF IInv, StopProgress, SuspendedIsStopped
<1>. QED
  BY <1>1, WineTreeInvariant, PTL

\* A call that ends otherwise, after a rollback too, has asked all live
\* processes to run: from StopsKnown.
THEOREM RollbackReachesEveryone == Spec => []AskedToRun
<1>1. IInv => AskedToRun
  BY DEF IInv, TypeOK, ProcsType, StopsKnown, StopKnown, AskedToRun
<1>. QED
  BY <1>1, WineTreeInvariant, PTL

\* resume_all() that returns True leaves no stopped process.
THEOREM ResumeLeavesNobody == Spec => []NobodyLeftStopped
<1>1. IInv => NobodyLeftStopped
  BY DEF IInv
<1>. QED
  BY <1>1, WineTreeInvariant, PTL

\* The order of the signals: a service is stopped only with the game.
THEOREM TheGameStopsFirst == Spec => []GameFirst
<1>1. IInv => GameFirst
  BY DEF IInv
<1>. QED
  BY <1>1, WineTreeInvariant, PTL
=============================================================================
