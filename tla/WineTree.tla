------------------------------- MODULE WineTree -------------------------------
(***************************************************************************)
(* suspend_all() and resume_all() (enshctl/lifecycle/server.py) over the   *)
(* game and its Wine services: processes that are born, exit and obey a    *)
(* signal in their own time while /proc is read one process after another. *)
(*                                                                         *)
(* All processes here match the scan (argv[0] of the game, or a Wine       *)
(* service).  PIDs are not reused within a call, nobody else signals, and  *)
(* services are taken in any order where the code sorts them.  A deadline  *)
(* may pass at any attempt of the loop it bounds.                          *)
(***************************************************************************)
EXTENDS Naturals, FiniteSets

CONSTANTS
  Game, Services,
  ScanAttempts,       \* _TREE_SCAN_ATTEMPTS
  PollAttempts        \* _STATE_POLL_ATTEMPTS

Procs == Services \cup {Game}

ASSUME TreeAssumption ==
  /\ Game \notin Services
  /\ ScanAttempts \in Nat \ {0} /\ PollAttempts \in Nat \ {0}

VARIABLES
  state,     \* of each process: "unborn", "R", "T", "Z" or "gone"
  told,      \* what its last signal, or its birth, asks of it: "run" or "stop"
  pc,        \* where the call is
  job,       \* what the scan is for: "tree", "drift", "rollback" or "resume"
  tries,     \* the attempts of its loop so far
  again,     \* how often resume_all() has repeated SIGCONT
  todo,      \* the processes its loop has still to look at
  found,     \* what the scan of /proc has found
  previous,  \* the tree of the scan before it, empty where that found no game
  pids,      \* the processes it works on
  result     \* of the last call that ended

procs == <<state, told>>
vars == <<procs, pc, job, tries, again, todo, found, previous, pids, result>>

Alive(p) == state[p] \in {"R", "T"}

Init ==
  /\ \E old \in SUBSET Services :
       state = [p \in Procs |-> IF p \in old \cup {Game} THEN "R" ELSE "unborn"]
  /\ told = [p \in Procs |-> "run"]
  /\ pc = "idle" /\ job = "tree" /\ tries = 0 /\ again = 0 /\ result = "none"
  /\ todo = {} /\ found = {} /\ previous = {} /\ pids = {}

Return(r) ==
  /\ pc' = "idle" /\ result' = r
  /\ tries' = 0 /\ again' = 0 /\ todo' = {} /\ found' = {} /\ previous' = {}
  /\ UNCHANGED <<procs, job, pids>>

\* The scan of /proc for job j is next.
Rescan(j) ==
  /\ pc' = "list" /\ job' = j
  /\ tries' = 0 /\ todo' = {} /\ found' = {} /\ previous' = {}
  /\ UNCHANGED <<procs, again, pids, result>>

\* A loop over all of pids begins, for the n-th time.
Loop(point, n) ==
  /\ pc' = point /\ tries' = n /\ todo' = pids
  /\ UNCHANGED <<procs, job, found, previous, pids, result>>

\* Mutant: the services may be signalled before the game.
AnyFirst(S) == S

\* The processes of S that may be next when the game comes first, or last.
FirstGame(S) == IF Game \in S THEN {Game} ELSE S
LastGame(S) == IF S = {Game} THEN S ELSE S \ {Game}

-----------------------------------------------------------------------------
(* The processes. *)

Deliver(p) ==
  /\ \/ state[p] = "R" /\ told[p] = "stop" /\ state' = [state EXCEPT ![p] = "T"]
     \/ state[p] = "T" /\ told[p] = "run" /\ state' = [state EXCEPT ![p] = "R"]
  /\ UNCHANGED <<told, pc, job, tries, again, todo, found, previous, pids, result>>

Spawn(p) ==
  /\ state[p] = "unborn" /\ \E q \in Procs : state[q] = "R"
  /\ state' = [state EXCEPT ![p] = "R"] /\ told' = [told EXCEPT ![p] = "run"]
  /\ UNCHANGED <<pc, job, tries, again, todo, found, previous, pids, result>>

Exit(p) ==
  /\ \/ Alive(p) /\ state' = [state EXCEPT ![p] = "Z"]
     \/ state[p] = "Z" /\ state' = [state EXCEPT ![p] = "gone"]
  /\ UNCHANGED <<told, pc, job, tries, again, todo, found, previous, pids, result>>

-----------------------------------------------------------------------------
(* The calls: Auto Pause suspends what it has not suspended, and resumes    *)
(* at any time.                                                             *)

Suspend == pc = "idle" /\ result # "suspended" /\ Rescan("tree")
Resume == pc = "idle" /\ Rescan("resume")

\* _discover_matching(): the names in /proc, then each process by itself.
List ==
  /\ pc = "list" /\ pc' = "scan"
  /\ todo' = {p \in Procs : Alive(p) \/ state[p] = "Z"} /\ found' = {}
  /\ UNCHANGED <<procs, job, tries, again, previous, pids, result>>

Read(p) ==
  /\ pc = "scan" /\ p \in todo /\ todo' = todo \ {p}
  /\ found' = IF Alive(p) THEN found \cup {p} ELSE found
  /\ UNCHANGED <<procs, pc, job, tries, again, previous, pids, result>>

Scanned(jobs) == pc = "scan" /\ todo = {} /\ job \in jobs
Stable == Game \in found /\ found = previous

-----------------------------------------------------------------------------
(* suspend_all(). *)

RepeatScan ==
  /\ Scanned({"tree"}) /\ ~Stable /\ tries + 1 < ScanAttempts
  /\ pc' = "list" /\ tries' = tries + 1
  /\ previous' = IF Game \in found THEN found ELSE {}
  /\ UNCHANGED <<procs, job, again, todo, found, pids, result>>

Refuse == Scanned({"tree"}) /\ ~Stable /\ Return("refused")

StopTree ==
  /\ Scanned({"tree"}) /\ Stable
  /\ pc' = "stop" /\ tries' = 0 /\ todo' = found /\ pids' = found
  /\ UNCHANGED <<procs, job, again, found, previous, result>>

\* A zombie can still be signalled.
Stop(p) ==
  /\ pc = "stop" /\ p \in FirstGame(todo) /\ state[p] # "gone"
  /\ told' = [told EXCEPT ![p] = "stop"] /\ todo' = todo \ {p}
  /\ UNCHANGED <<state, pc, job, tries, again, found, previous, pids, result>>

\* Mutant: a signal that fails ends the suspension without a rollback.
StopFailsAlone ==
  /\ pc = "stop" /\ \E p \in FirstGame(todo) : state[p] = "gone"
  /\ Return("refused")

StopFails ==
  /\ pc = "stop" /\ \E p \in FirstGame(todo) : state[p] = "gone"
  /\ Rescan("rollback")

Verify == pc = "stop" /\ todo = {} /\ Loop("verify", 0) /\ UNCHANGED again

SeesStopped(p) ==
  /\ pc = "verify" /\ p \in todo /\ state[p] = "T" /\ todo' = todo \ {p}
  /\ UNCHANGED <<procs, pc, job, tries, again, found, previous, pids, result>>

NotStopped == pc = "verify" /\ \E p \in todo : state[p] # "T"

VerifyAgain ==
  NotStopped /\ tries + 1 < PollAttempts /\ Loop("verify", tries + 1) /\ UNCHANGED again

\* Mutant: a poll that has run out of time goes on as if it had succeeded.
VerifyAnyway == NotStopped /\ Rescan("drift")

VerifyFails == NotStopped /\ Rescan("rollback")

LookForDrift == pc = "verify" /\ todo = {} /\ Rescan("drift")

DriftScanned ==
  /\ Scanned({"drift"})
  /\ IF \E p \in found \ pids : state[p] = "T" THEN Rescan("rollback")
                                              ELSE Return("suspended")

-----------------------------------------------------------------------------
(* resume_all(), called by the controller or by suspend_all(), which does   *)
(* not look at its result.                                                  *)

Resuming == {"rollback", "resume"}

ReturnOf(r) == Return(IF job = "rollback" THEN "refused" ELSE r)

NothingToResume == Scanned(Resuming) /\ found = {} /\ ReturnOf("resumed")

ContTree ==
  /\ Scanned(Resuming) /\ found # {}
  /\ pc' = "cont" /\ todo' = found /\ pids' = found
  /\ UNCHANGED <<procs, job, tries, again, found, previous, result>>

\* An error of kill() is only logged.
Cont(p) ==
  /\ pc = "cont" /\ p \in LastGame(todo)
  /\ told' = [told EXCEPT ![p] = "run"] /\ todo' = todo \ {p}
  /\ UNCHANGED <<state, pc, job, tries, again, found, previous, pids, result>>

Check == pc = "cont" /\ todo = {} /\ Loop("check", 0) /\ UNCHANGED again

SeesRunning(p) ==
  /\ pc = "check" /\ p \in todo /\ state[p] # "T" /\ todo' = todo \ {p}
  /\ UNCHANGED <<procs, pc, job, tries, again, found, previous, pids, result>>

StillStopped == pc = "check" /\ \E p \in todo : state[p] = "T"

CheckAgain ==
  StillStopped /\ tries + 1 < PollAttempts /\ Loop("check", tries + 1) /\ UNCHANGED again

\* Mutant: SIGCONT is repeated and not verified again.
ContAgainBlindly == StillStopped /\ again = 0 /\ ReturnOf("resumed")

ContAgain == StillStopped /\ again = 0 /\ again' = 1 /\ Loop("cont", 0)

ResumeFails == StillStopped /\ again = 1 /\ ReturnOf("failed")

Resumed == pc = "check" /\ todo = {} /\ ReturnOf("resumed")

-----------------------------------------------------------------------------
Process(p) == Deliver(p) \/ Exit(p)

ScanStep == List \/ (\E p \in Procs : Read(p))

SuspendStep ==
  \/ RepeatScan \/ Refuse \/ StopTree \/ StopFails \/ Verify
  \/ VerifyAgain \/ VerifyFails \/ LookForDrift \/ DriftScanned
  \/ \E p \in Procs : Stop(p) \/ SeesStopped(p)

ResumeStep ==
  \/ NothingToResume \/ ContTree \/ Check \/ CheckAgain \/ ContAgain \/ ResumeFails \/ Resumed
  \/ \E p \in Procs : Cont(p) \/ SeesRunning(p)

Next ==
  \/ Suspend \/ Resume \/ ScanStep \/ SuspendStep \/ ResumeStep
  \/ \E p \in Procs : Process(p)
  \/ \E p \in Services : Spawn(p)

Spec == Init /\ [][Next]_vars

-----------------------------------------------------------------------------
(* Properties. *)

CallType ==
  /\ pc \in {"idle", "list", "scan", "stop", "verify", "cont", "check"}
  /\ job \in {"tree", "drift"} \cup Resuming
  /\ tries \in Nat /\ again \in {0, 1}
  /\ result \in {"none", "refused", "suspended", "resumed", "failed"}

\* The loops stay within their attempts.
LoopBounds ==
  /\ pc \in {"list", "scan"} /\ job = "tree" => tries < ScanAttempts
  /\ pc \in {"verify", "check"} => tries < PollAttempts

ProcsType ==
  /\ state \in [Procs -> {"unborn", "R", "T", "Z", "gone"}]
  /\ told \in [Procs -> {"run", "stop"}]

SetsType ==
  todo \subseteq Procs /\ found \subseteq Procs /\ previous \subseteq Procs /\ pids \subseteq Procs

\* The type of every variable, and the bounds of the loops.
TypeOK == CallType /\ LoopBounds /\ ProcsType /\ SetsType

Halted(p) == state[p] \in {"T", "Z", "gone"}

\* suspend_all() returns True only if every process it stopped is stopped,
\* and it stays so until somebody resumes it: the paused marker is the truth.
SuspendedIsStopped == pc = "idle" /\ result = "suspended" => \A p \in pids : Halted(p)

\* Any other end of a call, the rollback of a suspension at any point
\* included, leaves no live process whose last signal is SIGSTOP.
AskedToRun ==
  pc = "idle" /\ result # "suspended" => \A p \in Procs : Alive(p) => told[p] = "run"

\* resume_all() returns True only if no process is stopped, those it has not
\* found included.
NobodyLeftStopped == pc = "idle" /\ result = "resumed" => \A p \in Procs : state[p] # "T"

\* Whenever a service is asked to stop, so is the game: it never runs against
\* a stopped wineserver for longer than a signal takes, also in a rollback.
GameFirst ==
  (\E p \in Services : Alive(p) /\ told[p] = "stop") => ~Alive(Game) \/ told[Game] = "stop"

\* openspec/specs/auto-pause/spec.md: "the game and matching Wine services
\* SHALL enter the stopped state".  The code looks for stopped processes
\* outside its tree (server.py:199), not for running ones.
WholeTreeStopped ==
  pc = "idle" /\ result = "suspended" => \A p \in Procs : state[p] # "R"

-----------------------------------------------------------------------------
(* The inductive invariant.                                                  *)

\* The loops over the processes stay inside pids.
LoopsInPids == pc \in {"stop", "verify", "cont", "check"} => todo \subseteq pids

\* What the call looks at, and works on, has been born.
Born == \A p \in todo \cup found \cup pids : state[p] # "unborn"

\* Where a live process that was asked to stop can be found by the call: it
\* is what makes a rollback reach every process, however late it scans.
StopKnown(p) ==
  /\ pc = "idle" => result = "suspended"
  /\ pc \in {"list", "scan"} => job # "tree"
  /\ pc \in {"list", "scan"} /\ job = "drift" => p \in pids
  /\ pc = "scan" /\ job \in Resuming => p \in todo \cup found
  /\ pc = "stop" => p \in pids \ todo
  /\ pc = "verify" => p \in pids
  /\ pc = "cont" => p \in todo
  /\ pc # "check"
StopsKnown == \A p \in Procs : Alive(p) /\ told[p] = "stop" => StopKnown(p)

\* Where a process that is still stopped can be found while a call resumes.
StoppedKnown(p) ==
  /\ pc = "scan" /\ job \in Resuming => p \in todo \cup found
  /\ pc = "cont" => p \in pids
  /\ pc = "check" => p \in todo
AllStoppedKnown == \A p \in Procs : state[p] = "T" => StoppedKnown(p)

\* What SIGSTOP has been sent to, and what has been seen to obey it.
StopProgress ==
  /\ pc = "stop" => Game \in pids /\ \A p \in pids \ todo : told[p] = "stop"
  /\ pc = "verify" => \A p \in pids : told[p] = "stop" /\ (p \notin todo => Halted(p))
  /\ pc \in {"list", "scan"} /\ job = "drift" => \A p \in pids : told[p] = "stop" /\ Halted(p)
  /\ pc = "idle" /\ result = "suspended" => \A p \in pids : told[p] = "stop" /\ Halted(p)

IInv ==
  /\ TypeOK /\ LoopsInPids /\ Born /\ StopsKnown /\ AllStoppedKnown /\ StopProgress
  /\ GameFirst /\ NobodyLeftStopped
=============================================================================
