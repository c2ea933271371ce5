------------------------------ MODULE AutoPause ------------------------------
(***************************************************************************)
(* The Auto Pause controller (enshctl/lifecycle/autopause.py) with the     *)
(* actors it races with: the main thread's ordered exit                    *)
(* (lifecycle/runtime.py), the stdout reader that feeds presence evidence, *)
(* the background threads behind the PauseGate, the operator's files under *)
(* /data/config/autopause, the game, and client packets.                   *)
(*                                                                         *)
(* Evidence is abstracted to the bits the vetoes read, the save signature  *)
(* to its relation with the one the controller recorded last, the activity *)
(* generation to "moved since the window opened"; idle time is a choice.   *)
(* Auto Pause is enabled and the query endpoint known: the controller is   *)
(* not built, or refuses every pause, otherwise.                           *)
(***************************************************************************)
EXTENDS Integers, FiniteSets, Evidence

CONSTANTS Workers, Blocking,   (* the threads behind the PauseGate          *)
          Requests             (* the actions an operator may request       *)

\* What may go wrong: the members of Faults.
FaultKinds ==
  {"suspend",      (* a suspension fails its verification                   *)
   "rollback",     (* ... and so does the SIGCONT that undoes it            *)
   "resume",       (* resume_all() finds a process still stopped            *)
   "controller",   (* an exception escapes the controller's loop            *)
   "stream",       (* the server's stdout ends                              *)
   "cap",          (* the roster hits its cap: the tracker is degraded      *)
   "crash",        (* the game dies                                         *)
   "files"}        (* the paused marker cannot be removed                   *)

RequestKinds == {"pause", "pause-force", "resume", "reset", "reset-force"}

ASSUME ConstantsAssumption ==
  /\ IsFiniteSet(Workers) /\ Blocking \subseteq Workers
  /\ Requests \subseteq RequestKinds
  /\ Faults \subseteq FaultKinds

VARIABLES
  \* The controller thread: control point, what it returns to, _pause's force
  ctl, site, forced,
  \* AutoPauseController._lock, _latch, _state, _run_disabled
  lock, latch, state, runDisabled,
  \* ControlFiles
  pausedMarker, disabledMarker, request,
  \* the game: its processes and its newest save; the wake source
  tree, save, wake,
  \* the main thread; the gate
  main, active, quiet, job, stop

Gate == INSTANCE PauseGate

attempt  == <<site, forced>>
control  == <<lock, latch, state, runDisabled>>
files    == <<pausedMarker, disabledMarker, request>>
world    == <<tree, save, wake>>
gateVars == <<active, quiet, job>>
exit     == <<main, stop>>
vars == <<ctl, attempt, control, files, evidence, world, gateVars, exit>>

ControlPoints ==
  {"top", "request", "tick", "wait", "resume", "reopen", "disable",
   "check", "enter", "probe1", "base", "save", "settle", "arm", "probe2",
   "restat", "lock", "final", "signal", "verify", "pausing", "unarm",
   "unquiet", "failed", "recover", "close", "dead"}

Init ==
  /\ ctl = "top" /\ site = "tick" /\ forced = FALSE
  /\ lock = "free" /\ latch = FALSE /\ runDisabled = FALSE
  /\ disabledMarker \in BOOLEAN
  /\ state = IF disabledMarker THEN "disabled" ELSE "waiting-for-ready"
  /\ pausedMarker = FALSE /\ request = "none"
  /\ EvidenceInit
  /\ tree = "running" /\ save \in {"absent", "same"} /\ wake = "closed"
  /\ main = "serving"
  /\ Gate!Init

-----------------------------------------------------------------------------
(* The vetoes. *)

\* _veto_reason()
Vetoed(force) ==
  \/ disabledMarker \/ ~ready \/ ~stream \/ degraded
  \/ ~force /\ (present \/ ~session)

\* _interrupted(), polled through the save wait
Interrupted(force) ==
  \/ stop \/ latch \/ disabledMarker \/ request # "none"
  \/ ~stream \/ degraded
  \/ ~force /\ (activity \/ present)

Frozen == tree \in {"partial", "stopped"}

Goto(from, to) == ctl = from /\ ctl' = to

\* Where the loop goes on after an attempt or a resume that began at s.
Return(s) ==
  CASE s = "disabled" -> "request"
    [] s = "request"  -> "tick"
    [] s = "failed"   -> "failed"
    [] OTHER          -> "top"

-----------------------------------------------------------------------------
(* The controller's loop. *)

\* The while condition fails; _run's finally is still to come.
LeaveLoop ==
  /\ stop \/ latch
  /\ Goto("top", "close")
  /\ UNCHANGED <<attempt, control, files, evidence, world, gateVars, exit>>

BeginResume(s) ==
  /\ lock = "free" /\ lock' = "ctl"
  /\ site' = s
  /\ ctl' = "resume"
  /\ UNCHANGED <<forced, latch, state, runDisabled, files, evidence, tree, save, gateVars, exit>>

\* Mutant: the disabled status replaces a pause that nobody has ended.
DisableWithoutResume ==
  /\ Goto("top", "request") /\ ~stop /\ ~latch
  /\ state' = IF runDisabled \/ disabledMarker THEN "disabled" ELSE state
  /\ UNCHANGED <<attempt, lock, latch, runDisabled, files, evidence, world, gateVars, exit>>

\* _handle_disabled()
HandleDisabled ==
  /\ ctl = "top" /\ ~stop /\ ~latch
  /\ \/ /\ disabledMarker /\ ~runDisabled /\ state = "paused"
        /\ BeginResume("disabled")
        /\ UNCHANGED wake
     \/ /\ runDisabled \/ ~disabledMarker \/ state # "paused"
        /\ ctl' = "request"
        /\ state' = IF runDisabled \/ disabledMarker THEN "disabled"
                    ELSE IF state = "disabled"
                         THEN IF ready THEN "active" ELSE "waiting-for-ready"
                         ELSE state
        /\ UNCHANGED <<attempt, lock, latch, runDisabled, files, evidence, world, gateVars, exit>>

\* _handle_request(): no request, or one that expired and is only removed
NoRequest ==
  /\ Goto("request", "tick")
  /\ request' = "none"
  /\ UNCHANGED <<attempt, control, pausedMarker, disabledMarker, evidence, world, gateVars, exit>>

\* "pause" and "pause-force"; when already paused it counts as applied
PauseRequest ==
  /\ ctl = "request" /\ request \in {"pause", "pause-force"}
  /\ request' = "none"
  /\ IF state = "paused"
     THEN ctl' = "tick" /\ UNCHANGED attempt
     ELSE ctl' = "check" /\ site' = "request" /\ forced' = (request = "pause-force")
  /\ UNCHANGED <<control, pausedMarker, disabledMarker, evidence, world, gateVars, exit>>

\* "resume"; when not paused it only resets the idle timer
ResumeRequest ==
  /\ ctl = "request" /\ request = "resume"
  /\ request' = "none"
  /\ IF state = "paused"
     THEN lock = "free" /\ lock' = "ctl" /\ site' = "request" /\ ctl' = "resume"
     ELSE ctl' = "tick" /\ UNCHANGED <<lock, site>>
  /\ UNCHANGED <<forced, latch, state, runDisabled, pausedMarker, disabledMarker,
                 evidence, world, gateVars, exit>>

\* "reset" is refused while the roster is not empty (present stands for more
\* than the roster, so it may go either way); the tracker forgets everything
\* but the ready marker, and its activity generation does not move.
ResetRequest ==
  /\ request \in {"reset", "reset-force"}
  /\ Goto("request", "tick")
  /\ request' = "none"
  /\ \/ ForgetEvidence
     \/ request = "reset" /\ present /\ UNCHANGED evidence
  /\ UNCHANGED <<attempt, control, pausedMarker, disabledMarker, world, gateVars, exit>>

\* _tick() with nothing to attempt: waiting, or active and not idle long enough
Tick ==
  /\ state # "paused"
  /\ Goto("tick", "top")
  /\ state' = IF state = "waiting-for-ready" /\ ready THEN "active" ELSE state
  /\ UNCHANGED <<attempt, lock, latch, runDisabled, files, evidence, world, gateVars, exit>>

\* _tick_active(): the idle timeout has elapsed
IdleAttempt ==
  /\ state = "active" /\ stream /\ ~degraded
  /\ Goto("tick", "check")
  /\ site' = "tick" /\ forced' = FALSE
  /\ UNCHANGED <<control, files, evidence, world, gateVars, exit>>

\* _tick_paused()
TickPaused ==
  /\ ctl = "tick" /\ state = "paused"
  /\ \/ ~stream /\ BeginResume("stream") /\ UNCHANGED wake
     \/ stream /\ disabledMarker /\ BeginResume("marker") /\ UNCHANGED wake
     \/ /\ stream /\ ~disabledMarker
        /\ ctl' = "wait"
        /\ UNCHANGED <<attempt, control, files, evidence, world, gateVars, exit>>

\* The wake source returns an event, which is thereby consumed.
WakeEvent ==
  /\ ctl = "wait" /\ wake = "hit" /\ ~stop
  /\ wake' = "armed"
  /\ BeginResume("wake")

\* Mutant: a tick that ends drops the event that came meanwhile.
WaitDropsEvent ==
  /\ Goto("wait", "top")
  /\ wake' = IF wake = "hit" THEN "armed" ELSE wake
  /\ UNCHANGED <<attempt, control, files, evidence, tree, save, gateVars, exit>>

WaitEnds ==
  /\ wake # "hit" \/ stop
  /\ Goto("wait", "top")
  /\ UNCHANGED <<attempt, control, files, evidence, world, gateVars, exit>>

-----------------------------------------------------------------------------
(* _resume(), under the lock. *)

\* resume_all() returns True: no process is stopped, or none is left.
TreeAwakes == tree' = IF Frozen THEN "running" ELSE tree

\* resume_all() returns False: some process is still stopped.
TreeStaysFrozen ==
  /\ "resume" \in Faults
  /\ Frozen
  /\ tree' \in {tree, "partial"}

ResumeTree ==
  /\ ctl = "resume"
  /\ \/ TreeAwakes /\ ctl' = "reopen" /\ UNCHANGED <<lock, state>>
     \/ /\ TreeStaysFrozen
        /\ ctl' = Return(site)
        /\ lock' = "free" /\ state' = "paused"
  /\ UNCHANGED <<attempt, latch, runDisabled, files, evidence, save, wake, gateVars, exit>>

\* clear_paused(), whose failure is only logged.
ClearPaused ==
  \/ pausedMarker' = FALSE
  \/ "files" \in Faults /\ UNCHANGED pausedMarker

ReopenGate ==
  /\ ctl = "reopen"
  /\ Gate!Resume
  /\ wake' = "closed" /\ ClearPaused
  /\ state' = IF disabledMarker THEN "disabled" ELSE "active"
  /\ lock' = "free"
  /\ ctl' = IF site \in {"disabled", "stream", "marker"} THEN "disable" ELSE Return(site)
  /\ UNCHANGED <<attempt, latch, runDisabled, disabledMarker, request, evidence, tree, save, exit>>

\* The caller's _transition(DISABLED), after the lock is released.
DisableAfterResume ==
  /\ Goto("disable", Return(site))
  /\ state' = "disabled"
  /\ runDisabled' = (runDisabled \/ site = "stream")
  /\ UNCHANGED <<attempt, lock, latch, files, evidence, world, gateVars, exit>>

-----------------------------------------------------------------------------
(* _attempt_pause() *)

\* The stop latch and the vetoes, before anything is held.
Check ==
  /\ Goto("check", IF stop \/ latch \/ Vetoed(forced) THEN Return(site) ELSE "enter")
  /\ UNCHANGED <<attempt, control, files, evidence, world, gateVars, exit>>

\* try_quiet(), then the activity generation of the window is recorded.
EnterWindow ==
  /\ ctl = "enter"
  /\ \/ /\ Gate!TryQuiet
        /\ RecordGeneration
        /\ ctl' = "probe1"
     \/ /\ active > 0
        /\ ctl' = Return(site)
        /\ UNCHANGED <<evidence, gateVars>>
  /\ UNCHANGED <<attempt, control, files, world, exit>>

\* _probe_a2s(): no answer is neutral; a positive count ends an unforced attempt
FirstProbe ==
  /\ ctl = "probe1"
  /\ \/ ctl' = "base" /\ state' = "pause-pending"
     \/ ~forced /\ ctl' = "unquiet" /\ UNCHANGED state
  /\ UNCHANGED <<attempt, lock, latch, runDisabled, files, evidence, world, gateVars, exit>>

\* Mutant: an attempt that is given up does not end its window.
GiveUpInWindow ==
  /\ ctl' = Return(site)
  /\ state' = IF disabledMarker THEN "disabled" ELSE "active"
  /\ UNCHANGED save

\* _wait_for_save() failed.
GiveUpSave ==
  /\ ctl' = "unquiet"
  /\ state' = IF disabledMarker THEN "disabled" ELSE "active"
  /\ UNCHANGED save

\* The signature to compare with, if there is a save at all.
BaseSave ==
  /\ ctl = "base"
  /\ \/ save # "absent" /\ save' = "same" /\ ctl' = "save" /\ UNCHANGED state
     \/ save = "absent" /\ GiveUpSave
  /\ UNCHANGED <<attempt, lock, latch, runDisabled, files, evidence, tree, wake, gateVars, exit>>

\* _wait_for_signature_change(): a new save, an interruption or the deadline
AwaitSave ==
  /\ ctl = "save"
  /\ \/ /\ ~Interrupted(forced) /\ save = "changed"
        /\ save' = "same" /\ ctl' = "settle"
        /\ UNCHANGED state
     \/ (Interrupted(forced) \/ save # "changed") /\ GiveUpSave
  /\ UNCHANGED <<attempt, lock, latch, runDisabled, files, evidence, tree, wake, gateVars, exit>>

\* _settle() and the re-stat after it: another change waits for the next save
Settle ==
  /\ ctl = "settle"
  /\ \/ /\ ~Interrupted(forced)
        /\ \/ save = "same" /\ ctl' = "arm" /\ UNCHANGED save
           \/ save = "changed" /\ save' = "same" /\ ctl' = "save"
        /\ UNCHANGED state
     \/ (Interrupted(forced) \/ save = "absent") /\ GiveUpSave
  /\ UNCHANGED <<attempt, lock, latch, runDisabled, files, evidence, tree, wake, gateVars, exit>>

\* arm(), which may find no wake source
ArmWake ==
  /\ ctl = "arm"
  /\ \/ wake' = "armed" /\ ctl' = "probe2" /\ UNCHANGED state
     \/ state' = "active" /\ ctl' = "unquiet" /\ UNCHANGED wake
  /\ UNCHANGED <<attempt, lock, latch, runDisabled, files, evidence, tree, save, gateVars, exit>>

SecondProbe ==
  /\ ctl = "probe2"
  /\ ctl' \in IF forced THEN {"restat"} ELSE {"restat", "unarm"}
  /\ UNCHANGED <<attempt, control, files, evidence, world, gateVars, exit>>

\* _save_still_quiescent()
Restat ==
  /\ Goto("restat", IF save = "same" THEN "lock" ELSE "unarm")
  /\ UNCHANGED <<attempt, control, files, evidence, world, gateVars, exit>>

-----------------------------------------------------------------------------
(* _suspend_tree(), under the lock. *)

TakeLock ==
  /\ Goto("lock", "final")
  /\ lock = "free" /\ lock' = "ctl"
  /\ UNCHANGED <<attempt, latch, state, runDisabled, files, evidence, world, gateVars, exit>>

\* Mutants: the last check does not look at the shutdown, or forgets the lock.
FinalCheckUnlatched ==
  /\ ctl = "final"
  /\ IF \/ disabledMarker \/ ~stream \/ degraded
        \/ ~forced /\ (Vetoed(FALSE) \/ activity)
     THEN ctl' = "unarm" /\ lock' = "free"
     ELSE ctl' = "signal" /\ UNCHANGED lock
  /\ UNCHANGED <<attempt, latch, state, runDisabled, files, evidence, world, gateVars, exit>>

FinalCheckLocked ==
  /\ ctl = "final"
  /\ ctl' = IF \/ stop \/ latch \/ disabledMarker \/ ~stream \/ degraded
               \/ ~forced /\ (Vetoed(FALSE) \/ activity)
            THEN "unarm" ELSE "signal"
  /\ UNCHANGED <<attempt, control, files, evidence, world, gateVars, exit>>

\* The last word of the latch, the marker and the evidence.
FinalCheck ==
  /\ ctl = "final"
  /\ IF \/ stop \/ latch \/ disabledMarker \/ ~stream \/ degraded
        \/ ~forced /\ (Vetoed(FALSE) \/ activity)
     THEN ctl' = "unarm" /\ lock' = "free"
     ELSE ctl' = "signal" /\ UNCHANGED lock
  /\ UNCHANGED <<attempt, latch, state, runDisabled, files, evidence, world, gateVars, exit>>

\* suspend_all() returned False: _transition(ACTIVE)
SuspendFailed ==
  /\ state' = "active" /\ lock' = "free" /\ ctl' = "unarm"

\* suspend_all(): no stable tree, or SIGSTOP to one process after the other
SignalTree ==
  /\ ctl = "signal"
  /\ \/ /\ tree = "gone" \/ "suspend" \in Faults
        /\ SuspendFailed
        /\ UNCHANGED tree
     \/ tree # "gone" /\ tree' = "partial" /\ ctl' = "verify" /\ UNCHANGED <<lock, state>>
  /\ UNCHANGED <<attempt, latch, runDisabled, files, evidence, save, wake, gateVars, exit>>

\* Every process is seen stopped, or resume_all() undoes what was done; its
\* result is not looked at.
VerifyTree ==
  /\ ctl = "verify"
  /\ \/ tree = "partial" /\ tree' = "stopped" /\ ctl' = "pausing" /\ UNCHANGED <<lock, state>>
     \/ /\ tree = "gone" \/ "suspend" \in Faults
        /\ TreeAwakes \/ ("rollback" \in Faults /\ UNCHANGED tree)
        /\ SuspendFailed
  /\ UNCHANGED <<attempt, latch, runDisabled, files, evidence, save, wake, gateVars, exit>>

Pause ==
  /\ Goto("pausing", "unarm")
  /\ state' = "paused" /\ pausedMarker' = TRUE
  /\ lock' = "free"
  /\ UNCHANGED <<attempt, latch, runDisabled, disabledMarker, request, evidence, world, gateVars, exit>>

\* Mutants: the finally clauses do not ask whether the attempt succeeded.
UnarmAlways ==
  /\ Goto("unarm", "unquiet")
  /\ wake' = "closed"
  /\ state' = IF state # "pause-pending" THEN state
              ELSE IF disabledMarker THEN "disabled" ELSE "active"
  /\ UNCHANGED <<attempt, lock, latch, runDisabled, files, evidence, tree, save, gateVars, exit>>

UnquietAlways ==
  /\ Goto("unquiet", Return(site))
  /\ Gate!Resume
  /\ UNCHANGED <<attempt, control, files, evidence, world, exit>>

\* The two finally clauses of _attempt_pause().
Unarm ==
  /\ Goto("unarm", "unquiet")
  /\ wake' = IF state = "paused" THEN wake ELSE "closed"
  /\ state' = IF state # "pause-pending" THEN state
              ELSE IF disabledMarker THEN "disabled" ELSE "active"
  /\ UNCHANGED <<attempt, lock, latch, runDisabled, files, evidence, tree, save, gateVars, exit>>

Unquiet ==
  /\ Goto("unquiet", Return(site))
  /\ IF state = "paused" THEN UNCHANGED gateVars ELSE Gate!Resume
  /\ UNCHANGED <<attempt, control, files, evidence, world, exit>>

-----------------------------------------------------------------------------
(* _run()'s exception handler and its finally. *)

\* An exception (a status write on a full disk, a poll of a closed socket)
\* leaves through the finally clauses the controller is inside of.
Raise ==
  /\ "controller" \in Faults
  /\ \/ ctl \in {"top", "request", "tick", "wait", "disable", "check"}
        /\ ctl' = "failed"
        /\ UNCHANGED <<site, state, lock, pausedMarker>>
     \/ ctl \in {"probe1", "base", "save", "settle", "arm"}
        /\ ctl' = "unquiet" /\ site' = "failed"
        /\ UNCHANGED <<state, lock, pausedMarker>>
     \/ ctl \in {"probe2", "restat"}
        /\ ctl' = "unarm" /\ site' = "failed"
        /\ UNCHANGED <<state, lock, pausedMarker>>
     \* set_paused() or the status write after it raises: the state is set
     \/ /\ ctl = "pausing"
        /\ ctl' = "unarm" /\ site' = "failed"
        /\ state' = "paused" /\ pausedMarker' \in {pausedMarker, TRUE}
        /\ lock' = "free"
  /\ UNCHANGED <<forced, latch, runDisabled, disabledMarker, request, evidence, world,
                 gateVars, exit>>

\* was_paused, and the run is disabled
HandleFailure ==
  /\ Goto("failed", "recover")
  /\ site' = IF state = "paused" THEN "was_paused" ELSE "was_awake"
  /\ runDisabled' = TRUE
  /\ UNCHANGED <<forced, lock, latch, state, files, evidence, world, gateVars, exit>>

\* resume_all() without the lock
Recover ==
  /\ Goto("recover", "close")
  /\ \/ /\ TreeAwakes
        /\ Gate!Resume
        /\ ClearPaused /\ state' = "disabled"
     \/ /\ TreeStaysFrozen
        /\ UNCHANGED pausedMarker
        /\ IF site = "was_paused"
           THEN state' = "paused" /\ UNCHANGED gateVars
           ELSE state' = "disabled" /\ Gate!Resume
  /\ UNCHANGED <<attempt, lock, latch, runDisabled, disabledMarker, request, evidence, save, wake, exit>>

CloseAndEnd ==
  /\ Goto("close", "dead")
  /\ wake' = "closed"
  /\ UNCHANGED <<attempt, control, files, evidence, tree, save, gateVars, exit>>

-----------------------------------------------------------------------------
(* The main thread: exit_server(), AutoPauseController.stop() and           *)
(* resume_for_shutdown().                                                   *)

\* A termination signal: the handler runs between two steps of the main loop.
SignalHandler ==
  /\ main = "serving" /\ ~stop
  /\ Gate!Stop
  /\ UNCHANGED <<ctl, attempt, control, files, evidence, world, main>>

\* _wait_for_exit() returns: a shutdown was requested or the game is gone.
ExitServer ==
  /\ main = "serving" /\ (stop \/ tree = "gone")
  /\ stop' = TRUE /\ main' = "latch"
  /\ UNCHANGED <<ctl, attempt, control, files, evidence, world, gateVars>>

\* Mutant: stop() sets the latch without the lock.
SetLatchUnlocked ==
  /\ main = "latch"
  /\ latch' = TRUE /\ main' = "close"
  /\ UNCHANGED <<ctl, attempt, lock, state, runDisabled, files, evidence, world, gateVars, stop>>

\* stop(): the latch is set under the lock ...
SetLatch ==
  /\ main = "latch" /\ lock = "free"
  /\ latch' = TRUE /\ main' = "close"
  /\ UNCHANGED <<ctl, attempt, lock, state, runDisabled, files, evidence, world, gateVars, stop>>

\* ... the wake source is closed outside it ...
CloseWake ==
  /\ main = "close" /\ main' = "join"
  /\ wake' = "closed"
  /\ UNCHANGED <<ctl, attempt, control, files, evidence, tree, save, gateVars, stop>>

\* ... and the join ends with the thread or with STOP_JOIN_TIMEOUT.
Join ==
  /\ main = "join" /\ main' = "resume"
  /\ UNCHANGED <<ctl, attempt, control, files, evidence, world, gateVars, stop>>

\* resume_for_shutdown()
BeginShutdownResume ==
  /\ main = "resume" /\ lock = "free"
  /\ lock' = "main" /\ state' = "stopping" /\ wake' = "closed"
  /\ main' = "waking"
  /\ UNCHANGED <<ctl, attempt, latch, runDisabled, files, evidence, tree, save, gateVars, stop>>

ShutdownResume ==
  /\ main = "waking"
  /\ lock' = "free"
  /\ \/ /\ TreeAwakes /\ Gate!Resume
        /\ ClearPaused /\ main' = "sigint"
        /\ UNCHANGED state
     \/ /\ TreeStaysFrozen /\ UNCHANGED gateVars
        /\ state' = "paused" /\ main' = "stuck"
        /\ UNCHANGED pausedMarker
  /\ UNCHANGED <<ctl, attempt, latch, runDisabled, disabledMarker, request, evidence, save, wake, stop>>

\* _stop_server(): SIGINT, then SIGKILL at the timeout, which a stopped
\* process does not survive either.
StopServer ==
  /\ main \in {"sigint", "stuck"} /\ main' = "ended"
  /\ tree' = "gone"
  /\ UNCHANGED <<ctl, attempt, control, files, evidence, save, wake, gateVars, stop>>

-----------------------------------------------------------------------------
(* The other actors. *)

\* The game's output, also the lines still buffered when the game is stopped,
\* and the time that passes over what they said.
NewEvidence ==
  /\ EvidenceMoves
  /\ UNCHANGED <<ctl, attempt, control, files, world, gateVars, exit>>

\* The CLI's request file, which a later request replaces.
Request ==
  /\ request' \in Requests
  /\ UNCHANGED <<pausedMarker, disabledMarker>>

\* autopause disable / enable
ToggleDisabled ==
  /\ disabledMarker' = ~disabledMarker
  /\ UNCHANGED <<pausedMarker, request>>

Operator ==
  /\ Request \/ ToggleDisabled
  /\ UNCHANGED <<ctl, attempt, control, evidence, world, gateVars, exit>>

\* The running game writes a save, or the newest one is removed.
GameSaves ==
  /\ \/ tree = "running" /\ save' = "changed"
     \/ save # "absent" /\ save' = "absent"
  /\ UNCHANGED <<tree, wake>>

\* A client packet reaches the query port.
Packet ==
  /\ wake = "armed" /\ wake' = "hit"
  /\ UNCHANGED <<tree, save>>

GameDies ==
  /\ "crash" \in Faults
  /\ main = "serving" /\ tree' = "gone"
  /\ UNCHANGED <<save, wake>>

World ==
  /\ GameSaves \/ Packet \/ GameDies
  /\ UNCHANGED <<ctl, attempt, control, files, evidence, gateVars, exit>>

Background ==
  /\ \E w \in Workers : Gate!Worker(w)
  /\ UNCHANGED <<ctl, attempt, control, files, evidence, world, main>>

-----------------------------------------------------------------------------
Controller ==
  \/ LeaveLoop \/ HandleDisabled
  \/ NoRequest \/ PauseRequest \/ ResumeRequest \/ ResetRequest
  \/ Tick \/ IdleAttempt \/ TickPaused \/ WakeEvent \/ WaitEnds
  \/ ResumeTree \/ ReopenGate \/ DisableAfterResume
  \/ Check \/ EnterWindow \/ FirstProbe \/ BaseSave \/ AwaitSave \/ Settle
  \/ ArmWake \/ SecondProbe \/ Restat
  \/ TakeLock \/ FinalCheck \/ SignalTree \/ VerifyTree \/ Pause
  \/ Unarm \/ Unquiet
  \/ HandleFailure \/ Recover \/ CloseAndEnd

MainThread ==
  \/ ExitServer \/ SetLatch \/ CloseWake \/ Join
  \/ BeginShutdownResume \/ ShutdownResume \/ StopServer

Next ==
  Controller \/ Raise \/ MainThread \/ SignalHandler
  \/ NewEvidence \/ Operator \/ World \/ Background

Spec == Init /\ [][Next]_vars

\* Both threads are scheduled.  A save wait ends at its deadline unless saves
\* keep changing while they settle: the game does not save every two seconds.
\* Packets, lines, requests, signals and faults owe nothing.
Fairness ==
  /\ WF_vars(Controller)
  /\ WF_vars(MainThread)
  /\ SF_vars(Settle /\ ctl' = "arm")

FairSpec == Spec /\ Fairness

-----------------------------------------------------------------------------
TypeOK ==
  /\ ctl \in ControlPoints
  /\ site \in {"tick", "request", "disabled", "stream", "marker", "wake",
               "failed", "was_paused", "was_awake"}
  /\ forced \in BOOLEAN
  /\ lock \in {"free", "ctl", "main"} /\ latch \in BOOLEAN /\ runDisabled \in BOOLEAN
  /\ state \in {"disabled", "waiting-for-ready", "active", "pause-pending",
                "paused", "stopping"}
  /\ pausedMarker \in BOOLEAN /\ disabledMarker \in BOOLEAN
  /\ request \in Requests \cup {"none"}
  /\ ready \in BOOLEAN /\ stream \in BOOLEAN /\ degraded \in BOOLEAN
  /\ present \in BOOLEAN /\ session \in BOOLEAN /\ activity \in BOOLEAN
  /\ tree \in {"running", "partial", "stopped", "gone"}
  /\ save \in {"absent", "same", "changed"}
  /\ wake \in {"closed", "armed", "hit"}
  /\ main \in {"serving", "latch", "close", "join", "resume", "waking",
               "sigint", "stuck", "ended"}
  /\ Gate!TypeOK

\* Where the controller is inside an attempt's quiet window or on the handler
\* path that ends it.
WindowPoints ==
  {"probe1", "base", "save", "settle", "arm", "probe2", "restat", "lock",
   "final", "signal", "verify", "pausing", "unarm", "unquiet", "failed", "recover"}

\* Where the controller is between two pieces of work on the pause.
LoopPoints == {"top", "request", "tick", "wait"}

\* Shutdown and a pause in flight: whatever the controller was doing when the
\* latch was set, and even when the join timed out, the main thread sends
\* SIGINT to a tree no process of which is stopped (or it knows better: "stuck").
AwakeAtSigint == main = "sigint" => ~Frozen

\* No backup, poll or summary is in flight while the tree is stopped, also
\* when the gate is reopened by a handler that could not resume the tree.
FrozenHasNoWork == tree = "stopped" => Gate!Working = {}

\* A quiet window never outlives its reason: someone is inside an attempt, or
\* the tree is paused, or the main thread is just about to end the window.
NoLeakedWindow ==
  quiet => ctl \in WindowPoints \/ state = "paused" \/ lock = "main"

\* While the server is served, the loop never believes in a pause that is not
\* one: the tree is not running, the window is held, somebody listens for the
\* packet that ends it, and the paused marker says so, no more and no less.
\* Nor does it miss one: with an active controller no process is stopped (spec
\* auto-pause, "Whole-tree suspension and resume": a failed verification leaves
\* the server running).
PauseIsConsistent ==
  main = "serving" /\ ctl \in LoopPoints =>
    /\ state = "paused" => tree # "running" /\ quiet /\ wake # "closed"
    /\ pausedMarker <=> state = "paused"
    /\ state = "active" => ~Frozen

\* Spec auto-pause, "Save re-stat before suspension": a save that changes
\* before the suspension keeps the server running.
PausedOnQuiescentSave == ctl = "pausing" => save # "changed"

\* Auto Pause implements what it promises the background threads.
Window ==
  INSTANCE QuietWindow WITH working <- Gate!Working, window <- quiet,
                            frozen <- (tree = "stopped"), sealed <- stop
ImplementsQuietWindow == Window!Spec

\* A client's packet ends the pause.
WakeResumes == (state = "paused" /\ wake = "hit") ~> ~Frozen

\* A shutdown always gets to the end, whoever holds what.
ShutdownEnds == stop ~> main = "ended"

\* The background threads are not kept out for ever by an attempt.
WindowEnds == quiet ~> (~quiet \/ state = "paused")

\* autopause disable ends a pause unless it is taken back.
DisableResumes == (state = "paused" /\ disabledMarker) ~> (~Frozen \/ ~disabledMarker)

-----------------------------------------------------------------------------
(* The inductive invariant behind AwakeAtSigint, FrozenHasNoWork and the    *)
(* refinement: who holds the lock, what the latch forbids, and where the    *)
(* controller stands while the tree is stopped.                             *)

\* The control points of the blocks under the lock.
LockPoints == {"resume", "reopen", "final", "signal", "verify", "pausing"}

\* From the vetoes to the end of suspend_all().
AttemptPoints ==
  {"check", "enter", "probe1", "base", "save", "settle", "arm", "probe2",
   "restat", "lock", "final", "signal", "verify"}

\* Inside the quiet window, before anything may end it.
HeldPoints == (AttemptPoints \ {"check", "enter"}) \cup {"pausing"}

SuspendPoints == {"signal", "verify", "pausing"}

\* try_quiet()'s test of the counter is a test of the threads.
CountsWork == active = Cardinality(Gate!Working)

\* The lock is held exactly inside the `with self._lock` blocks, by the
\* thread that is there.
LockIsOwned ==
  /\ lock = "ctl" <=> ctl \in LockPoints
  /\ lock = "main" <=> main = "waking"

\* The main thread sets the stop event, then the latch, before anything else
\* of its exit.
ExitIsLatched ==
  /\ main # "serving" => stop
  /\ main \notin {"serving", "latch"} => latch
  /\ latch => stop

\* The latch is set under the lock, so no suspension is under way, nor can
\* one begin, once it is set.
LatchStopsSuspension == latch => ctl \notin SuspendPoints

\* Throughout an attempt no work is in flight, and none is admitted: the
\* window is held, or the shutdown has sealed the gate.
WindowIsHeld == ctl \in HeldPoints => active = 0 /\ (quiet \/ latch)

\* The same as long as the tree is stopped, whoever stopped it.
StoppedIsGuarded == tree = "stopped" => active = 0 /\ (quiet \/ latch)

\* A stopped tree belongs to a pause, to the end of an attempt or to a
\* shutdown that resumes it.
StoppedIsPaused ==
  tree = "stopped" => latch \/ ctl = "pausing" \/ state = "paused"

\* An attempt starts from an awake tree; only the latch lets it meet another.
AttemptIsAwake == ctl \in AttemptPoints => tree # "stopped" \/ latch

\* After a resume that succeeded the tree stays awake up to the end of it.
ResumedIsAwake == ctl \in {"reopen", "disable"} => ~Frozen

\* A resume because the stream ended never meets a stream that lives again.
StreamEndIsFinal == ctl \in {"resume", "reopen", "disable"} /\ site = "stream" => ~stream

\* A controller that has disabled itself for this run has no stopped tree.
RunDisabledIsAwake ==
  runDisabled => \/ ctl \in {"recover", "close", "dead"}
                 \/ ~stream /\ tree # "stopped" /\ ctl \notin SuspendPoints

\* The failure handler resumes whenever the tree may be stopped: was_paused
\* is read from a state that tells the truth unless the shutdown resumes.
RecoveryKnows == ctl = "recover" /\ site # "was_paused" => tree # "stopped" \/ latch

LockInv ==
  /\ TypeOK /\ CountsWork
  /\ LockIsOwned /\ ExitIsLatched /\ LatchStopsSuspension
  /\ WindowIsHeld /\ StoppedIsGuarded /\ StoppedIsPaused
  /\ AttemptIsAwake /\ ResumedIsAwake /\ StreamEndIsFinal
  /\ RunDisabledIsAwake /\ RecoveryKnows
  /\ AwakeAtSigint

-----------------------------------------------------------------------------
(* ... and the one behind NoLeakedWindow and PauseIsConsistent: what the    *)
(* state, the window, the wake source and the marker are to each other at   *)
(* every control point, not only where the loop looks at them.              *)

ServingIsUnlatched == main = "serving" => ~latch

\* Who resumed a pause to disable it has closed the window before.
DisablingIsOpen == ctl = "disable" => ~quiet

\* A controller that has disabled itself stays disabled: until the shutdown it
\* neither pauses nor meets a pause again.
RunDisabledIsOver ==
  runDisabled /\ ~latch =>
    \/ ctl \in {"recover", "close", "dead"}
    \/ state = "disabled" /\ ctl \in {"top", "request", "tick", "check", "failed"}

\* The controller waits and resumes inside a pause, and attempts one outside.
PauseIsKnown ==
  main = "serving" =>
    /\ ctl \in {"wait", "resume", "reopen"} => state = "paused"
    /\ ctl \in AttemptPoints \cup {"pausing", "disable"} => state # "paused"

\* From its arming to the end of the suspension the wake source stays armed,
\* and what was suspended does not run on.
ArmedToPause ==
  main = "serving" =>
    /\ ctl \in {"probe2", "restat", "lock", "final"} \cup SuspendPoints => wake # "closed"
    /\ ctl = "pausing" => tree # "running"

\* A pause is one, wherever the controller stands that did not just resume it.
PauseIsHeld ==
  main = "serving" /\ state = "paused" /\ ctl \notin {"reopen", "close", "dead"} =>
    quiet /\ tree # "running" /\ wake # "closed"

\* The marker can be removed: it tells of the pause up to the failure handler.
MarkerTells ==
  "files" \notin Faults /\ main = "serving" =>
    \/ ctl \in {"failed", "recover", "close", "dead"}
    \/ ctl \in {"unarm", "unquiet"} /\ site = "failed"
    \/ pausedMarker <=> state = "paused"

\* A suspension can be undone: no process is stopped outside one and a pause.
FrozenIsPaused ==
  "rollback" \notin Faults /\ main = "serving" /\ Frozen =>
    state = "paused" \/ ctl \in {"verify", "pausing", "recover", "close", "dead"}

PausedInv ==
  /\ ServingIsUnlatched /\ DisablingIsOpen /\ RunDisabledIsOver /\ PauseIsKnown
  /\ ArmedToPause /\ PauseIsHeld /\ MarkerTells /\ FrozenIsPaused
  /\ NoLeakedWindow

IInv == LockInv /\ PausedInv
=============================================================================
