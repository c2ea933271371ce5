----------------------------- MODULE Lifecycle ------------------------------
(***************************************************************************)
(* One container from launch to its ordered exit: the main thread of       *)
(* ServerLifecycle (enshctl/lifecycle/runtime.py), the termination signal  *)
(* that may land between any two of its steps, the wrapper process it      *)
(* waits for (runuser) and the game behind it, the PID file, which is on a *)
(* volume and outlives the container, and the background threads behind    *)
(* the PauseGate.  A container that was killed is started again.           *)
(*                                                                         *)
(* The controller's side of the pause is module AutoPause; here it opens   *)
(* and closes quiet windows.  What an exit backup does is BackupStore.     *)
(***************************************************************************)
EXTENDS PauseGate

CONSTANTS AutoPause,        (* AUTO_PAUSE_ENABLED                            *)
          Cold, Emergency,  (* BACKUP_COLD and BACKUP_EMERGENCY              *)
          MaxFaults,        (* bound: what goes wrong                        *)
          MaxLives          (* bound: starts of the container                *)

ASSUME LifecycleAssumption ==
  /\ {AutoPause, Cold, Emergency} \subseteq BOOLEAN
  /\ MaxFaults \in Nat /\ MaxLives \in Nat \ {0}

VARIABLES
  main,        (* where the main thread is                                   *)
  request,     (* _request: its trigger, "failure" for none                  *)
  asked,       (* _shutdown_requested                                        *)
  exiting,     (* the request _finish() works on                             *)
  missed,      (* what signal_game() returned at the stop: no game was found *)
  wrapper,     (* the process Popen started: "none", "up" or "gone"          *)
  game,        (* the game's own process: "none" while wine may still start it *)
  pidFile,     (* the PID file exists                                        *)
  pidWritten,  (* _pid_written                                               *)
  spawned,     (* the background threads started                             *)
  pauser,      (* _pause_control: "none", "up" or "stopped"                  *)
  taken,       (* the exit backup that was run                               *)
  faults, lives

exit == <<request, asked, exiting, missed>>
procs == <<wrapper, game>>
pid == <<pidFile, pidWritten>>
threads == <<spawned, pauser>>
bounds == <<faults, lives>>
lifeVars == <<vars, main, exit, procs, pid, threads, taken, bounds>>

At(loc) == main = loc
Goto(loc) == main' = loc
Over == main \in {"ended", "killed"}
Fault == faults < MaxFaults /\ faults' = faults + 1 /\ UNCHANGED lives

LifecycleInit ==
  /\ Init
  /\ main = "prepare"
  /\ request = "none" /\ asked = FALSE /\ exiting = "none" /\ missed = FALSE
  /\ wrapper = "none" /\ game = "none"
  /\ pidFile = FALSE /\ pidWritten = FALSE
  /\ spawned = {} /\ pauser = "none" /\ taken = "none"
  /\ faults = 0 /\ lives = 1

-----------------------------------------------------------------------------
(* The signal handler. *)

\* Mutant: the last event decides.
LastRequest == request' = "shutdown"

\* _record_shutdown(): the first event decides.
RecordShutdown == request' = IF request = "none" THEN "shutdown" ELSE request

\* SIGTERM or SIGINT: the handler runs whole, between two steps of main.
Signal ==
  /\ ~Over /\ ~asked
  /\ asked' = TRUE /\ stop' = TRUE
  /\ RecordShutdown
  /\ UNCHANGED <<gateVars, main, exiting, missed, procs, pid, threads, taken, bounds>>

-----------------------------------------------------------------------------
(* run(). *)

\* Anything raised until the exit begins ends in the except clause, ...
Raise ==
  /\ Fault
  /\ Goto("raised")
  /\ UNCHANGED <<vars, exit, procs, pid, threads, taken>>

\* ... which looks for a request ...
Caught ==
  /\ At("raised")
  /\ IF request # "none" THEN Goto("finish") ELSE Goto("failing")
  /\ UNCHANGED <<vars, exit, procs, pid, threads, taken, bounds>>

\* ... and then records its own, over a signal that came after the look.
RecordFailure ==
  /\ At("failing")
  /\ request' = IF wrapper = "none" THEN "failure" ELSE "crash"
  /\ Goto("finish")
  /\ UNCHANGED <<vars, asked, exiting, missed, procs, pid, threads, taken, bounds>>

\* _prepare_auto_pause(), then a look for a signal that came first.
Prepare ==
  /\ At("prepare")
  /\ IF request # "none" THEN Goto("finish") ELSE Goto("launch")
  /\ UNCHANGED <<vars, exit, procs, pid, threads, taken, bounds>>

\* start()
Launch ==
  /\ At("launch")
  /\ wrapper' = "up" /\ Goto("pid")
  /\ UNCHANGED <<vars, exit, game, pid, threads, taken, bounds>>

\* write_pid(), and _pid_written after it.
WritePid ==
  /\ At("pid")
  /\ pidFile' = TRUE
  /\ Goto("written")
  /\ UNCHANGED <<vars, exit, procs, pidWritten, threads, taken, bounds>>

PidWritten ==
  /\ At("written")
  /\ pidWritten' = TRUE
  /\ IF request # "none" THEN Goto("finish") ELSE Goto("threads")
  /\ UNCHANGED <<vars, exit, procs, pidFile, threads, taken, bounds>>

\* The background threads and the controller are started one by one; a signal
\* meanwhile does not stop that.
StartThread ==
  /\ At("threads")
  /\ \/ \E w \in Workers \ spawned : spawned' = spawned \cup {w} /\ UNCHANGED pauser
     \/ AutoPause /\ pauser = "none" /\ pauser' = "up" /\ UNCHANGED spawned
  /\ UNCHANGED <<vars, main, exit, procs, pid, taken, bounds>>

Started ==
  /\ At("threads")
  /\ spawned = Workers /\ (AutoPause => pauser = "up")
  /\ Goto("wait")
  /\ UNCHANGED <<vars, exit, procs, pid, threads, taken, bounds>>

\* _prepare_auto_pause(), start(), write_pid() or the start of a thread raises.
StartFails == main \in {"prepare", "launch", "pid", "threads"} /\ Raise

\* _wait_for_exit(): a request, or the wrapper is gone.
Wait ==
  /\ At("wait")
  /\ \/ request # "none" /\ Goto("finish")
     \/ request = "none" /\ wrapper = "gone" /\ Goto("look")
  /\ UNCHANGED <<vars, exit, procs, pid, threads, taken, bounds>>

\* Twice, before and after the log line, a signal would make it a shutdown ...
Look ==
  /\ main \in {"look", "again"}
  /\ IF asked \/ request # "none" THEN Goto("finish")
     ELSE IF At("look") THEN Goto("again") ELSE Goto("record")
  /\ UNCHANGED <<vars, exit, procs, pid, threads, taken, bounds>>

\* ... then the crash is recorded, over a signal that came after the second.
RecordCrash ==
  /\ At("record")
  /\ request' = "crash" /\ Goto("finish")
  /\ UNCHANGED <<vars, asked, exiting, missed, procs, pid, threads, taken, bounds>>

-----------------------------------------------------------------------------
(* _finish() and exit_server(). *)

\* Mutant: only a signal stops the threads.
FinishUnstopped ==
  /\ At("finish")
  /\ exiting' = request /\ Goto("unpause")
  /\ UNCHANGED <<vars, request, asked, missed, procs, pid, threads, taken, bounds>>

Finish ==
  /\ At("finish")
  /\ exiting' = request /\ stop' = TRUE
  /\ Goto("unpause")
  /\ UNCHANGED <<gateVars, request, asked, missed, procs, pid, threads, taken, bounds>>

\* stop() and resume_for_shutdown(): the window ends unless the tree is stuck.
Unpause ==
  /\ At("unpause")
  /\ pauser' = IF pauser = "up" THEN "stopped" ELSE pauser
  /\ \/ pauser = "none" /\ UNCHANGED <<gateVars, bounds>>
     \/ pauser = "up" /\ Resume /\ UNCHANGED bounds
     \/ pauser = "up" /\ UNCHANGED gateVars /\ Fault
  /\ Goto("stop")
  /\ UNCHANGED <<stop, exit, procs, pid, spawned, taken>>

\* _stop_server(): nothing to stop, or SIGINT to the game, or to the wrapper
\* while there is no game to be found.  What raises is logged, and the exit
\* goes on beside the server.
StopServer ==
  /\ At("stop")
  /\ \/ wrapper # "up" /\ Goto("backup") /\ UNCHANGED <<missed, bounds>>
     \/ wrapper = "up" /\ Goto("interrupted") /\ missed' = (game = "none") /\ UNCHANGED bounds
     \/ wrapper = "up" /\ Goto("backup") /\ UNCHANGED missed /\ Fault
  /\ UNCHANGED <<vars, request, asked, exiting, procs, pid, threads, taken>>

\* The wrapper is gone in time.
Stopped ==
  /\ At("interrupted") /\ wrapper = "gone"
  /\ Goto("backup")
  /\ UNCHANGED <<vars, exit, procs, pid, threads, taken, bounds>>

\* Mutant: after the timeout the exit goes on.
GiveUp ==
  /\ At("interrupted") /\ wrapper = "up"
  /\ Goto("backup")
  /\ UNCHANGED <<vars, exit, procs, pid, threads, taken, bounds>>

\* Mutant: the timeout ends the game only.
KillGame ==
  /\ At("interrupted") /\ wrapper = "up" /\ game = "up"
  /\ game' = "gone"
  /\ UNCHANGED <<vars, main, exit, wrapper, pid, threads, taken, bounds>>

\* SHUTDOWN_TIMEOUT: SIGKILL to the game that is found and to the wrapper, and
\* a wait for the wrapper.  A game that has not come yet still may.
ForceKill ==
  /\ At("interrupted") /\ wrapper = "up"
  /\ wrapper' = "gone" /\ game' = (IF game = "up" THEN "gone" ELSE game)
  /\ Goto("backup")
  /\ UNCHANGED <<vars, exit, pid, threads, taken, bounds>>

BackupOf(trigger) ==
  CASE trigger = "shutdown" /\ Cold -> "cold"
    [] trigger = "crash" /\ Emergency -> "emergency"
    [] OTHER -> "none"

\* _run_triggered_backup(), which needs a save to back up
TriggeredBackup ==
  /\ At("backup")
  /\ taken' \in {BackupOf(exiting), "none"}
  /\ Goto("cleanup")
  /\ UNCHANGED <<vars, exit, procs, pid, threads, bounds>>

\* cleanup_wine() ends what is left of the game, or times out.
CleanupWine ==
  /\ At("cleanup")
  /\ \/ game' = (IF game = "up" THEN "gone" ELSE game) /\ UNCHANGED bounds
     \/ UNCHANGED game /\ Fault
  /\ Goto("clear")
  /\ UNCHANGED <<vars, exit, wrapper, pid, threads, taken>>

\* clear_pid(), only of a PID file that was written.
ClearPid ==
  /\ At("clear")
  /\ \/ pidFile' = (pidFile /\ ~pidWritten) /\ UNCHANGED bounds
     \/ pidWritten /\ UNCHANGED pidFile /\ Fault
  /\ Goto("ended")
  /\ UNCHANGED <<vars, exit, procs, pidWritten, threads, taken>>

\* Mutant: the PID file goes first, the cleanup comes last.
ClearPidFirst ==
  /\ main \in {"backup", "cleanup", "clear"}
  /\ pidFile' = (pidFile /\ ~pidWritten)
  /\ main' = CASE At("backup") -> "cleanup" [] At("cleanup") -> "clear" [] OTHER -> "ended"
  /\ taken' = IF At("backup") THEN BackupOf(exiting) ELSE taken
  /\ UNCHANGED <<vars, exit, procs, pidWritten, threads, bounds>>

\* The exit after the server, in its order; each step's failure is logged.
WindUp == TriggeredBackup \/ CleanupWine \/ ClearPid

Main ==
  \/ Prepare \/ Launch \/ WritePid \/ PidWritten
  \/ StartThread \/ Started
  \/ Caught \/ RecordFailure
  \/ Wait \/ Look \/ RecordCrash
  \/ Finish \/ Unpause \/ StopServer \/ Stopped \/ ForceKill
  \/ WindUp

-----------------------------------------------------------------------------
(* The processes of the server. *)

\* Wine gets to the game, whether or not the wrapper is still there.
GameStarts ==
  /\ wrapper # "none" /\ game = "none" /\ ~Over
  /\ game' = "up"
  /\ UNCHANGED <<vars, main, exit, wrapper, pid, threads, taken, bounds>>

\* A crash, or what SIGINT asks for; a game may also ignore it.
GameEnds ==
  /\ game = "up"
  /\ game' = "gone"
  /\ UNCHANGED <<vars, main, exit, wrapper, pid, threads, taken, bounds>>

\* The wrapper waits for wine: the game has ended, or wine failed to start it.
WrapperEnds ==
  /\ wrapper = "up" /\ game \in {"none", "gone"}
  /\ wrapper' = "gone" /\ game' = "gone"
  /\ UNCHANGED <<vars, main, exit, pid, threads, taken, bounds>>

\* The wrapper alone dies, of itself or of the SIGINT that was meant for the
\* game: the game goes on, or is still to come.
WrapperDies ==
  /\ wrapper = "up" /\ game # "gone"
  /\ wrapper' = "gone"
  /\ Fault \/ (At("interrupted") /\ missed /\ UNCHANGED bounds)
  /\ UNCHANGED <<vars, main, exit, game, pid, threads, taken>>

-----------------------------------------------------------------------------
(* The background threads and the controller. *)

Background(w) ==
  /\ w \in spawned
  /\ Worker(w)
  /\ UNCHANGED <<main, exit, procs, pid, threads, taken, bounds>>

Window ==
  /\ pauser = "up"
  /\ OpenWindow \/ CloseWindow
  /\ UNCHANGED <<main, exit, procs, pid, threads, taken, bounds>>

-----------------------------------------------------------------------------
(* The container. *)

\* It is killed, with every process in it; the volume stays.
Kill ==
  /\ ~Over
  /\ Goto("killed")
  /\ wrapper' = "gone" /\ game' = "gone"
  /\ stop' = TRUE /\ quiet' = FALSE /\ active' = 0
  /\ job' = [w \in Workers |-> "gone"]
  /\ Fault
  /\ UNCHANGED <<exit, pid, threads, taken>>

\* It is started again.
NewLife ==
  /\ Over /\ lives < MaxLives
  /\ lives' = lives + 1
  /\ active' = 0 /\ quiet' = FALSE /\ stop' = FALSE
  /\ job' = [w \in Workers |-> "idle"]
  /\ Goto("prepare")
  /\ request' = "none" /\ asked' = FALSE /\ exiting' = "none" /\ missed' = FALSE
  /\ wrapper' = "none" /\ game' = "none"
  /\ pidWritten' = FALSE
  /\ spawned' = {} /\ pauser' = "none" /\ taken' = "none"
  /\ UNCHANGED <<pidFile, faults>>

LifecycleNext ==
  \/ Signal
  \/ Main
  \/ StartFails
  \/ GameStarts \/ GameEnds \/ WrapperEnds \/ WrapperDies
  \/ \E w \in Workers : Background(w)
  \/ Window
  \/ Kill
  \/ NewLife

LifecycleSpec == LifecycleInit /\ [][LifecycleNext]_lifeVars

\* The main thread waits with timeouts only, and SIGKILL needs no consent; a
\* thread runs and its unit of work ends.  The game owes nothing.
LifecycleFairness ==
  /\ WF_lifeVars(Main)
  /\ \A w \in Workers : WF_lifeVars(Background(w) /\ job[w] = "working" /\ job'[w] = "idle")
  /\ \A w \in Workers : WF_lifeVars(Background(w) /\ job'[w] = "gone")

FairLifecycleSpec == LifecycleSpec /\ LifecycleFairness

-----------------------------------------------------------------------------
Requested == {"none", "shutdown", "crash", "failure"}

MainPoints ==
  {"prepare", "launch", "pid", "written", "threads", "wait", "look", "again", "record",
   "raised", "failing", "finish", "unpause", "stop", "interrupted", "backup",
   "cleanup", "clear", "ended", "killed"}

LifecycleTypeOK ==
  /\ TypeOK
  /\ main \in MainPoints
  /\ request \in Requested /\ asked \in BOOLEAN /\ exiting \in Requested
  /\ missed \in BOOLEAN
  /\ wrapper \in {"none", "up", "gone"} /\ game \in {"none", "up", "gone"}
  /\ pidFile \in BOOLEAN /\ pidWritten \in BOOLEAN
  /\ spawned \subseteq Workers /\ pauser \in {"none", "up", "stopped"}
  /\ taken \in {"none", "cold", "emergency"}
  /\ faults \in 0..MaxFaults /\ lives \in 1..MaxLives

\* Every signal is heard whenever it comes, and the exit that follows is the
\* one of the first event, with two exceptions: a signal that comes between the
\* last look and the assignment, in _wait_for_exit() and in run()'s except
\* clause, is replaced by the crash or failure they record.  Once the exit has
\* begun nothing replaces a request.
FirstRequestStands ==
  [][/\ asked' => request' # "none"
     /\ request' # request =>
          \/ request = "none" \/ Over
          \/ main \in {"record", "failing"} /\ request' \in {"crash", "failure"}
     /\ exiting # "none" => request' = request \/ Over]_lifeVars

\* The restore guard reads the PID file: between write_pid() and the end of the
\* cleanup it is there whenever the game may write its saves, and a run that
\* ended in order leaves one behind only if it was there before, or its removal
\* failed.
PidFileTells ==
  /\ game = "up" /\ pidWritten /\ ~Over => pidFile
  /\ At("ended") /\ pidFile => ~pidWritten \/ faults > 0

\* The one exit backup: of the trigger the exit works on, after the process the
\* lifecycle waits for has ended.  The game runs beside it only when something
\* else ended that process or the stop of it failed, or when there was no game
\* yet for the stop to signal: wine may start it after the wrapper has ended.
ExitBackup ==
  [][taken' # taken /\ ~Over =>
       /\ taken = "none" /\ taken' = BackupOf(request)
       /\ wrapper = "up" => faults > 0
       /\ game = "up" => faults > 0 \/ missed]_lifeVars

\* Whatever comes first, the exit comes to its end: no game that ignores SIGINT,
\* no window left and no thread that is still working holds it up.
ExitEnds == request # "none" \/ wrapper = "gone" ~> Over

\* After a signal, and in every exit, each background thread that was started
\* returns, the poller a window blocks and those started meanwhile included.
BackgroundEnds == asked \/ exiting # "none" ~> \A w \in spawned : job[w] = "gone"
=============================================================================
