------------------------------ MODULE PauseGate ------------------------------
(***************************************************************************)
(* The quiet-window gate between Auto Pause and the background threads     *)
(* (enshctl/lifecycle/pause_gate.py) and the threads that go through it:   *)
(* the backup scheduler and the presence reporter, which skip the round    *)
(* the gate refuses, and the resource poller, which blocks until the       *)
(* window ends.  Every method of the gate runs under one condition lock,   *)
(* so each is one action.                                                  *)
(***************************************************************************)
EXTENDS Integers, FiniteSets

CONSTANTS Workers,    (* the background threads                            *)
          Blocking    (* those that wait for the window to end: the poller *)

ASSUME WorkersAssumption == IsFiniteSet(Workers) /\ Blocking \subseteq Workers

VARIABLES active,     (* PauseGate._active, the admitted units of work     *)
          quiet,      (* PauseGate._quiet                                  *)
          job,        (* what each thread is doing                         *)
          stop        (* the lifecycle's stop_event                        *)

gateVars == <<active, quiet, job>>
vars == <<active, quiet, job, stop>>

Working == {w \in Workers : job[w] = "working"}

Init ==
  /\ active = 0
  /\ quiet = FALSE
  /\ job = [w \in Workers |-> "idle"]
  /\ stop = FALSE

-----------------------------------------------------------------------------
(* The gate's methods. *)

\* acquire() admits a unit of work.
Acquire(w) ==
  /\ job[w] = "idle"
  /\ ~quiet /\ ~stop
  /\ active' = active + 1
  /\ job' = [job EXCEPT ![w] = "working"]
  /\ UNCHANGED <<quiet, stop>>

\* acquire() returns False in a quiet window: the poller goes on to
\* wait_until_running(), the others skip the round and change nothing.
Refuse(w) ==
  /\ w \in Blocking
  /\ job[w] = "idle"
  /\ quiet /\ ~stop
  /\ job' = [job EXCEPT ![w] = "waiting"]
  /\ UNCHANGED <<active, quiet, stop>>

\* wait_until_running() returns True.
WakeUp(w) ==
  /\ job[w] = "waiting"
  /\ ~quiet /\ ~stop
  /\ job' = [job EXCEPT ![w] = "idle"]
  /\ UNCHANGED <<active, quiet, stop>>

\* A thread that is not working sees stop_event and returns.
Quit(w) ==
  /\ job[w] \in {"idle", "waiting"}
  /\ stop
  /\ job' = [job EXCEPT ![w] = "gone"]
  /\ UNCHANGED <<active, quiet, stop>>

\* release(), in the finally clause of every admitted unit; it raises at zero.
Release(w) ==
  /\ job[w] = "working"
  /\ active # 0
  /\ active' = active - 1
  /\ job' = [job EXCEPT ![w] = "idle"]
  /\ UNCHANGED <<quiet, stop>>

\* Mutant: the window opens whatever is in flight.
QuietAnyway == quiet' = TRUE /\ UNCHANGED <<active, job>>

\* try_quiet() returns True.
TryQuiet ==
  /\ active = 0
  /\ quiet' = TRUE
  /\ UNCHANGED <<active, job>>

\* resume().
Resume ==
  /\ quiet' = FALSE
  /\ UNCHANGED <<active, job>>

-----------------------------------------------------------------------------
Worker(w) ==
  Acquire(w) \/ Refuse(w) \/ WakeUp(w) \/ Quit(w) \/ Release(w)

\* The Auto Pause controller, seen from the gate, and the signal handler.
OpenWindow == ~quiet /\ TryQuiet /\ UNCHANGED stop
CloseWindow == quiet /\ Resume /\ UNCHANGED stop
Stop == ~stop /\ stop' = TRUE /\ UNCHANGED gateVars

Next ==
  \/ \E w \in Workers : Worker(w)
  \/ OpenWindow
  \/ CloseWindow
  \/ Stop

Spec == Init /\ [][Next]_vars

-----------------------------------------------------------------------------
TypeOK ==
  /\ active \in Nat
  /\ quiet \in BOOLEAN
  /\ job \in [Workers -> {"idle", "working", "waiting", "gone"}]
  /\ stop \in BOOLEAN

\* The counter release() tests is the number of threads between acquire() and
\* release(), so release() never raises "release without acquire".
CountsHolders == active = Cardinality(Working)

\* A quiet window and an admitted unit of work never overlap (try_quiet looks
\* at the counter, acquire at the flag).
QuietExcludesWork == quiet => Working = {}
=============================================================================
