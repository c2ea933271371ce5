--------------------------- MODULE OperatorRequests ---------------------------
(***************************************************************************)
(* How an operator's command reaches the Auto Pause controller and what it *)
(* reports back: enshctl/commands/autopause.py, the request file and       *)
(* status.json of lifecycle/control.py, and _handle_request() of           *)
(* lifecycle/autopause.py.                                                 *)
(*                                                                         *)
(* A command's token is the command itself.  Both files are replaced as a  *)
(* whole (module AtomicWrite).  Time is counted in ticks of an open        *)
(* interval: a reading that has reached its limit is past it.              *)
(***************************************************************************)
EXTENDS Naturals

CONSTANTS
  Clients, None,          \* the commands that operators start, and none
  Actions,                \* the actions they ask for
  REQUEST_TTL, REQUEST_TIMEOUT

\* Both are 5 seconds: control.py:21 and commands/autopause.py:22.
ASSUME RequestsAssumption ==
  /\ None \notin Clients
  /\ Actions \subseteq {"pause", "resume", "reset", "disable"}
  /\ REQUEST_TTL \in Nat \ {0} /\ REQUEST_TIMEOUT \in Nat
  /\ REQUEST_TTL <= REQUEST_TIMEOUT

VARIABLES
  at, report, wait,       \* a command: where it is, what it said, ticks it polled
  file, age,              \* the command in the request file, ticks since its write
  status,                 \* last_request and last_result of status.json
  ctl, read,              \* the controller, and the request it read
  due,                    \* the request that had expired when it looked at the clock
  gaveUp,                 \* history: whose command had given up by then
  last,                   \* _last_request and _last_result
  outcome, runs           \* history: what a request came to, how often it was acted on

client == <<at, report, wait>>
clock == <<due, gaveUp>>
controller == <<ctl, read, clock, last>>
history == <<outcome, runs>>
vars == <<client, file, age, status, controller, history>>

Answers ==
  [token : Clients \cup {None}, result : {"none", "pending", "applied", "refused"}]
Reports ==
  {"none", "stale", "players", "disabled", "timed-out", "pending", "applied", "refused"}
Nobody == [token |-> None, result |-> "none"]

Init ==
  /\ at = [c \in Clients |-> "start"] /\ report = [c \in Clients |-> "none"]
  /\ wait = [c \in Clients |-> 0]
  /\ file = None /\ age = 0
  /\ status = Nobody /\ last = Nobody
  /\ ctl = "loop" /\ read = None /\ due = None /\ gaveUp = {}
  /\ outcome = [c \in Clients |-> "none"] /\ runs = [c \in Clients |-> 0]

Says(c, r) == at' = [at EXCEPT ![c] = "done"] /\ report' = [report EXCEPT ![c] = r]

-----------------------------------------------------------------------------
(* A command. *)

\* live_status() finds no live controller, or players for a reset without --yes.
Decline(c) ==
  /\ at[c] = "start"
  /\ \E r \in {"stale", "players"} : Says(c, r)
  /\ UNCHANGED <<wait, file, age, status, controller, history>>

\* write_request(), which replaces the request that is there.
WriteRequest(c) ==
  /\ at[c] = "start"
  /\ file' = c /\ age' = 0
  /\ \E a \in Actions :
       \/ a = "disable" /\ Says(c, "disabled")
       \/ a # "disable" /\ at' = [at EXCEPT ![c] = "poll"] /\ UNCHANGED report
  /\ UNCHANGED <<wait, status, controller, history>>

\* _request() finds its token in the status; a status that is stale, or has
\* another token, is polled again.
Poll(c) ==
  /\ at[c] = "poll" /\ wait[c] < REQUEST_TIMEOUT
  /\ status.token = c
  /\ Says(c, status.result)
  /\ UNCHANGED <<wait, file, age, status, controller, history>>

\* Mutant: the command gives up a tick early.
GiveUpEarly(c) ==
  /\ at[c] = "poll" /\ wait[c] + 1 >= REQUEST_TIMEOUT
  /\ Says(c, "timed-out")
  /\ UNCHANGED <<wait, file, age, status, controller, history>>

GiveUp(c) ==
  /\ at[c] = "poll" /\ wait[c] >= REQUEST_TIMEOUT
  /\ Says(c, "timed-out")
  /\ UNCHANGED <<wait, file, age, status, controller, history>>

-----------------------------------------------------------------------------
(* The controller. *)

\* _handle_request() looks at the clock: a request in the file may have expired
\* by now, one that is written from here on has not.
ReadClock ==
  /\ ctl = "loop" /\ ctl' = "read"
  /\ due' = IF file # None /\ age >= REQUEST_TTL THEN file ELSE None
  /\ gaveUp' = {c \in Clients : report[c] = "timed-out"}
  /\ UNCHANGED <<client, file, age, status, read, last, history>>

\* consume_request() reads the file, ...
ReadRequest ==
  /\ ctl = "read"
  /\ read' = file
  /\ ctl' = IF file \in {None, due} THEN "drop" ELSE "take"
  /\ due' = None /\ gaveUp' = {}
  /\ UNCHANGED <<client, file, age, status, last, history>>

\* Mutant: a file that held a request is removed once it has been acted on.
RemoveLater ==
  /\ ctl \in {"drop", "take"}
  /\ file' = IF ctl = "drop" THEN None ELSE file
  /\ ctl' = IF ctl = "drop" THEN "loop" ELSE "accept"
  /\ UNCHANGED <<client, age, status, clock, read, last, history>>

\* ... and whatever is there by now is removed, by a finally clause that also
\* runs when there was no file to read.
RemoveRequest ==
  /\ ctl \in {"drop", "take"}
  /\ file' = None
  /\ ctl' = IF ctl = "drop" THEN "loop" ELSE "accept"
  /\ UNCHANGED <<client, age, status, clock, read, last, history>>

\* Mutant: the token is published with the result of the request before it.
AcceptStale ==
  /\ ctl = "accept" /\ ctl' = "act"
  /\ last' = [last EXCEPT !.token = read]
  /\ status' = last'
  /\ UNCHANGED <<client, file, age, clock, read, history>>

\* _handle_request(): the token is published as pending ...
Accept ==
  /\ ctl = "accept" /\ ctl' = "act"
  /\ last' = [token |-> read, result |-> "pending"]
  /\ status' = last'
  /\ UNCHANGED <<client, file, age, clock, read, history>>

\* ... the request is applied or refused, which may take a whole save wait ...
Act ==
  /\ ctl = "act" /\ ctl' = "answer"
  /\ \E r \in {"applied", "refused"} :
       /\ last' = [last EXCEPT !.result = r]
       /\ outcome' = [outcome EXCEPT ![read] = r]
  /\ runs' = [runs EXCEPT ![read] = IF @ < 2 THEN @ + 1 ELSE 2]
  /\ UNCHANGED <<client, file, age, status, clock, read>>

\* ... and its result is published.
Answer ==
  /\ ctl = "answer" /\ ctl' = "loop"
  /\ status' = last
  /\ UNCHANGED <<client, file, age, clock, read, last, history>>

\* The loop ends, or fails and publishes what it last knew.
ControllerEnds ==
  /\ ctl # "ended" /\ ctl' = "ended"
  /\ status' \in {status, last}
  /\ UNCHANGED <<client, file, age, clock, read, last, history>>

Tick ==
  /\ wait' = [c \in Clients |-> IF at[c] = "poll" /\ wait[c] < REQUEST_TIMEOUT
                                THEN wait[c] + 1 ELSE wait[c]]
  /\ age' = IF file # None /\ age < REQUEST_TIMEOUT THEN age + 1 ELSE age
  /\ UNCHANGED <<at, report, file, status, controller, history>>

Controller == ReadClock \/ ReadRequest \/ RemoveRequest \/ Accept \/ Act \/ Answer \/ ControllerEnds

Next ==
  \/ \E c \in Clients : Decline(c) \/ WriteRequest(c) \/ Poll(c) \/ GiveUp(c)
  \/ Controller \/ Tick

Spec == Init /\ [][Next]_vars

-----------------------------------------------------------------------------
ClientTypes ==
  /\ at \in [Clients -> {"start", "poll", "done"}]
  /\ report \in [Clients -> Reports]
  /\ wait \in [Clients -> 0 .. REQUEST_TIMEOUT]
FileTypes ==
  file \in Clients \cup {None} /\ age \in 0 .. REQUEST_TIMEOUT /\ status \in Answers
ControllerTypes ==
  /\ ctl \in {"loop", "read", "drop", "take", "accept", "act", "answer", "ended"}
  /\ {read, due} \subseteq Clients \cup {None} /\ gaveUp \subseteq Clients
  /\ last \in Answers
HistoryTypes ==
  /\ outcome \in [Clients -> {"none", "applied", "refused"}]
  /\ runs \in [Clients -> 0 .. 2]

TypeOK == ClientTypes /\ FileTypes /\ ControllerTypes /\ HistoryTypes

\* What a command reports of its request is what the controller did with it,
\* whichever requests came before and after and whatever they came to.
ReportIsTrue ==
  \A c \in Clients : report[c] \in {"applied", "refused"} => outcome[c] = report[c]

\* A request is acted on at most once, though its file is read and removed in
\* two steps and other commands replace it in between.
AtMostOnce == \A c \in Clients : runs[c] <= 1

\* When the controller looks at the clock, a request whose command has given up
\* by then has outlived its time to live, and is not taken: the command waits for
\* as long as its request lives.  What the controller took before is still acted
\* on after the command said "timed out".
GivenUpIsNotTaken ==
  [][ctl = "read" /\ ctl' = "take" => read' \notin gaveUp]_vars

\* The specification's "the command SHALL report a refusal": who waited for an
\* answer and got one is told of the refusal.  The code reports "pending", with
\* exit code 0, when it polls before the controller has decided.
RefusalIsReported ==
  \A c \in Clients : outcome[c] = "refused" => report[c] # "pending"
=============================================================================
