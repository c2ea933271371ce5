------------------------------- MODULE Evidence -------------------------------
(* What the Auto Pause controller may conclude from the game's output: the   *)
(* bits its vetoes read from a PresenceSnapshot, and how they may move.      *)
(* AutoPause is checked against this abstraction; Presence shows that the    *)
(* tracker implements it.                                                    *)
CONSTANTS Faults  (* "stream": the stdout ends; "cap": the roster fills up   *)

VARIABLES
  ready,     \* the world-ready marker was seen
  stream,    \* the stdout reader is alive
  degraded,  \* a handle was rejected by the roster's cap
  present,   \* evidence of a player: a handle, a pending join, a remote machine
  session,   \* a fresh and well-formed Session block shows the host alone
  activity   \* the activity generation moved since it was recorded

evidence == <<ready, stream, degraded, present, session, activity>>

EvidenceInit ==
  /\ ready = FALSE /\ stream = TRUE /\ degraded = FALSE
  /\ present = FALSE /\ session = FALSE /\ activity = FALSE

Wanes(b) == b' \in {b, FALSE}

\* A line of a join, a login, a leave, a remote machine or the ready marker:
\* activity, and anything may follow about the players but a clear session.
ActivityLine ==
  /\ stream
  /\ activity' = TRUE
  /\ ready' \in {ready, TRUE}
  /\ present' \in BOOLEAN
  /\ degraded' \in BOOLEAN /\ (degraded' /\ ~degraded => "cap" \in Faults)
  /\ Wanes(session)
  /\ UNCHANGED stream

\* The end of a Session block that lists the local machine only.
ClearSession ==
  /\ stream
  /\ session' = TRUE
  /\ Wanes(present) /\ Wanes(degraded)
  /\ UNCHANGED <<ready, stream, activity>>

\* Time passes, or a line that is no activity: unnamed handles and a pending
\* join expire, a Session block goes stale or is found malformed.
Expiry ==
  /\ Wanes(present) /\ Wanes(degraded) /\ Wanes(session)
  /\ UNCHANGED <<ready, stream, activity>>

StreamEnds ==
  /\ "stream" \in Faults
  /\ stream /\ stream' = FALSE
  /\ UNCHANGED <<ready, degraded, present, session, activity>>

\* A roster at its cap is evidence of players.
EvidenceMoves ==
  /\ ActivityLine \/ ClearSession \/ Expiry \/ StreamEnds
  /\ degraded' => present'

\* PresenceTracker.reset(): everything but the ready marker, and the activity
\* generation does not move.
ForgetEvidence ==
  /\ present' = FALSE /\ session' = FALSE /\ degraded' = FALSE
  /\ UNCHANGED <<ready, stream, activity>>

\* The controller records the activity generation as its quiet window opens.
RecordGeneration ==
  /\ activity' = FALSE
  /\ UNCHANGED <<ready, stream, degraded, present, session>>

EvidenceSpec ==
  EvidenceInit /\ [][EvidenceMoves \/ ForgetEvidence \/ RecordGeneration]_evidence
=============================================================================
