----------------------------- MODULE QuietWindow -----------------------------
(***************************************************************************)
(* What Auto Pause promises the rest of the program, with nothing of how   *)
(* it is done: the Wine tree is frozen only inside a quiet window, a       *)
(* window opens only when no background work is in flight and admits       *)
(* none, and it closes only when the tree is awake again.  Once admission  *)
(* is sealed by the shutdown the window has no one left to keep out and    *)
(* may close in any order.  AutoPause implements this specification.       *)
(***************************************************************************)
CONSTANT Workers

VARIABLES working,    (* the threads whose unit of work is in flight       *)
          window,     (* the quiet window is held                          *)
          frozen,     (* every process of the tree is verified stopped     *)
          sealed      (* shutdown: no unit of work is admitted any more    *)

vars == <<working, window, frozen, sealed>>

Init ==
  /\ working = {}
  /\ window = FALSE
  /\ frozen = FALSE
  /\ sealed = FALSE

Admit(w) ==
  /\ ~window /\ ~sealed
  /\ working' = working \cup {w}
  /\ UNCHANGED <<window, frozen, sealed>>

Finish(w) ==
  /\ working' = working \ {w}
  /\ UNCHANGED <<window, frozen, sealed>>

Open ==
  /\ working = {}
  /\ window' = TRUE
  /\ UNCHANGED <<working, frozen, sealed>>

\* Thawing and closing may be one step, never in the other order.
Close ==
  /\ frozen' = FALSE \/ (sealed /\ UNCHANGED frozen)
  /\ window' = FALSE
  /\ UNCHANGED <<working, sealed>>

Freeze ==
  /\ window /\ working = {}
  /\ frozen' = TRUE
  /\ UNCHANGED <<working, window, sealed>>

Thaw ==
  /\ frozen' = FALSE
  /\ UNCHANGED <<working, window, sealed>>

Seal ==
  /\ sealed' = TRUE
  /\ UNCHANGED <<working, window, frozen>>

Next ==
  \/ \E w \in Workers : Admit(w) \/ Finish(w)
  \/ Open \/ Close \/ Freeze \/ Thaw \/ Seal

Spec == Init /\ [][Next]_vars
=============================================================================
