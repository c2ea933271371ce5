------------------------------ MODULE MCAutoPause ------------------------------
(* AutoPause for TLC's safety run.  What the controller will not read again  *)
(* before it writes it anew is left out of the states that are compared.     *)
EXTENDS AutoPause

Unread(v, points, d) == IF ctl \in points THEN v ELSE d

\* From the base signature to the last look at the save; before it, only
\* whether there is one matters.
SavePoints == {"save", "settle", "arm", "probe2", "restat"}

GenerationPoints == {"probe1", "base", "lock", "final"} \cup SavePoints

ForcedPoints == GenerationPoints \cup {"check", "enter"}

SitePoints == ControlPoints \ {"top", "request", "tick", "wait", "failed", "close", "dead"}

LivePoints == ControlPoints \ {"close", "dead"}

Compared ==
  <<ctl, Unread(site, SitePoints, "tick"), Unread(forced, ForcedPoints, FALSE),
    control, pausedMarker,
    Unread(<<disabledMarker, request>>, LivePoints, <<>>),
    Unread(<<ready, stream, degraded, present, session>>, LivePoints, <<>>),
    Unread(activity, GenerationPoints, FALSE),
    tree, Unread(save, SavePoints, IF ctl \in LivePoints /\ save = "absent" THEN save ELSE "same"),
    wake, gateVars, exit>>
=============================================================================
