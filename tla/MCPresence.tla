------------------------------ MODULE MCPresence ------------------------------
(* Three games for TLC: one of three players who share a name queue of two,  *)
(* one with a player more than its roster holds, whose joins are announced,  *)
(* and one whose Session blocks list up to two remote machines.              *)
EXTENDS Presence

CONSTANTS h1, h2, h3

Three == [kinds |-> {"players"}, handles |-> {h1, h2, h3},
          MAX_HANDLES |-> 3, MAX_PENDING_NAMES |-> 2]
Crowded == [kinds |-> {"players", "joins"}, handles |-> {h1, h2},
            MAX_HANDLES |-> 1, MAX_PENDING_NAMES |-> 1]
Blocks == [kinds |-> {"joins", "session"}, handles |-> {h1},
           MAX_HANDLES |-> 1, MAX_PENDING_NAMES |-> 1]

MCHandles == {h1, h2, h3}
MCGames == {Three, Crowded, Blocks}
=============================================================================
