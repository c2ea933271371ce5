------------------------------ MODULE MCWineTree ------------------------------
(* The game with Wine services that are interchangeable. *)
EXTENDS WineTree, TLC

Symmetry == Permutations(Services)
=============================================================================
