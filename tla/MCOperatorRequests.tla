-------------------------- MODULE MCOperatorRequests --------------------------
(* Commands of a few operators. *)
EXTENDS OperatorRequests, TLC

Symmetry == Permutations(Clients)
=============================================================================
