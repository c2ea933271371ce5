---------------------------- MODULE MCAtomicWrite ----------------------------
(* Writers in processes of their own. *)
EXTENDS AtomicWrite, TLC

\* A name for each process.
Own == [w \in Writers |-> w]

Symmetry == Permutations(Inodes)
=============================================================================
