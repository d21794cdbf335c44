-------------------------- MODULE MCCapacityPool --------------------------
(* Instances of CapacityPool for TLC. *)
EXTENDS CapacityPool, TLC

Symmetry == Permutations(Threads)
=============================================================================
