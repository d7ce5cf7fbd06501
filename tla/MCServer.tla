------------------------------ MODULE MCServer ------------------------------
(* Instances of the server for TLC. *)
EXTENDS Server, TLC

ThreadSymmetry == Permutations(Thread)
=============================================================================
