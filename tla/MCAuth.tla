------------------------------ MODULE MCAuth ------------------------------
(* Instances of Auth for TLC. *)
EXTENDS Auth, TLC

CallSymmetry == Permutations(Calls)
===========================================================================
