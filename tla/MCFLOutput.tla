------------------------------ MODULE MCFLOutput ------------------------------
(* Instances of FLOutput for TLC. *)
EXTENDS FLOutput, TLC

CONSTANTS c1, c2

Symmetry == Permutations(Calls)
===============================================================================
