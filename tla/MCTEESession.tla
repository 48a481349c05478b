----------------------------- MODULE MCTEESession -----------------------------
(* Instances of TEESession for TLC. *)
EXTENDS TEESession

CONSTANTS s1, c1, c2, t1, t2
===============================================================================
