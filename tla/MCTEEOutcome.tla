----------------------------- MODULE MCTEEOutcome -----------------------------
(* Instances of TEEOutcome for TLC. *)
EXTENDS TEEOutcome

CONSTANTS j1, j2, u1, u2
===============================================================================
