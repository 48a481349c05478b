----------------------------- MODULE MCFLContract -----------------------------
(* Instances of FLContract for TLC. *)
EXTENDS FLContract

CONSTANTS a, b, c1, c2

\* Handlers overlap on a session's first contract, and on two contracts with
\* the same one provider; several providers on several contracts are explored
\* while handlers run one at a time.
OverlapBound == overlapped =>
    \/ Len(rows) + Cardinality({c \in Calls : call[c].pc = "store"}) <= 1
    \/ Cardinality(UNION ({rows[r].roster : r \in DOMAIN rows} \cup {call[c].roster : c \in Calls})) <= 1

Symmetry == Permutations(Calls)
===============================================================================
