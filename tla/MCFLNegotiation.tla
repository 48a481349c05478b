--------------------------- MODULE MCFLNegotiation ---------------------------
(* Instances of FLNegotiation for TLC. *)
EXTENDS FLNegotiation, TLC

CONSTANTS a, b, c1, c2

\* Handlers overlap in sessions with one provider; sessions with several
\* providers are explored while handlers run one at a time.
Involved == {notes[i].to : i \in DOMAIN notes} \cup UNION {call[c].todo : c \in Calls}
OverlapBound == overlapped => Cardinality(Involved) <= 1

Symmetry == Permutations(Providers) \cup Permutations(Calls)
===============================================================================
