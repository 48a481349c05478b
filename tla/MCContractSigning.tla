-------------------------- MODULE MCContractSigning --------------------------
(* Instances of ContractSigning for TLC. *)
EXTENDS ContractSigning, TLC

CONSTANTS p1, p2, r1, r2

\* Edits: of the end of the validity window, of the whole window, and one
\* that blanks a field the coordinator requires.
MCNoEdits == {}
MCEditUntil == {[text |-> "", from |-> 0, until |-> 2]}
MCEdits == {[text |-> "blank", from |-> 0, until |-> 0],
            [text |-> "", from |-> 2, until |-> 3]}

\* Every provider, and every request slot, is treated alike.
MCSymmetry == Permutations({p1, p2}) \cup Permutations({r1, r2})
=============================================================================
