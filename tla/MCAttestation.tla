---------------------------- MODULE MCAttestation ----------------------------
(* Instances of Attestation for TLC. *)
EXTENDS Attestation, TLC

CONSTANTS a1, a2, maa, other, k1, k2, m1, m2

Guest(snp, compliant, debuggable, m) ==
    [snp |-> snp, compliant |-> compliant, debuggable |-> debuggable, measurement |-> m]

\* The expected guest, and a debuggable one of another image.
MCGuests == {Guest(TRUE, TRUE, FALSE, m1), Guest(TRUE, TRUE, TRUE, m2)}

Symmetry == Permutations(Attempts) \cup Permutations(KeyIds)
=============================================================================
