---------------------------- MODULE MCJobApproval ----------------------------
(* Instances of JobApproval for TLC. *)
EXTENDS JobApproval, TLC

CONSTANTS d1, d2, x1, x2, A, B, r1, r2

\* Two data providers; the infrastructure belongs to the first.
MCTwoProviders == (d1 :> A) @@ (d2 :> B) @@ (x1 :> A)
\* One dataset and one infrastructure, each with its own provider.
MCDataAndInfra == (d1 :> A) @@ (x1 :> B)
\* Two infra providers; the first also provides the dataset.
MCTwoInfras == (d1 :> A) @@ (x1 :> A) @@ (x2 :> B)

\* Only the provider whose signature the job needs replaces a key.
MCOneKeyReplaced == key[B] <= 1

\* The request slots are alike.
MCSymmetry == Permutations(Requests)
=============================================================================
