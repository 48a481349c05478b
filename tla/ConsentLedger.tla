---------------------------- MODULE ConsentLedger ----------------------------
(***************************************************************************)
(* What the governance layer promises the data providers of a contract,    *)
(* without documents, requests or interleavings: consent is given to a     *)
(* contract hash, and a run is created only on a hash every provider has   *)
(* consented to.  Neither record is ever taken back: a consent that was    *)
(* given stays a fact, whatever the contract's later state.                *)
(***************************************************************************)
CONSTANT Providers

VARIABLES given,    \* given[p]: the hashes p consented to
          runs      \* the hashes a run was created on

vars == <<given, runs>>

Init == given = [p \in Providers |-> {}] /\ runs = {}

Consent(p) ==
    /\ \E h \in given'[p] : given' = [given EXCEPT ![p] = @ \cup {h}]
    /\ UNCHANGED runs

Run ==
    /\ \E h \in runs' :
        /\ \A p \in Providers : h \in given[p]
        /\ runs' = runs \cup {h}
    /\ UNCHANGED given

Next == Run \/ \E p \in Providers : Consent(p)

Spec == Init /\ [][Next]_vars
=============================================================================
