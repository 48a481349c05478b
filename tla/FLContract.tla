------------------------------ MODULE FLContract ------------------------------
(***************************************************************************)
(* The contracts of one FL session and the gateway certificates issued for *)
(* them.                                                                   *)
(*                                                                         *)
(* Every POST /contracts builds a new contract row: the draft, the final   *)
(* roster, and every "Start Again".  Accepting an invitation marks the     *)
(* provider on the session's latest row, and a new row carries the marks   *)
(* of the latest one forward; signing addresses a final row by its         *)
(* contract_id.  Marks and signatures are written with the whole document, *)
(* read in an earlier step, and every write makes its row the session's    *)
(* latest (updated_at).  POST /gateway-certs verifies a row and issues a   *)
(* TLS certificate for it.                                                 *)
(*                                                                         *)
(* Covered: handlers that interleave, fail half way or are cancelled.  Not *)
(* covered: hashing and provider keys (ContractSigning), who is invited    *)
(* (FLNegotiation), POST /contract with technique FL.                      *)
(***************************************************************************)
EXTENDS Naturals, Sequences, FiniteSets, SequencesExt

CONSTANTS
    Providers,
    Identified,     \* those the owner names by a Keycloak id in POST /contracts
    None,           \* no provider
    Calls,          \* handlers that may be in flight at once
    MaxRows,        \* contracts built for the session
    MaxCerts,       \* certificates issued
    MaxFaults       \* failing database calls and cancelled handlers

ASSUME FLContractAssumption ==
    /\ Identified \subseteq Providers /\ None \notin Providers
    /\ MaxRows \in Nat /\ MaxCerts \in Nat /\ MaxFaults \in Nat

VARIABLES
    rows,       \* contracts of the session, in the order they were stored
    latest,     \* the one with the latest updated_at, 0 if there is none
    projects,   \* the contracts of the rows in projects, by created_at
    asked,      \* <<row, provider>> with a CONTRACT_SIGN notification
    issued,     \* gateway certificates by serial: the row each names
    recorded,   \* serials in gateway_certs
    handed,     \* serials returned to the orchestrator
    call,       \* handlers in flight
    signers,    \* history: <<row, provider>> whose signature was stored
    overlapped, \* history: two handlers have been in flight at once
    faults

vars == <<rows, latest, projects, asked, issued, recorded, handed, call, signers,
          overlapped, faults>>
certVars == <<issued, recorded, handed>>

\* A data provider's signature: none, the accept marker (signed_at without a
\* value), or a recorded signature.
Marks == {"none", "marker", "signed"}
Unsigned == [p \in Providers |-> "none"]

Row(final, roster, sig) == [final |-> final, roster |-> roster, sig |-> sig]

Handler(pc, row, roster, final, sig, to) ==
    [pc |-> pc, row |-> row, roster |-> roster, final |-> final, sig |-> sig, to |-> to]
Idle == Handler("idle", 0, {}, FALSE, Unsigned, None)

\* Mutant of Carried: only recorded signatures are carried forward.
CarriedSigned == {p \in Providers : rows[latest].sig[p] = "signed"}

\* existingDataProviderSignatures: signed_at is what is carried forward.
Carried == {p \in Providers : rows[latest].sig[p] # "none"}

\* Mutant of AllSigned: a marker counts as a signature.
AllMarked(r) == rows[r].roster # {} /\ \A p \in rows[r].roster : rows[r].sig[p] # "none"

\* verifyContractSignatures
AllSigned(r) ==
    rows[r].roster # {} /\ \A p \in rows[r].roster : rows[r].sig[p] = "signed"

Signable(r) == rows[r].final

\* updated_at = CURRENT_TIMESTAMP
Touch(r) == latest' = r
Goto(c, pc) == call' = [call EXCEPT ![c].pc = pc]
End(c) == call' = [call EXCEPT ![c] = Idle]
Fault == faults < MaxFaults /\ faults' = faults + 1
NoFault == UNCHANGED faults

\* A handler starts beside the ones in flight.
Start(c) ==
    /\ call[c] = Idle
    /\ overlapped' = (overlapped \/ \E d \in Calls : call[d] # Idle)

Init ==
    /\ rows = <<>> /\ latest = 0 /\ projects = <<>>
    /\ asked = {}
    /\ issued = <<>> /\ recorded = {} /\ handed = {}
    /\ call = [c \in Calls |-> Idle]
    /\ signers = {}
    /\ overlapped = FALSE /\ faults = 0

(***************************************************************************)
(* POST /contracts                                                         *)
(***************************************************************************)
\* BuildContract reads the marks to carry forward; a failed read carries
\* none.
BuildContract(c, roster, final) ==
    /\ Start(c)
    /\ Len(rows) < MaxRows
    /\ \E carry \in {{}, IF latest = 0 THEN {} ELSE Carried} :
          /\ IF latest # 0 /\ carry # Carried THEN Fault ELSE NoFault
          /\ call' = [call EXCEPT ![c] = Handler("store", 0, roster, final,
                 [p \in Providers |-> IF p \in carry \cap roster THEN "marker" ELSE "none"], None)]
    /\ UNCHANGED <<rows, latest, projects, asked, certVars, signers>>

\* The final roster is governance-signed before it is stored.
StoreContract(c) ==
    /\ call[c].pc = "store"
    /\ rows' = Append(rows, Row(call[c].final, call[c].roster, call[c].sig))
    /\ Touch(Len(rows) + 1)
    /\ call' = [call EXCEPT ![c] =
           Handler("project", Len(rows) + 1, @.roster, @.final, Unsigned, None)]
    /\ UNCHANGED <<projects, asked, certVars, signers, overlapped, faults>>

\* Only logged when it fails.
UpsertProject(c) ==
    /\ call[c].pc = "project"
    /\ \/ projects' = Append(projects, call[c].row) /\ NoFault
       \/ UNCHANGED projects /\ Fault
    /\ IF call[c].final THEN Goto(c, "ask") ELSE End(c)
    /\ UNCHANGED <<rows, latest, asked, certVars, signers, overlapped>>

\* notifyContractSigners asks every data provider on the roster whose party has
\* an id.
ToAsk(c) == call[c].roster \cap Identified

NotifyContractSigners(c) ==
    /\ call[c].pc = "ask"
    /\ \E ps \in SUBSET ToAsk(c) :
          /\ IF ps = ToAsk(c) THEN NoFault ELSE Fault
          /\ asked' = asked \cup ({call[c].row} \X ps)
    /\ End(c)
    /\ UNCHANGED <<rows, latest, projects, certVars, signers, overlapped>>

(***************************************************************************)
(* Marks and signatures                                                    *)
(***************************************************************************)
\* SignDataProviderParty, called when p accepts a session notification, reads
\* the session's latest row; nothing is written when p is not on it or is
\* marked already.
Accept(c, p) ==
    /\ Start(c)
    /\ latest # 0 /\ p \in rows[latest].roster /\ rows[latest].sig[p] = "none"
    /\ call' = [call EXCEPT ![c] =
           Handler("mark", latest, {}, FALSE, [rows[latest].sig EXCEPT ![p] = "marker"], None)]
    /\ UNCHANGED <<rows, latest, projects, asked, certVars, signers, faults>>

\* Mutant of StoreMatches: the update is by session_id.
SessionMatches(r) == DOMAIN rows

\* The rows an update writes: an accept's WHERE id = $2, a signature's WHERE
\* contract_id = $1.  Either names one row.
StoreMatches(r) == {r}

\* The document is the one that was read: its roster and version, and every
\* other provider's signature as it was then.
StoreDocument(c) ==
    /\ rows' = [r \in DOMAIN rows |->
                   IF r \in StoreMatches(call[c].row)
                   THEN Row(rows[call[c].row].final, rows[call[c].row].roster, call[c].sig)
                   ELSE rows[r]]
    /\ Touch(call[c].row)
    /\ End(c)

StoreMark(c) ==
    /\ call[c].pc = "mark"
    /\ StoreDocument(c)
    /\ UNCHANGED <<projects, asked, certVars, signers, overlapped, faults>>

\* signContract: only a final roster is signed, and only by a party to it.
SignContract(c, r, p) ==
    /\ Start(c)
    /\ Signable(r) /\ p \in rows[r].roster
    /\ call' = [call EXCEPT ![c] =
           Handler("sign", r, {}, FALSE, [rows[r].sig EXCEPT ![p] = "signed"], p)]
    /\ UNCHANGED <<rows, latest, projects, asked, certVars, signers, faults>>

StoreSignature(c) ==
    /\ call[c].pc = "sign"
    /\ StoreDocument(c)
    /\ signers' = signers \cup {<<call[c].row, call[c].to>>}
    /\ UNCHANGED <<projects, asked, certVars, overlapped, faults>>

(***************************************************************************)
(* POST /gateway-certs                                                     *)
(***************************************************************************)
\* The session's latest row, or the row of a project_id.  A row past its
\* valid_until is refused, which is a request that changes nothing.
VerifyAndIssue(c, r) ==
    /\ Start(c)
    /\ Len(issued) < MaxCerts
    /\ Signable(r) /\ AllSigned(r)
    /\ issued' = Append(issued, r)
    /\ call' = [call EXCEPT ![c] = Handler("record", Len(issued) + 1, {}, FALSE, Unsigned, None)]
    /\ UNCHANGED <<rows, latest, projects, asked, recorded, handed, signers, faults>>

\* InsertGatewayCert comes first; a failure ends the request.
InsertGatewayCert(c) ==
    /\ call[c].pc = "record"
    /\ recorded' = recorded \cup {call[c].row}
    /\ Goto(c, "return")
    /\ UNCHANGED <<rows, latest, projects, asked, issued, handed, signers, overlapped, faults>>

ReturnCert(c) ==
    /\ call[c].pc = "return"
    /\ handed' = handed \cup {call[c].row}
    /\ End(c)
    /\ UNCHANGED <<rows, latest, projects, asked, issued, recorded, signers, overlapped, faults>>

\* The client hangs up, a database call fails with a 500, or gov_layer
\* crashes.
Abort(c) ==
    /\ call[c] # Idle /\ Fault
    /\ End(c)
    /\ UNCHANGED <<rows, latest, projects, asked, certVars, signers, overlapped>>

PostStep(c) == StoreContract(c) \/ UpsertProject(c) \/ NotifyContractSigners(c)
SignStep(c) == StoreMark(c) \/ StoreSignature(c)
CertStep(c) == InsertGatewayCert(c) \/ ReturnCert(c)

Next == \E c \in Calls :
    \/ \E roster \in SUBSET Providers, final \in BOOLEAN : BuildContract(c, roster, final)
    \/ \E p \in Providers : Accept(c, p)
    \/ \E r \in DOMAIN rows, p \in Providers : SignContract(c, r, p)
    \/ \E r \in DOMAIN rows : VerifyAndIssue(c, r)
    \/ PostStep(c) \/ SignStep(c) \/ CertStep(c) \/ Abort(c)

Spec == Init /\ [][Next]_vars

(***************************************************************************)
(* Properties                                                              *)
(***************************************************************************)
RowType == [final : BOOLEAN, roster : SUBSET Providers, sig : [Providers -> Marks]]
CallType ==
    [pc : {"idle", "store", "project", "ask", "mark", "sign", "record", "return"},
     row : Nat, roster : SUBSET Providers, final : BOOLEAN, sig : [Providers -> Marks],
     to : Providers \cup {None}]

\* The type invariant.
TypeOK ==
    /\ rows \in Seq(RowType)
    /\ latest \in 0..Len(rows)
    /\ projects \in Seq(DOMAIN rows)
    /\ asked \subseteq (DOMAIN rows) \X Providers
    /\ issued \in Seq(DOMAIN rows)
    /\ recorded \subseteq DOMAIN issued /\ handed \subseteq DOMAIN issued
    /\ call \in [Calls -> CallType]
    /\ \A c \in Calls :
          /\ call[c].pc \in {"project", "ask", "mark", "sign"} => call[c].row \in DOMAIN rows
          /\ call[c].pc \in {"record", "return"} => call[c].row \in DOMAIN issued
          /\ call[c].pc = "sign" => call[c].to \in Providers
    /\ signers \subseteq (DOMAIN rows) \X Providers
    /\ overlapped \in BOOLEAN /\ faults \in Nat

Quiet == \A c \in Calls : call[c] = Idle
Sequential == ~overlapped
Clean == Sequential /\ faults = 0

\* A gateway certificate names a final roster that every provider on it did
\* sign: never a draft, never a provider whose accept only left a marker or
\* whose signature was carried forward, whatever was written meanwhile; and
\* "a certificate that isn't on record is never handed out", also when the
\* insert fails or gov_layer crashes (postGatewayCert).
CertNamesSignedRoster ==
    /\ \A s \in DOMAIN issued :
          /\ rows[issued[s]].final /\ rows[issued[s]].roster # {}
          /\ \A p \in rows[issued[s]].roster : <<issued[s], p>> \in signers
    /\ handed \subseteq recorded

\* A write adds signatures and changes nothing else: what a stored contract
\* says stays fixed although whole documents read before are written ("only
\* the latest should be signed"), and, while handlers run one at a time, no
\* signature is lost or turned back into a marker.
WritesOnlySign ==
    [][\A r \in DOMAIN rows :
          /\ rows'[r].final = rows[r].final /\ rows'[r].roster = rows[r].roster
          /\ Sequential' => \A p \in Providers :
                /\ rows[r].sig[p] = "signed" => rows'[r].sig[p] = "signed"
                /\ rows[r].sig[p] = "marker" => rows'[r].sig[p] # "none"]_vars

\* "Signatures carry forward from the draft to the final-roster contract":
\* for a session's first two contracts, while handlers run one at a time and
\* none fails; and everybody on a final roster who has an id is asked to sign
\* it, those carried forward included.
AcceptSurvivesFinalize ==
    /\ (Clean /\ Len(rows) = 2 /\ ~rows[1].final) =>
          \A p \in rows[1].roster \cap rows[2].roster :
              rows[1].sig[p] # "none" => rows[2].sig[p] # "none"
    /\ (Quiet /\ faults = 0) => \A r \in DOMAIN rows : rows[r].final =>
          \A p \in rows[r].roster \cap Identified : <<r, p>> \in asked
===============================================================================
