----------------------------- MODULE JobApproval -----------------------------
(***************************************************************************)
(* Job approval: a contract that names datasets and real infrastructure is *)
(* not signed at /contracts/{id}/sign.  Every provider calls               *)
(* /job/approval/{data,infra}-provider with a signature over the contract  *)
(* hash; the consumer's GET /job/{id}/status cross-verifies approvals and  *)
(* signatures and makes the contract final; POST /job/{id}/tee and         *)
(* POST /v1/tee/run then enable and start its run.                         *)
(*                                                                         *)
(* As in ContractSigning, requests are goroutines over one contracts row,  *)
(* each working on the copy it loaded and writing the whole document back. *)
(* A request's steps are its database calls; a refused request changes     *)
(* nothing.  The hash of a job's contract never changes after generation   *)
(* (an edit is amended, a consent expiry is refused), so a signature is    *)
(* either good, over that hash by its item's owner, or bad.                *)
(***************************************************************************)
EXTENDS Naturals, FiniteSets

CONSTANTS
    Datasets, Infras,   \* the items of the contract
    Owner,              \* the provider of each item
    Requests,           \* request slots: how many handlers may overlap
    InfraRequired,      \* REQUIRE_INFRA_APPROVAL
    LookupsFail,        \* TRUE if APD may fail to name an infra's owner
    Aborts,             \* TRUE if a request may die between its database calls
    MaxKey, MaxJobs, MaxRequests   \* bounds of the instance

Items == Datasets \cup Infras
Providers == {Owner[i] : i \in Items}
Jobs == 1..MaxJobs

ASSUME ItemsAssumption ==
    Datasets # {} /\ Infras # {} /\ Datasets \cap Infras = {} /\ DOMAIN Owner = Items
ASSUME JobBoundsAssumption ==
    /\ MaxKey \in Nat /\ MaxJobs \in Nat /\ MaxRequests \in Nat
    /\ InfraRequired \in BOOLEAN /\ LookupsFail \in BOOLEAN /\ Aborts \in BOOLEAN

VARIABLES
    row,            \* the contracts row: job, signatures, finalized_at, tee_enabled_at
    audit,          \* current audit entry per job and item, under its owner's id
    unowned,        \* <<job, infra>> with a rejected audit entry under no provider id
    final,          \* final_contracts: the signatures of each job's record
    key,            \* registered key version of each provider, 0 = none
    req,            \* the requests in flight
    participants,   \* job_participants status per job and item
    grants,         \* consumer grants posted to APD: <<job, item>>
    clock,          \* checked_at of the next audit check
    \* History, for the properties only:
    consented,      \* <<job, item>> its owner validly signed and approved
    approved,       \* <<job, item>> with an accepted audit entry, ever
    served          \* requests accepted so far, for the bound MaxRequests

vars == <<row, audit, unowned, final, key, req, participants, grants, clock, consented, approved, served>>

(***************************************************************************)
(* Signatures and approval state                                           *)
(***************************************************************************)
Signature == [st : {"none", "signed", "withdrawn"}, good : BOOLEAN, key : Nat]
NoSignature == [st |-> "none", good |-> FALSE, key |-> 0]
Unsigned == [i \in Items |-> NoSignature]

\* No final_contracts record.
NoFinal == [i \in Items |-> [NoSignature EXCEPT !.st = "withdrawn"]]

\* The items whose signature and approval a job needs.
RequiredItems == Datasets \cup (IF InfraRequired THEN Infras ELSE {})

\* providerSignatures: each signature is over the job's hash and verifies
\* with the owner's registered key.
ProviderSignatures(sig) ==
    \A i \in RequiredItems :
        sig[i].st = "signed" /\ sig[i].good /\ sig[i].key = key[Owner[i]]

Entry == [stamp : Nat, status : {"none", "accepted", "rejected"}]
NoEntry == [stamp |-> 0, status |-> "none"]

\* overallStatus over the current entries of one kind.
OverallStatus(job, kind) ==
    LET statuses == ({audit[job][i].status : i \in kind} \ {"none"})
                       \cup {"rejected" : i \in {x \in kind : <<job, x>> \in unowned}}
    IN  IF statuses = {} THEN "pending"
        ELSE IF statuses = {"accepted"} THEN "accepted" ELSE "rejected"

JobAccepted(job) ==
    /\ OverallStatus(job, Datasets) = "accepted"
    /\ InfraRequired => OverallStatus(job, Infras) = "accepted"

(***************************************************************************)
(* Requests                                                                *)
(***************************************************************************)
Phases == {"idle", "loaded", "checked", "stamped", "stored", "recorded", "verified",
           "created", "marked", "pending"}
Ops == {"none", "generate", "data", "infra", "status", "enable", "run", "withdraw", "edit"}
Statuses == {"absent", "requested", "approved", "rejected", "withdrawn", "final", "tee_enabled"}

\* sig is the request's copy of the signatures.  Of an approval, own are the
\* caller's items and items the accepted ones among them, lost the infras whose
\* owner lookup failed, seen the checked set and stamp its time; of a status
\* call, items are the accepted ones.
Request == [op : Ops, phase : Phases, who : Providers, job : 0..MaxJobs,
            sig : [Items -> Signature], own : SUBSET Items, items : SUBSET Items,
            lost : SUBSET Infras, seen : SUBSET Items, stamp : Nat]
Nobody == CHOOSE p \in Providers : TRUE
Idle == [op |-> "none", phase |-> "idle", who |-> Nobody, job |-> 0,
         sig |-> Unsigned, own |-> {}, items |-> {}, lost |-> {}, seen |-> {}, stamp |-> 0]
Call(op, phase, who, job, sig) ==
    [Idle EXCEPT !.op = op, !.phase = phase, !.who = who, !.job = job, !.sig = sig]

Begin(r, op, phase, who, sig) ==
    /\ req[r] = Idle
    /\ row.job # 0
    /\ req' = [req EXCEPT ![r] = Call(op, phase, who, row.job, sig)]
    /\ served < MaxRequests
    /\ served' = served + 1
Step(r, q) == req' = [req EXCEPT ![r] = q] /\ UNCHANGED served
End(r) == Step(r, Idle)
At(r, op, phase) == req[r].op = op /\ req[r].phase = phase
IsApproval(r, phase) == req[r].op \in {"data", "infra"} /\ req[r].phase = phase

KindItems(op) == IF op = "data" THEN Datasets ELSE Infras
Own(op, p) == {i \in KindItems(op) : Owner[i] = p}

\* SetJobParticipantStatus and SetJobStatus update existing rows only.  The
\* code makes one best-effort call per item: they are one step here, none of
\* which fails by itself.
MarkParticipants(job, status) ==
    [participants EXCEPT ![job] =
        [i \in Items |-> IF i \in DOMAIN status /\ @[i] # "absent" THEN status[i] ELSE @[i]]]

\* Posting a grant may fail; the failure is reported and nothing undone.
PostConsumerGrants(job, items) ==
    \E posted \in SUBSET items : grants' = grants \cup {<<job, i>> : i \in posted}

Init ==
    /\ row = [job |-> 0, sig |-> Unsigned, finalized |-> FALSE, teeEnabled |-> FALSE]
    /\ audit = [j \in Jobs |-> [i \in Items |-> NoEntry]]
    /\ unowned = {}
    /\ final = [j \in Jobs |-> NoFinal]
    /\ key = [p \in Providers |-> 0]
    /\ req = [r \in Requests |-> Idle]
    /\ participants = [j \in Jobs |-> [i \in Items |-> "absent"]]
    /\ grants = {}
    /\ clock = 1
    /\ consented = {}
    /\ approved = {}
    /\ served = 0

(***************************************************************************)
(* POST /generate-contract for a contract that needs approval              *)
(***************************************************************************)
\* Mutant of StoreGeneratedContract: finalized_at survives the upsert.
StoreKeepingFinal(job) == [row EXCEPT !.job = job, !.sig = Unsigned]

StoreGeneratedContract(job) ==
    [job |-> job, sig |-> Unsigned, finalized |-> FALSE, teeEnabled |-> FALSE]

Generate(r) ==
    /\ req[r] = Idle
    /\ served < MaxRequests
    /\ row.job + 1 \in Jobs
    /\ row' = StoreGeneratedContract(row.job + 1)
    /\ req' = [req EXCEPT ![r] = Call("generate", "stored", Nobody, row.job + 1, Unsigned)]
    /\ served' = served + 1
    /\ UNCHANGED <<audit, unowned, final, key, participants, grants, clock, consented, approved>>

\* recordJobParticipants; rows of jobs no longer in contracts are dropped.
GenerateFinish(r) ==
    /\ At(r, "generate", "stored")
    /\ participants' =
         [j \in Jobs |-> [i \in Items |->
             IF j = req[r].job THEN "requested"
             ELSE IF j = row.job THEN participants[j][i] ELSE "absent"]]
    /\ End(r)
    /\ UNCHANGED <<row, audit, unowned, final, key, grants, clock, consented, approved>>

(***************************************************************************)
(* POST /job/approval/data-provider and /job/approval/infra-provider       *)
(***************************************************************************)
ApproveLoad(r, op, p) ==
    /\ Own(op, p) # {}
    /\ Begin(r, op, "loaded", p, row.sig)
    /\ UNCHANGED <<row, audit, unowned, final, key, participants, grants, clock, consented, approved>>

\* checkedItems: the items of this kind that have an audit entry.
ApproveCheck(r) ==
    LET q == req[r]
    IN  /\ IsApproval(r, "loaded")
        /\ Step(r, [q EXCEPT !.phase = "checked",
                !.seen = {i \in KindItems(q.op) : audit[q.job][i].status # "none"}])
        /\ UNCHANGED <<row, audit, unowned, final, key, participants, grants, clock, consented, approved>>

\* Mutant of SignApprovedItems: the infra case is missing.
SignDatasetsOnly(sig, ok, s) == [i \in Items |-> IF i \in ok \ Infras THEN s ELSE sig[i]]

SignApprovedItems(sig, ok, s) == [i \in Items |-> IF i \in ok THEN s ELSE sig[i]]

\* dataProviderApprovals and infraProviderApprovals stamp the entries and look
\* up role and catalogue.  lost are the infras whose owner APD could not name
\* (none of the caller's own are then left: 403), ok the caller's items that
\* pass, good tells whether the submitted signature is one.  Only a data
\* provider whose items all pass has it verified now.
ApproveStamp(r, lost, ok, good) ==
    LET q   == req[r]
        own == Own(q.op, q.who) \ lost
    IN  /\ IsApproval(r, "checked")
        /\ lost # {} => LookupsFail /\ q.op = "infra"
        /\ own # {} /\ ok \subseteq own
        /\ good => key[q.who] # 0
        /\ (q.op = "data" /\ ok = own) => good
        /\ Step(r, [q EXCEPT !.phase = "stamped", !.stamp = clock,
                !.own = own, !.items = ok, !.lost = lost,
                !.sig = SignApprovedItems(@, ok,
                            [st |-> "signed", good |-> good,
                             key |-> IF good THEN key[q.who] ELSE 0])])
        /\ clock' = clock + 1
        /\ consented' = consented \cup {<<q.job, i>> : i \in IF good THEN ok ELSE {}}
        /\ UNCHANGED <<row, audit, unowned, final, key, participants, grants, approved>>

\* The approval is refused: data provider, all items accepted, bad signature.
ApproveRefuse(r) ==
    /\ At(r, "data", "checked")
    /\ End(r)
    /\ UNCHANGED <<row, audit, unowned, final, key, participants, grants, clock, consented, approved>>

\* signApprovedItems: nothing to store without an accepted item; a contract
\* that is gone fails the request before anything is audited.
ApproveStore(r) ==
    LET q == req[r]
    IN  /\ IsApproval(r, "stamped")
        /\ IF q.items = {} \/ row.job = q.job
           THEN /\ row' = [row EXCEPT !.sig = IF q.items = {} THEN @ ELSE q.sig]
                /\ Step(r, [q EXCEPT !.phase = "stored"])
           ELSE UNCHANGED row /\ End(r)
        /\ UNCHANGED <<audit, unowned, final, key, participants, grants, clock, consented, approved>>

\* Mutant of Awaiting: the other providers' items are left out.
AwaitingNobody(q) == {}

\* Mutant of Awaiting: items that were already checked get one again.
AwaitingAll(q) == KindItems(q.op) \ (q.own \cup q.lost)

\* The items of other providers that get a rejected "awaiting" entry.
Awaiting(q) == KindItems(q.op) \ (q.own \cup q.lost \cup q.seen)

\* InsertAuditEntries: append-only; the entry with the latest checked_at per
\* provider id and item is the current one.
ApproveAudit(r) ==
    LET q == req[r]
        rows == q.own \cup Awaiting(q)
    IN  /\ IsApproval(r, "stored")
        /\ audit' = [audit EXCEPT ![q.job] =
              [i \in Items |->
                 IF i \in rows /\ q.stamp > @[i].stamp
                 THEN [stamp |-> q.stamp,
                       status |-> IF i \in q.items THEN "accepted" ELSE "rejected"]
                 ELSE @[i]]]
        /\ unowned' = unowned \cup {<<q.job, i>> : i \in q.lost}
        /\ approved' = approved \cup {<<q.job, i>> : i \in q.items}
        /\ Step(r, [q EXCEPT !.phase = "recorded"])
        /\ UNCHANGED <<row, final, key, participants, grants, clock, consented>>

\* Mutant of ParticipantStatus: the audit status is stored as it is.
AuditStatus(accepted) == IF accepted THEN "accepted" ELSE "rejected"

\* markApprovalParticipants
ParticipantStatus(accepted) == IF accepted THEN "approved" ELSE "rejected"

\* Mutant of Granted: rejected entries are not skipped.
GrantedAll(q) == q.own

\* postConsumerGrants skips the caller's entries that are not accepted.
Granted(q) == q.items

\* A data provider's grants are posted here, an infra provider's are not.
ApproveFinish(r) ==
    LET q == req[r]
    IN  /\ IsApproval(r, "recorded")
        /\ participants' = MarkParticipants(q.job,
              [i \in q.own |-> ParticipantStatus(i \in q.items)])
        /\ IF q.op = "data" THEN PostConsumerGrants(q.job, Granted(q)) ELSE UNCHANGED grants
        /\ End(r)
        /\ UNCHANGED <<row, audit, unowned, final, key, clock, consented, approved>>

(***************************************************************************)
(* GET /job/{jobId}/status                                                 *)
(***************************************************************************)
StatusLoad(r) ==
    /\ Begin(r, "status", "loaded", Nobody, row.sig)
    /\ UNCHANGED <<row, audit, unowned, final, key, participants, grants, clock, consented, approved>>

\* loadJobApprovalState and verifyJobSignatures; not approved ends the request.
StatusCheck(r) ==
    LET q == req[r]
    IN  /\ At(r, "status", "loaded")
        /\ IF JobAccepted(q.job) /\ ProviderSignatures(q.sig)
           THEN Step(r, [q EXCEPT !.phase = "verified",
                    !.items = {i \in Items : audit[q.job][i].status = "accepted"}])
           ELSE End(r)
        /\ UNCHANGED <<row, audit, unowned, final, key, participants, grants, clock, consented, approved>>

\* INSERT ... ON CONFLICT (job_id) DO NOTHING.
CreateFinalContract(job, sig) ==
    [final EXCEPT ![job] = IF @ = NoFinal THEN sig ELSE @]

\* finalizeJob looks the keys up again: a key replaced since the check leaves
\* the contract pending, yet the request goes on to the grants.
StatusCreate(r) ==
    LET q == req[r]
    IN  /\ At(r, "status", "verified")
        /\ IF ProviderSignatures(q.sig)
           THEN /\ final' = CreateFinalContract(q.job, q.sig)
                /\ Step(r, [q EXCEPT !.phase = "created"])
           ELSE UNCHANGED final /\ Step(r, [q EXCEPT !.phase = "pending"])
        /\ UNCHANGED <<row, audit, unowned, key, participants, grants, clock, consented, approved>>

\* MarkJobFinal, matched by job_id.
StatusMark(r) ==
    /\ At(r, "status", "created")
    /\ row' = [row EXCEPT !.finalized = @ \/ row.job = req[r].job]
    /\ Step(r, [req[r] EXCEPT !.phase = "marked"])
    /\ UNCHANGED <<audit, unowned, final, key, participants, grants, clock, consented, approved>>

StatusFinish(r) ==
    LET q == req[r]
    IN  /\ At(r, "status", "marked") \/ At(r, "status", "pending")
        /\ participants' = IF q.phase = "marked"
                           THEN MarkParticipants(q.job, [i \in Items |-> "final"])
                           ELSE participants
        /\ PostConsumerGrants(q.job, Granted(q))
        /\ End(r)
        /\ UNCHANGED <<row, audit, unowned, final, key, clock, consented, approved>>

(***************************************************************************)
(* POST /job/{jobId}/tee and POST /v1/tee/run                              *)
(***************************************************************************)
EnableGate(r) ==
    /\ ProviderSignatures(row.sig)
    /\ Begin(r, "enable", "verified", Nobody, row.sig)
    /\ UNCHANGED <<row, audit, unowned, final, key, participants, grants, clock, consented, approved>>

\* EnableJobTEE: UPDATE ... WHERE job_id = $1 AND finalized_at IS NOT NULL.
MayEnable(job) == row.job = job /\ row.finalized

EnableFinish(r) ==
    LET q == req[r]
    IN  /\ At(r, "enable", "verified")
        /\ IF MayEnable(q.job)
           THEN /\ row' = [row EXCEPT !.teeEnabled = TRUE]
                /\ participants' = MarkParticipants(q.job, [i \in Items |-> "tee_enabled"])
           ELSE UNCHANGED <<row, participants>>
        /\ End(r)
        /\ UNCHANGED <<audit, unowned, final, key, grants, clock, consented, approved>>

RunGate(r) ==
    /\ ProviderSignatures(row.sig)
    /\ Begin(r, "run", "verified", Nobody, row.sig)
    /\ UNCHANGED <<row, audit, unowned, final, key, participants, grants, clock, consented, approved>>

\* Mutant of RunMarks: the row is marked whatever contract it now holds.
MarksAny(job) == job \in Jobs

\* MarkContractTEEEnabled: UPDATE ... WHERE contract_id = $1; a regenerated
\* contract has another id.
RunMarks(job) == row.job = job

\* CreateJob, which may take a minute, succeeded.
RunStart(r) ==
    LET q == req[r]
    IN  /\ At(r, "run", "verified")
        /\ row' = [row EXCEPT !.teeEnabled = @ \/ RunMarks(q.job)]
        /\ participants' = MarkParticipants(q.job, [i \in Items |-> "tee_enabled"])
        /\ End(r)
        /\ UNCHANGED <<audit, unowned, final, key, grants, clock, consented, approved>>

(***************************************************************************)
(* The handlers of ContractSigning that also reach a job's contract        *)
(***************************************************************************)
WithdrawLoad(r, p) ==
    LET own == Own("data", p)
    IN  /\ \E i \in own : row.sig[i].st = "signed"
        /\ Begin(r, "withdraw", "stamped", p,
                 [i \in Items |-> IF i \in own THEN [NoSignature EXCEPT !.st = "withdrawn"]
                                  ELSE row.sig[i]])
        /\ UNCHANGED <<row, audit, unowned, final, key, participants, grants, clock, consented, approved>>

\* An edit changes no signature, but writes back the ones it loaded.
EditLoad(r) ==
    /\ Begin(r, "edit", "stamped", Nobody, row.sig)
    /\ UNCHANGED <<row, audit, unowned, final, key, participants, grants, clock, consented, approved>>

Store(r) ==
    LET q == req[r]
    IN  /\ q.op \in {"withdraw", "edit"} /\ q.phase = "stamped"
        /\ IF row.job = q.job
           THEN /\ row' = [row EXCEPT !.sig = q.sig]
                /\ Step(r, IF q.op = "edit" THEN Idle ELSE [q EXCEPT !.phase = "stored"])
           ELSE UNCHANGED row /\ End(r)
        /\ UNCHANGED <<audit, unowned, final, key, participants, grants, clock, consented, approved>>

WithdrawFinish(r) ==
    LET q == req[r]
    IN  /\ At(r, "withdraw", "stored")
        /\ participants' = MarkParticipants(q.job, [i \in Own("data", q.who) |-> "withdrawn"])
        /\ End(r)
        /\ UNCHANGED <<row, audit, unowned, final, key, grants, clock, consented, approved>>

PutProviderKey(p) ==
    /\ key[p] < MaxKey
    /\ key' = [key EXCEPT ![p] = @ + 1]
    /\ UNCHANGED <<row, audit, unowned, final, req, participants, grants, clock, consented, approved, served>>

\* A failed call, a client that disconnects or a crash ends a request where
\* it stands.
Abort(r) ==
    /\ Aborts
    /\ req[r] # Idle
    /\ End(r)
    /\ UNCHANGED <<row, audit, unowned, final, key, participants, grants, clock, consented, approved>>

Next ==
    \/ \E r \in Requests :
        \/ Generate(r) \/ GenerateFinish(r)
        \/ \E op \in {"data", "infra"}, p \in Providers : ApproveLoad(r, op, p)
        \/ ApproveCheck(r)
        \/ \E lost \in SUBSET Infras, ok \in SUBSET Items, good \in BOOLEAN :
                ApproveStamp(r, lost, ok, good)
        \/ ApproveRefuse(r) \/ ApproveStore(r) \/ ApproveAudit(r) \/ ApproveFinish(r)
        \/ StatusLoad(r) \/ StatusCheck(r) \/ StatusCreate(r) \/ StatusMark(r) \/ StatusFinish(r)
        \/ EnableGate(r) \/ EnableFinish(r)
        \/ RunGate(r) \/ RunStart(r)
        \/ \E p \in Providers : WithdrawLoad(r, p)
        \/ EditLoad(r) \/ Store(r) \/ WithdrawFinish(r)
        \/ Abort(r)
    \/ \E p \in Providers : PutProviderKey(p)

Spec == Init /\ [][Next]_vars

(***************************************************************************)
(* Properties                                                              *)
(***************************************************************************)
\* The type invariant.
TypeOK ==
    /\ row \in [job : 0..MaxJobs, sig : [Items -> Signature], finalized : BOOLEAN, teeEnabled : BOOLEAN]
    /\ audit \in [Jobs -> [Items -> Entry]]
    /\ unowned \subseteq Jobs \X Infras
    /\ final \in [Jobs -> [Items -> Signature]]
    /\ key \in [Providers -> Nat]
    /\ req \in [Requests -> Request]
    /\ participants \in [Jobs -> [Items -> Statuses]]
    /\ grants \subseteq Jobs \X Items
    /\ clock \in Nat
    /\ consented \subseteq Jobs \X Items
    /\ approved \subseteq Jobs \X Items
    /\ served \in Nat

\* A final contract is created only when every provider whose approval the
\* job needs has passed the role and catalogue checks, on record, and validly
\* signed the job's hash: however approvals, re-approvals, withdrawals, edits
\* and status calls overlap or die half-way (getJobStatus).
FinalFullyApproved ==
    \A j \in Jobs : final[j] # NoFinal =>
        \A i \in RequiredItems : <<j, i>> \in consented /\ <<j, i>> \in approved

\* finalized_at on the row has its final_contracts record behind it, also
\* when the server dies between the two writes or the job is regenerated.
FinalizedHasRecord == row.finalized => final[row.job] # NoFinal

\* A job's contract is marked as enabled only if every provider whose
\* signature the job needs validly signed that job, although the mark is
\* written up to a minute after the signatures were verified and the contract
\* may be regenerated, withdrawn from or signed anew meanwhile (runTEEJob).
EnabledFullySigned ==
    row.teeEnabled => \A i \in RequiredItems : <<row.job, i>> \in consented

\* A consumer grant goes to APD only for an item whose owner's accepted check
\* is in the audit table.
GrantsOnlyApproved == grants \subseteq approved

Quiet == \A r \in Requests : req[r] = Idle

\* Approving is also signing: when nothing is in flight, an item whose current
\* approval is accepted carries its owner's signature, unless they withdrew it.
AcceptedAreSigned ==
    (Quiet /\ row.job # 0) =>
        \A i \in Items : audit[row.job][i].status = "accepted" => row.sig[i].st # "none"

\* When nothing is in flight, the Audit page's "approved" and "rejected" are
\* the current outcome of the checks.
ParticipantsMatchAudit ==
    (Quiet /\ row.job # 0) =>
        \A i \in Items :
            /\ participants[row.job][i] = "approved" => audit[row.job][i].status = "accepted"
            /\ participants[row.job][i] = "rejected" => audit[row.job][i].status = "rejected"
=============================================================================
