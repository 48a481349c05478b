--------------------------- MODULE ContractSigning ---------------------------
(***************************************************************************)
(* The life of one generated TEE/SMPC contract: generation, the data       *)
(* providers' signatures, consent expiry, consent withdrawal, the          *)
(* consumer's edits, key rotation and the run gate.                        *)
(*                                                                         *)
(* The contract is one JSON document in one row of the contracts table.    *)
(* Every handler loads the whole document, works on its private copy and   *)
(* overwrites the whole document (UpdateContractByContractID); requests    *)
(* are goroutines and nothing locks the row.  A request is therefore       *)
(* modelled as the steps                                                   *)
(*    ...Load     the reads, all checks and the local computation,         *)
(*    Store       the UPDATE, matched by contract_id only,                 *)
(*    ...Finish   the best-effort writes to the other tables after it,     *)
(* and any other request may take steps in between.  A refused request     *)
(* changes nothing and is a stuttering step.                               *)
(*                                                                         *)
(* Data abstraction: providers stand for all their parties on the contract *)
(* (handlers always treat a provider's parties alike); everything a        *)
(* consumer may edit apart from the validity window is one value, text;    *)
(* a time is a natural number with 0 for "not set".                        *)
(***************************************************************************)
EXTENDS Naturals, FiniteSets

CONSTANTS
    Providers,      \* the data providers on the contract
    Identified,     \* those whose party block carries an id
    Consumer,       \* the user who generated it
    Requests,       \* request slots: how many handlers may overlap
    Techniques,     \* techniques generated: a subset of {"TEE", "SMPC"}
    Texts,          \* values of the editable content; "" in a request = absent
    RunnableTexts,  \* those with every field NewSubContract requires
    Edits,          \* bodies of PUT /contracts/{contractId}
    Expiries,       \* bodies of POST .../consent-expiry
    Validity,       \* contract validity from generation (90 days in the code)
    Aborts,         \* TRUE if a request may die between its database calls
    MaxTime, MaxKey, MaxContracts, MaxRequests, MaxRuns   \* bounds of the instance

ASSUME ProvidersAssumption ==
    Providers # {} /\ Identified \subseteq Providers /\ Consumer \notin Providers
ASSUME TextAssumption == "" \notin Texts /\ RunnableTexts \subseteq Texts
ASSUME TechniqueAssumption == Techniques \subseteq {"TEE", "SMPC"}
ASSUME BoundsAssumption ==
    /\ Validity \in Nat \ {0} /\ MaxTime \in Nat /\ MaxKey \in Nat
    /\ MaxContracts \in Nat /\ MaxRequests \in Nat /\ MaxRuns \in Nat /\ Aborts \in BOOLEAN
ASSUME InputsAssumption ==
    /\ Edits \subseteq [text : Texts \cup {""}, from : Nat, until : Nat]
    /\ Expiries \subseteq Nat

VARIABLES
    row,            \* the contracts row: document and two of its columns
    key,            \* provider_public_keys: version of each provider's key
    req,            \* the requests in flight
    participants,   \* job_participants status, per contract (job) and provider
    asks,           \* CONTRACT_SIGN notifications not yet answered/superseded
    now,            \* wall clock
    \* History, for the properties only:
    given,          \* contract hashes each provider has validly signed
    amended,        \* contents gov_layer signed as an amendment
    revoked,        \* providers whose withdrawal was confirmed to them
    limit,          \* consent expiry last confirmed to each provider
    runs,           \* the runs the coordinator created
    served          \* requests accepted so far, for the bound MaxRequests

history == <<given, amended, revoked, limit, runs>>
vars == <<row, key, req, participants, asks, now, history, served>>

(***************************************************************************)
(* The contract document                                                   *)
(***************************************************************************)
ContractIds == 1..MaxContracts

\* The part of contract.Contract that ComputeHash covers.
Content == [cid : Nat, technique : Techniques \cup {""}, text : Texts \cup {""},
            from : Nat, until : Nat, requested : Nat, expiry : [Providers -> Nat]]

\* The absent content; as a hash, the empty string.
NoContent == [cid |-> 0, technique |-> "", text |-> "", from |-> 0, until |-> 0,
              requested |-> 0, expiry |-> [p \in Providers |-> 0]]

\* A party's signature block.  "withdrawn" is an empty value with WithdrawnAt.
Signature == [st : {"none", "signed", "withdrawn"}, hash : Content, key : Nat]
NoSignature == [st |-> "none", hash |-> NoContent, key |-> 0]
\* Mutant of Withdrawn: the block is left in a state the gate does not know.
WithdrawnToUnknownState(sig) == [NoSignature EXCEPT !.st = "revoked"]

\* handleWithdrawConsent keeps only who withdrew and when.
Withdrawn(sig) == [NoSignature EXCEPT !.st = "withdrawn"]

\* hash is ContractHash; gov and amend are the hashes covered by
\* GovernanceSignature and Amendment, both made with gov_layer's own key.
Document == [content : Content, hash : Content, gov : Content, amend : Content,
             sig : [Providers -> Signature]]
NoDocument == [content |-> NoContent, hash |-> NoContent, gov |-> NoContent,
               amend |-> NoContent, sig |-> [p \in Providers |-> NoSignature]]

\* SHA-256 over the document without its hash and signature blocks, taken to
\* be collision-free: the hash identifies exactly those fields.
ComputeHash(d) == d.content

GovernanceSign(d) == [d EXCEPT !.gov = d.hash]

\* Mutant of AmendSign: the edit is stored without gov_layer's signature.
AmendSignForgotten(d) == d

AmendSign(d) == [d EXCEPT !.amend = ComputeHash(d)]

GovernanceSignatureValid(d, hash) == d.gov = hash
AmendmentValid(d, hash) == d.amend = hash /\ hash # NoContent
ContentMatchesSignedHash(d) ==
    ComputeHash(d) = d.hash \/ AmendmentValid(d, ComputeHash(d))

Signed(d, p) == d.sig[p].st = "signed"

\* The earliest consent expiry set by any provider, or the contract's own end.
EarliestConsentExpiry(expiry, fallback) ==
    LET ends == {fallback} \cup {expiry[p] : p \in {q \in Providers : expiry[q] # 0}}
    IN  CHOOSE t \in ends : \A u \in ends : t <= u

(***************************************************************************)
(* The run gate                                                            *)
(***************************************************************************)
\* Mutant of ProviderSignatureValid: a party that withdrew is skipped.
ValidOrWithdrawn(d, p) ==
    \/ Signed(d, p) /\ d.sig[p].hash = d.hash /\ d.sig[p].key = key[p]
    \/ d.sig[p].st = "withdrawn"

ProviderSignatureValid(d, p) ==
    /\ Signed(d, p)
    /\ d.sig[p].hash = d.hash
    /\ d.sig[p].key = key[p]

\* Mutant of VerifyContractSignatures: one provider's signature is enough.
VerifyOneSignature(d) ==
    /\ ContentMatchesSignedHash(d)
    /\ GovernanceSignatureValid(d, d.hash)
    /\ \E p \in Providers : ProviderSignatureValid(d, p)

VerifyContractSignatures(d) ==
    /\ ContentMatchesSignedHash(d)
    /\ GovernanceSignatureValid(d, d.hash)
    /\ \A p \in Providers : ProviderSignatureValid(d, p)

\* Mutant of ConsentExpired: consent lasts one tick too long.
ConsentExpiredLate(d) ==
    \E p \in Providers : d.content.expiry[p] # 0 /\ now > d.content.expiry[p] + 1

ConsentExpired(d) ==
    \E p \in Providers : d.content.expiry[p] # 0 /\ now > d.content.expiry[p]

RequireAllProvidersSigned(d) ==
    d # NoDocument /\ VerifyContractSignatures(d) /\ ~ConsentExpired(d)

(***************************************************************************)
(* Requests                                                                *)
(***************************************************************************)
Ops == {"none", "generate", "sign", "withdraw", "expiry", "edit", "run"}
Statuses == {"absent", "requested", "signed", "withdrawn", "tee_enabled"}

\* doc is the request's own copy, as it will be (or was) written.  The
\* handlers for providers check that the caller is one of the contract's.
Request == {q \in [phase : {"idle", "loaded", "stored"}, op : Ops,
                   who : Providers \cup {Consumer}, doc : Document,
                   resigners : SUBSET Providers] :
                q.op \in {"sign", "withdraw", "expiry"} => q.who \in Providers}
Idle == [phase |-> "idle", op |-> "none", who |-> Consumer, doc |-> NoDocument,
         resigners |-> {}]

Begin(r, op, phase, who, d, resigners) ==
    /\ req[r] = Idle
    /\ req' = [req EXCEPT ![r] = [phase |-> phase, op |-> op, who |-> who,
                                  doc |-> d, resigners |-> resigners]]
    /\ served < MaxRequests
    /\ served' = served + 1
End(r) == req' = [req EXCEPT ![r] = Idle] /\ UNCHANGED served
At(r, op, phase) == req[r].op = op /\ req[r].phase = phase
Cid(r) == req[r].doc.content.cid

\* Mutant of MarkParticipants: a job that has run keeps its status.
MarkUnlessEnabled(cid, who, status) ==
    [participants EXCEPT ![cid] =
        [p \in Providers |-> IF p \in who /\ @[p] \notin {"absent", "tee_enabled"}
                             THEN status ELSE @[p]]]

\* An UPDATE, so rows that are not there stay absent.
MarkParticipants(cid, who, status) ==
    [participants EXCEPT ![cid] =
        [p \in Providers |-> IF p \in who /\ @[p] # "absent" THEN status ELSE @[p]]]

\* SetJobParticipantStatus looks for a provider's rows by an id, which those
\* of a party without one do not have.
MarkById(cid, who, status) == MarkParticipants(cid, who \cap Identified, status)

\* notifyContractSigners: one request per provider, carrying d's hash; parties
\* without an id are skipped.
SignRequests(d) == {[to |-> p, hash |-> d.hash] : p \in Identified}

\* The caller may send along the notification this answers.
Answers(r) == {{}} \cup {{a} : a \in {b \in asks : b.to = req[r].who /\ b.hash.cid = Cid(r)}}

Init ==
    /\ row = [doc |-> NoDocument, teeEnabled |-> FALSE, signRequestsSent |-> FALSE]
    /\ key = [p \in Providers |-> 0]
    /\ req = [r \in Requests |-> Idle]
    /\ participants = [c \in ContractIds |-> [p \in Providers |-> "absent"]]
    /\ asks = {}
    /\ now = 1
    /\ given = [p \in Providers |-> {}]
    /\ amended = {}
    /\ revoked = {}
    /\ limit = [p \in Providers |-> 0]
    /\ runs = {}
    /\ served = 0

(***************************************************************************)
(* POST /generate-contract.  Regenerating the same selection (consumer,    *)
(* datasets, technique) overwrites the row under a new contract_id and     *)
(* job_id and resets its columns.                                          *)
(***************************************************************************)
GeneratedDocument(cid, technique, text) ==
    LET c == [cid |-> cid, technique |-> technique, text |-> text, from |-> now,
              until |-> now + Validity, requested |-> 0,
              expiry |-> [p \in Providers |-> 0]]
    IN  GovernanceSign([NoDocument EXCEPT !.content = c, !.hash = c])

\* Mutant of StoreGeneratedContract: the columns survive the upsert.
StoreKeepingColumns(d) == [row EXCEPT !.doc = d]

\* The upsert of the row: a new document, and every column starts over.
StoreGeneratedContract(d) == [doc |-> d, teeEnabled |-> FALSE, signRequestsSent |-> FALSE]

Generate(r, technique, text) ==
    LET cid == row.doc.content.cid + 1
        d   == GeneratedDocument(cid, technique, text)
    IN  /\ cid \in ContractIds
        /\ row.doc = NoDocument \/ row.doc.content.technique = technique
        /\ row' = StoreGeneratedContract(d)
        /\ Begin(r, "generate", "stored", Consumer, d, {})
        /\ revoked' = {}
        /\ limit' = [p \in Providers |-> 0]
        /\ UNCHANGED <<key, participants, asks, now, given, amended, runs>>

\* ReplaceJobParticipants drops the rows of jobs no longer in contracts;
\* sendSignRequestsOnce claims the row before it sends (MarkSignRequestsSent).
GenerateFinish(r) ==
    LET first == Cid(r) = row.doc.content.cid /\ ~row.signRequestsSent
    IN  /\ At(r, "generate", "stored")
        /\ participants' =
             [c \in ContractIds |-> [p \in Providers |->
                 IF c = Cid(r) THEN "requested"
                 ELSE IF c = row.doc.content.cid THEN participants[c][p] ELSE "absent"]]
        /\ row' = [row EXCEPT !.signRequestsSent = @ \/ first]
        /\ asks' = asks \cup (IF first THEN SignRequests(req[r].doc) ELSE {})
        /\ End(r)
        /\ UNCHANGED <<key, now, history>>

(***************************************************************************)
(* POST /contracts/{contractId}/sign                                       *)
(***************************************************************************)
SignLoad(r, p) ==
    LET d == row.doc
    IN  /\ d # NoDocument
        /\ ContentMatchesSignedHash(d)
        /\ GovernanceSignatureValid(d, d.hash)
        /\ key[p] # 0
        /\ Begin(r, "sign", "loaded", p,
                 [d EXCEPT !.sig[p] = [st |-> "signed", hash |-> d.hash, key |-> key[p]]], {})
        /\ given' = [given EXCEPT ![p] = @ \cup {d.hash}]
        /\ UNCHANGED <<row, key, participants, asks, now, amended, revoked, limit, runs>>

SignFinish(r) ==
    /\ At(r, "sign", "stored")
    /\ participants' = MarkById(Cid(r), {req[r].who}, "signed")
    /\ \E a \in Answers(r) : asks' = asks \ a
    /\ End(r)
    /\ UNCHANGED <<row, key, now, history>>

(***************************************************************************)
(* POST /contracts/{contractId}/withdraw-consent                           *)
(***************************************************************************)
WithdrawLoad(r, p) ==
    LET d == row.doc
    IN  /\ d.content.technique = "TEE"
        /\ Signed(d, p)
        /\ Begin(r, "withdraw", "loaded", p, [d EXCEPT !.sig[p] = Withdrawn(@)], {})
        /\ UNCHANGED <<row, key, participants, asks, now, history>>

WithdrawFinish(r) ==
    /\ At(r, "withdraw", "stored")
    /\ participants' = MarkById(Cid(r), {req[r].who}, "withdrawn")
    /\ \E a \in Answers(r) : asks' = asks \ a
    /\ End(r)
    /\ UNCHANGED <<row, key, now, history>>

(***************************************************************************)
(* POST /contracts/{contractId}/consent-expiry                             *)
(***************************************************************************)
RequestedEnd(c) == IF c.requested # 0 THEN c.requested ELSE c.until

\* Mutant of ExpiryContent: the requested end is not kept.
ExpiryContentForgetsEnd(c, p, until) ==
    LET expiry == [c.expiry EXCEPT ![p] = until]
    IN  [c EXCEPT !.expiry = expiry,
                  !.until = EarliestConsentExpiry(expiry, RequestedEnd(c))]

ExpiryContent(c, p, until) ==
    LET expiry == [c.expiry EXCEPT ![p] = until]
    IN  [c EXCEPT !.expiry = expiry,
                  !.requested = RequestedEnd(c),
                  !.until = EarliestConsentExpiry(expiry, RequestedEnd(c))]

\* Mutant of ClearSignatures: the signatures over the old hash stay.
ClearNothing(d) == d.sig

ClearSignatures(d) ==
    [q \in Providers |-> IF Signed(d, q) THEN NoSignature ELSE d.sig[q]]

WithConsentExpiry(d, p, until) ==
    LET c == ExpiryContent(d.content, p, until)
    IN  GovernanceSign([d EXCEPT !.content = c, !.hash = c, !.sig = ClearSignatures(d)])

ExpiryLoad(r, p, until) ==
    LET d == row.doc
    IN  /\ d.content.technique \in {"TEE", "SMPC"}
        /\ d.gov # NoContent
        /\ ~Signed(d, p)
        /\ until > now
        /\ until <= RequestedEnd(d.content)
        /\ Begin(r, "expiry", "loaded", p, WithConsentExpiry(d, p, until),
                 {q \in Providers : Signed(d, q)})
        /\ UNCHANGED <<row, key, participants, asks, now, given, amended, revoked, limit, runs>>

ExpiryFinish(r) ==
    /\ At(r, "expiry", "stored")
    /\ participants' = MarkById(Cid(r), req[r].resigners, "requested")
    /\ asks' = {a \in asks : a.hash.cid # Cid(r)} \cup SignRequests(req[r].doc)
    /\ End(r)
    /\ UNCHANGED <<row, key, now, history>>

(***************************************************************************)
(* PUT /contracts/{contractId}: the consumer's edit, in place              *)
(***************************************************************************)
ApplyEdit(c, e) ==
    [c EXCEPT !.text  = IF e.text = "" THEN @ ELSE e.text,
              !.from  = IF e.from = 0 THEN @ ELSE e.from,
              !.until = IF e.until = 0 THEN @ ELSE e.until]

EditLoad(r, e) ==
    LET d == row.doc
        c == ApplyEdit(d.content, e)
    IN  /\ d.content.technique = "TEE"
        /\ (e.from # 0 \/ e.until # 0) => c.until >= c.from
        /\ c # d.content
        /\ Begin(r, "edit", "loaded", Consumer, AmendSign([d EXCEPT !.content = c]), {})
        /\ amended' = amended \cup {c}
        /\ UNCHANGED <<row, key, participants, asks, now, given, revoked, limit, runs>>

(***************************************************************************)
(* UpdateContractByContractID: overwrites the document of whatever row has *)
(* this contract_id; no row means it was regenerated and the request ends  *)
(* in an error.  The history variables record the confirmations that a     *)
(* successful withdrawal, expiry or signature gives its caller.            *)
(***************************************************************************)
\* Mutant of StoreMatches: the row is found by anything but its contract_id.
StoreMatchesAny(r) == TRUE

StoreMatches(r) == row.doc.content.cid = Cid(r)

Store(r) ==
    LET q == req[r]
        p == q.who
    IN  /\ q.phase = "loaded"
        /\ q.op \in {"sign", "withdraw", "expiry", "edit"}
        /\ IF StoreMatches(r)
           THEN /\ row' = [row EXCEPT !.doc = q.doc]
                /\ req' = [req EXCEPT ![r] = IF q.op = "edit" THEN Idle
                                             ELSE [q EXCEPT !.phase = "stored"]]
                /\ revoked' = CASE q.op = "withdraw" -> revoked \cup {p}
                                [] q.op = "sign"     -> revoked \ {p}
                                [] OTHER             -> revoked
                /\ limit' = IF q.op = "expiry"
                            THEN [limit EXCEPT ![p] = q.doc.content.expiry[p]] ELSE limit
           ELSE End(r) /\ UNCHANGED <<row, revoked, limit>>
        /\ UNCHANGED <<key, participants, asks, now, given, amended, runs, served>>

(***************************************************************************)
(* POST /v1/tee/run: the gate, then CreateJob on the coordinator, which    *)
(* can take up to a minute, then tee_enabled_at and the participants.      *)
(***************************************************************************)
RunGate(r) ==
    /\ RequireAllProvidersSigned(row.doc)
    /\ row.doc.content.text \in RunnableTexts
    /\ Cardinality(runs) < MaxRuns
    /\ Begin(r, "run", "loaded", Consumer, row.doc, {})
    /\ UNCHANGED <<row, key, participants, asks, now, history>>

RunStart(r) ==
    /\ At(r, "run", "loaded")
    /\ row' = [row EXCEPT !.teeEnabled = @ \/ row.doc.content.cid = Cid(r)]
    /\ participants' = MarkParticipants(Cid(r), Providers, "tee_enabled")
    /\ runs' = runs \cup {[hash |-> req[r].doc.hash, content |-> req[r].doc.content]}
    /\ End(r)
    /\ UNCHANGED <<key, asks, now, given, amended, revoked, limit>>

\* CreateJob is cut off (60 s, or the client disconnects) after the coordinator
\* created the job: the run is live and reported as failed.
RunLost(r) ==
    /\ At(r, "run", "loaded")
    /\ runs' = runs \cup {[hash |-> req[r].doc.hash, content |-> req[r].doc.content]}
    /\ End(r)
    /\ UNCHANGED <<row, key, participants, asks, now, given, amended, revoked, limit>>

\* CreateJob failed and no job was created.
RunFail(r) ==
    /\ At(r, "run", "loaded")
    /\ End(r)
    /\ UNCHANGED <<row, key, participants, asks, now, history>>

(***************************************************************************)
(* Everything else that moves                                              *)
(***************************************************************************)
\* A failed database call, a client that disconnects (its context cancels
\* the remaining calls) or a server crash ends a request where it stands.
Abort(r) ==
    /\ Aborts
    /\ req[r] # Idle
    /\ End(r)
    /\ UNCHANGED <<row, key, participants, asks, now, history>>

\* PUT /provider-keys/{role}: registers or replaces the provider's key.
PutProviderKey(p) ==
    /\ key[p] < MaxKey
    /\ key' = [key EXCEPT ![p] = @ + 1]
    /\ UNCHANGED <<row, req, participants, asks, now, history, served>>

Tick ==
    /\ now < MaxTime
    /\ now' = now + 1
    /\ UNCHANGED <<row, key, req, participants, asks, history, served>>

Next ==
    \/ \E r \in Requests :
        \/ \E t \in Techniques, x \in Texts : Generate(r, t, x)
        \/ GenerateFinish(r)
        \/ \E p \in Providers : SignLoad(r, p)
        \/ SignFinish(r)
        \/ \E p \in Providers : WithdrawLoad(r, p)
        \/ WithdrawFinish(r)
        \/ \E p \in Providers, u \in Expiries : ExpiryLoad(r, p, u)
        \/ ExpiryFinish(r)
        \/ \E e \in Edits : EditLoad(r, e)
        \/ Store(r)
        \/ RunGate(r)
        \/ RunStart(r)
        \/ RunLost(r)
        \/ RunFail(r)
        \/ Abort(r)
    \/ \E p \in Providers : PutProviderKey(p)
    \/ Tick

Spec == Init /\ [][Next]_vars

(***************************************************************************)
(* Properties                                                              *)
(***************************************************************************)
\* The type invariant.
TypeOK ==
    /\ row \in [doc : Document, teeEnabled : BOOLEAN, signRequestsSent : BOOLEAN]
    /\ key \in [Providers -> Nat]
    /\ req \in [Requests -> Request]
    /\ participants \in [ContractIds -> [Providers -> Statuses]]
    /\ asks \subseteq [to : Providers, hash : Content]
    /\ now \in Nat
    /\ given \in [Providers -> SUBSET Content]
    /\ amended \subseteq Content
    /\ revoked \subseteq Providers
    /\ limit \in [Providers -> Nat]
    /\ runs \subseteq [hash : Content, content : Content]
    /\ served \in Nat

\* The document a reader of the row, or a request about to write it, holds.
Documents == {row.doc} \cup {req[r].doc : r \in Requests}

\* Consent terms: what an edit may not touch (editContractRequest has no
\* field for them).
SameConsentTerms(a, b) ==
    a.cid = b.cid /\ a.technique = b.technique /\ a.expiry = b.expiry /\ a.requested = b.requested

\* However the handlers interleave, a signature that sits on a stored or
\* about-to-be-stored document was made by that provider, over exactly that
\* document's contract_hash: no lost update, regeneration or edit moves a
\* signature under a hash it does not cover.
SignaturesCoverHash ==
    \A d \in Documents, p \in Providers :
        Signed(d, p) => d.sig[p].hash = d.hash /\ d.hash \in given[p]

\* Every document carries gov_layer's signature over its contract_hash, and
\* its content is what was hashed or an edit gov_layer accepted, which leaves
\* contract, technique and consent terms as they were signed.
ContentAccountedFor ==
    \A d \in Documents :
        /\ d.gov = d.hash
        /\ d.content = d.hash \/ (d.content \in amended /\ d.amend = d.content)
        /\ SameConsentTerms(d.content, d.hash)

\* No run is ever created on a contract hash that some data provider has not
\* signed, nor with consent terms other than the signed ones.
RunsFullyConsented ==
    \A x \in runs :
        /\ \A p \in Providers : x.hash \in given[p]
        /\ SameConsentTerms(x.content, x.hash)
        /\ x.content = x.hash \/ x.content \in amended

\* A provider's consent never outlasts the end the contract was requested
\* with, whatever order expiries and edits arrive in.
ExpiryWithinRequestedEnd ==
    \A d \in Documents, p \in Providers :
        d.content.expiry[p] # 0 => d.content.expiry[p] <= d.content.requested

\* tee_enabled_at on the row means a run of this very contract: a run that
\* overlaps a regeneration never marks the new contract, and regenerating
\* resets the mark.
TEEEnabledMeansRun ==
    row.teeEnabled => \E x \in runs : x.content.cid = row.doc.content.cid

\* The detailed specification implements ConsentLedger: seen from outside,
\* every step gives one consent, creates one run on a fully consented hash,
\* or changes nothing.
Ledger == INSTANCE ConsentLedger WITH given <- given, runs <- {x.hash : x \in runs}
ImplementsLedger == Ledger!Spec

\* A request that began before a regeneration never brings the replaced
\* contract back: the row moves to newer contract ids only.
RegeneratedStaysRegenerated ==
    [][row'.doc.content.cid >= row.doc.content.cid]_row

Quiet == \A r \in Requests : req[r] = Idle

\* When no request is in flight, every provider with an id who has neither
\* signed nor withdrawn holds an unanswered sign request with the current hash;
\* without one they would never be asked.
UnsignedAreAsked ==
    (Quiet /\ row.doc # NoDocument) =>
        \A p \in Identified : row.doc.sig[p].st = "none" =>
            [to |-> p, hash |-> row.doc.hash] \in asks

\* When no request is in flight, the Audit page agrees with the contract: the
\* participant status of each provider with an id is the state of their
\* signature.
ParticipantsMatchSignatures ==
    (Quiet /\ row.doc # NoDocument) =>
        \A p \in Identified :
            participants[row.doc.content.cid][p] \in
                CASE row.doc.sig[p].st = "none"      -> {"requested"}
                  [] row.doc.sig[p].st = "signed"    -> {"signed", "tee_enabled"}
                  [] row.doc.sig[p].st = "withdrawn" -> {"withdrawn"}

PassesGate(r) == req[r].op # "run" /\ req'[r].op = "run"

\* Withdrawing clears the signature, so the gate refuses any further run until
\* that provider signs again (consent_withdrawal.go, header).
NoRunAfterWithdrawal ==
    [][\A r \in Requests : PassesGate(r) => revoked = {}]_vars

\* The gate admits a run only under the expiries last confirmed to their
\* providers, which are those in the hash everybody signed, and only until the
\* first of them passes (consentExpiryError): no order of expiries, edits and
\* signatures loses one.  CreateJob follows the gate by up to a minute, so the
\* run it creates may start after an expiry.
GateKeepsExpiries ==
    [][\A r \in Requests : PassesGate(r) =>
        \A p \in Providers :
            /\ row.doc.hash.expiry[p] = limit[p]
            /\ limit[p] # 0 => now <= limit[p]]_vars
=============================================================================
