# A TLA+ model of the P3DX governance layer

The governance layer (`gov_layer`) is a Go HTTP service over one PostgreSQL
database. It generates contracts between a data consumer and the providers of
datasets and infrastructure, collects the providers' consent and signatures,
lets a computation run only with it, in a confidential VM it attests or as
federated learning, and keeps what a run put out. This directory models these
parts, checks them with TLC on small instances and proves the central results
with TLAPS for all instances.

## 1. The system

### Components, state, operations

| Component (source under `src/internal`) | State | Operations that change it |
|---|---|---|
| contract signing (`httpapi/contract_signing.go`, `consent_withdrawal.go`, `consent_expiry.go`, `contract_edit.go`, `generate_contract.go`) | the `contracts` row: a JSON document plus columns; CONTRACT_SIGN notifications | generate, sign, withdraw consent, set consent expiry, edit |
| run gate and TEE run (`job_tee.go`, `requireAllProvidersSigned`) | `tee_enabled_at`; jobs at the coordinator | enable, run |
| job approval (`job_approval.go`, `job_request.go`, `db/audit.go`, `db/final_contracts.go`) | `audit`, `final_contracts`, `finalized_at`, grants at APD | data- and infra-provider approval, status (cross-verify and finalize) |
| TEE outcome (`tee_outcome.go`, `db/contract_events.go`) | `contract_events`, watcher goroutines, `settleMu` | record start, watch, poll, settle, resume |
| job participants (`job_participants.go`) | `job_participants` status | written by all of the above |
| provider keys (`provider_keys.go`) | `provider_public_keys` | register/replace |
| TEE orchestrator and sessions (`tee_orchestrator.go`, `tee_session.go`) | two in-memory registries, session goroutines | provision, attest, run, terminate, start session, terminate session |
| FL negotiation (`fl_notifications.go`, `fl_negotiation.go`) | notifications, removed providers | invite, answer, remove, re-invite |
| FL contracts (`contracts.go`, `db/contracts.go`, `db/projects.go`) | the session's contract rows, their projects | build draft and roster, accept mark, party signature |
| gateway certificates (`gateway_certs.go`, `db/gateway_certs.go`) | `gateway_certs` | verify, issue, record |
| FL output (`fl_output.go`) | one model file per round and one metrics file per session | upload, read, download |
| attestation (`tee_orchestrator.go`, `services/attestation.go`) | challenges and tokens in flight | challenge, verify, record the verdict |
| general contract (`general_contract.go`) | a contracts row, an encrypted copy | submit (legacy) |
| Keycloak client (`keycloak/keycloak.go`) | cached service token | refresh |
| stateless or single-statement parts | - | listed in `PROJECT.json` with the reason they are not modelled |

### How they interact, and what is hard

Every handler runs in its own goroutine. All contract state is one JSON
document in one row; a handler loads the whole document, decides on its copy
and overwrites the whole document (`UpdateContractByContractID`), matched by
contract id only. There is no transaction, version check or row lock around
that, and a run's gate is up to a minute before its effects. So the hard
behaviours are overlapping read-modify-write requests, a regeneration (new
contract id in the same row) between a request's load and its store, requests
that die between their database calls, answers used long after they were
fetched, and watcher goroutines racing UI polls, failures and restarts. The
FL handlers make many single-statement calls without a transaction, skip or
only log some that fail, and share their rows with each other; uploads and
readers share files in which only a rename is atomic; the attested VM, its
guest and the attestation services change while an attestation is in flight.

What makes each component correct:

- signing and gate: a run happens only on a hash every provider signed, with
  the consent terms they signed; a signature never sits under another hash;
  the gate refuses after a withdrawal or an expiry; everyone who still has to
  sign and can be reached is asked; the Audit page agrees with the contract.
- job approval: what becomes final was approved and signed by everyone the job
  needs, its marks agree with its record, and what is marked as enabled was
  signed.
- outcome: each run's outcome is recorded once, truly, last, and eventually.
- sessions and orchestrator: only attested instances run; a complete session
  really ran; a running VM stays registered; every session comes to rest.
- negotiation: one decline is free and the second removes; nobody else is
  warned or removed; a removal is told once and asks everybody else again;
  numbers and warnings on asks are right.
- FL contracts and certificates: what a contract says never changes; marks
  survive from draft to roster; everybody with an id on a roster is asked to
  sign it; a
  certificate names a roster everybody on it signed, and is on record.
- FL output: only whole uploads are visible; an answer's metrics come with
  their model; answers never go back; a retry repairs.
- attestation: a verdict is true of the VM, made for its own challenge, and
  proved by its own token.

## 2. Modules

| Module | Models |
|---|---|
| `ConsentLedger` | the abstract promise: consent is given to a hash; a run is created on a hash all providers consented to |
| `ContractSigning` | one TEE/SMPC contract that needs no job approval: generation, signing, withdrawal, expiry, edit, key registration, gate and run |
| `ContractSigningProofs`, `JobApprovalProofs`, `TEEOutcomeProofs`, `TEESessionProofs`, `FLNegotiationProofs`, `FLContractProofs`, `FLOutputProofs`, `AttestationProofs` | theorems about the module each is named after |
| `JobApproval` | one job-approval contract: approvals, audit, status, final record, grants, enable, run, and the withdrawals and edits that also reach it |
| `TEEOutcome` | from CreateJob to the recorded outcome: start, watchers, polls, settle, crash, resume |
| `TEESession` | the orchestrator's primitives, the TEE registry, the shared VM, session goroutines and their termination |
| `FLNegotiation` | participation requests, answers, removals and updated lists of one FL session |
| `FLContract` | the contract rows of one FL session, accept marks, roster signatures, projects, gateway certificates |
| `FLOutput` | the files of one FL session: uploads, readers, failures, crashes |
| `Attestation` | attestations of the confidential VM, down to what a token says and who signed it |
| `MC...` | instances for TLC |

Modules meet where one component hands over to another: `ContractSigning`
implements `ConsentLedger`; `ContractSigning` and `JobApproval` end where a run
is created and `TEEOutcome` begins there; the verdict that `Attestation`
records is `RecordVerdict` of `TEESession`, which models how long and for what
it counts; an accepted ask of `FLNegotiation` is `Accept` of `FLContract`. They
are not composed into one state machine: no state is shared beyond these calls,
whose outcomes are nondeterministic on the other side.

### ContractSigning

`row` is the contracts row, `req` the requests in flight, each with the copy
of the document it works on. A handler is the steps `...Load` (reads, checks,
local computation), `Store` (the UPDATE) and `...Finish` (the best-effort
writes to other tables after it). Reads are one step: what a handler reads
after loading the document (keys, the clock) can only make it refuse where the
model would also refuse if it had read a moment later, and the model contains
that schedule too. The writes after the store are one step because nothing
reads them together with the document. A refused request changes nothing and
is a stuttering step. `RunGate` to `RunStart` spans the CreateJob call;
`RunLost` is a call cut off after the coordinator had created the job,
`RunFail` one that created none. `Abort` ends a request anywhere: a failed
call, a client that disconnects (its context cancels the rest) or a crash.

Data: a hash is the content it covers (SHA-256 taken to be collision-free), a
signature is the hash and the key version it was made with, an expiry or
window is a natural number, everything else an edit may change is one value
`text`. A provider stands for all their parties on the contract: handlers
treat those alike. `Identified` are the providers whose parties carry an id:
sign requests and participant updates go by it and skip the others. Two usernames with the same slug are not distinguished.
The governance key is always loaded (`main` stops without it).

History variables (`given`, `amended`, `revoked`, `limit`, `runs`) record what
was confirmed to whom; no action's guard reads them, except that `MaxRuns`
bounds `runs`.

### JobApproval

As above, with finer steps, because an approval reads the audit table, then
looks up roles and catalogues (slow, external), then stores the signature,
then inserts the audit rows: `ApproveLoad`, `ApproveCheck`, `ApproveStamp`,
`ApproveStore`, `ApproveAudit`, `ApproveFinish`; a status call is
`StatusLoad`, `StatusCheck`, `StatusCreate`, `StatusMark`, `StatusFinish`.
The document is reduced to its signatures: a job contract's hash never changes
after generation, since `/contracts/{id}/sign` and `consent-expiry` refuse a
job-approval contract (it has no governance signature) and an edit is amended.
The audit table is append-only and read through "latest `checked_at` per
provider id and item"; `audit` is that view, `unowned` the entries under an
empty provider id. Outcomes of lookups, and whether a submitted signature is
good, are inputs. The best-effort calls that mark one participant each are one
step, none of which fails by itself. IUDX policies and JOB_REQUEST notifications are outputs that
nothing reads back and are left out, as are contracts from before
`contract_hash` was stored at generation (`sealContract` does nothing for the
others).

### TEEOutcome

`events` is the part of `contract_events` that names a job, `thread` the
watchers and polls, `mu` the holders of `settleMu`. The coordinator is
external: it accepts a job and ends it. `LongRuns` allows a job to outlast the
watch limits, `MaxFailures` database calls to fail, `MaxCrashes` crashes.

### TEESession

`insts` are the `teeInstance` objects (a pointer is an index), `tees` the
registry, `sess` the session registry, `thread` session goroutines and direct
calls. The primitives (`StartVM` to `RunRejected`) are shared by both, as in
the code; only where they return differs. A step is what happens between two
waits or lock acquisitions. Every call of az or of the enclave may fail, before
or after it has taken effect. The VM and its enclave manager are external and
one variable, since every instance has the same VM and the manager's progress
report does not name a TEE. Both registries live in memory: a restart is the
initial state with the VM doing anything. Unlocked reads of a session by the
GET handlers are not modelled. Contract gate outcomes are inputs.

### FLNegotiation

`notes` are the session's notifications in `created_at` order, `removed` the
table of removed providers, `call` the handlers in flight. Every database call
that another handler can come between is a step: `PostNotifications` (the
removed set, read once), then `CountAsk` and `CreateAsk` per recipient;
`RespondToNotification` (the checks), `StoreResponse`, `CountDeclines`, then
`RemoveProviderFromSession`, `TellRemoved`, and `CountUpdate` and `SendUpdate`
per remaining provider. What a removal reads and tells (`TellRemoved`) is one
step: other handlers' calls between those are not explored. Updated lists come
from removals only; a client could post one to `/notifications`, and none in
the repository does. The two counts of an ask are one step, as are the two
checks of an answer: the tables only grow, and whatever changes between the two
could also change before or after both. Where the code skips, logs or reads
zero from a failed call, the step has that outcome, which costs one of
`MaxFaults`; `Abort` is a 500, a disconnected client or a crash. The loop visits
recipients in any order. Only asks are answered in the model; the code also
stores an answer to a roster or removal notice, which no rule here reads.

### FLContract

`rows` are the session's contracts, `latest` the number of the one with the
latest `updated_at`, which accepts, carry-forward and session look-ups use. A row is its version (draft or final roster), its roster and each
provider's mark: `signed_at` alone (`marker`, from an accept or carried
forward) or a recorded signature. `BuildContract` reads the marks,
`StoreContract` inserts; `Accept` and `SignContract` read a document,
`StoreMark` and `StoreSignature` write it back. Hashes, keys and which provider
may sign as whom are in `ContractSigning`. In the code a valid signature
covers the hash of its row, so `AllSigned` asks for one recorded on the row.
`VerifyAndIssue` is one step: everything it reads is the document it has loaded
(a key replaced meanwhile only makes it refuse).

### FLOutput

A file is the number of the upload that wrote it. The multipart parts arrive
in any order and may repeat; `OpenModelTemp`, `CopyModel` and `RenameModel` are
the model's way into place, `OpenOutputTemp` and `RenameOutput` the metrics'.
`Refuse` covers every 4xx and 5xx before the rename, `OutputFails` those after
it, `Crash` leaves temporary files behind as the code does; it does not fall
between the rename of the metrics and the 201. A reader is two
steps (`GetOutput`, `ListModels`; `Download`, `OpenModel`). Listing the
directory is taken to be a snapshot; the code's listing could miss a file
renamed while it reads, never report one that is not there. Two submission ids
that sanitise to the same file id are not modelled.

### Attestation

The VM (`Boot`), the services (`Mint`, `RotateKeys`), everybody else (`Forge`)
and time (`Expire`) are external. A service on the allowlist signs what it finds
on the VM, in its own name. Anybody else, the guest included, signs whatever
they like in whosever name they like. What a token claims to be its issuer and
the key it is signed with are two fields, and a key has one owner: that nobody
signs with another's key is all that is assumed of RSA. A replayed, forged,
foreign or outdated token is thus among those a guest may answer with.
`Challenge` makes a nonce, `FetchKeys` reads the unverified issuer and fetches
every key it then publishes, `Verifies` is the rest of `VerifyMAAToken`,
beginning with `SignatureValid`.

## 3. Runs

All runs disable the deadlock check: with the bounded number of requests (or
jobs, uploads, challenges) served, the service waits.

| Run | Instance | Shows |
|---|---|---|
| `signing_overlap` | 2 providers, 2 overlapping requests, 5 requests, 2 generations, expiry, edit, aborts | signatures cover their hash, content is accounted for, runs are fully consented, expiries stay in the requested end, marks belong to runs of this contract, a replaced contract stays replaced, the model implements `ConsentLedger` |
| `signing_sequential` | one request at a time, 6 requests, TEE and SMPC, edits, time 1..3 | unsigned providers are asked, participants match signatures, the gate refuses after a withdrawal, and keeps the confirmed expiries; one of the two providers has no id |
| `job_overlap` | 2 data providers, 1 infra, 2 overlapping requests, 4 requests, aborts | what is final is approved and signed by all; grants only for approved items |
| `job_finalize` | 1 dataset, 1 infra, 2 overlapping requests, 5 requests, 2 generations, a key replaced | a finalized row has its record, an enabled one its signatures |
| `job_serial` | 1 dataset, 2 infras, infra approval required, lookups fail, one request at a time, 6 requests | accepted items are signed; the Audit page shows the current outcome |
| `outcome_settle` | 1 job, 2 polls, 2 crashes, 2 database failures, long runs | one true outcome, last on its trail; a recorded start is settled unless its last watcher failed or gave up |
| `session_lifecycle` | 1 session, 2 direct calls at a time, 3 in all, 2 request ids | only attested instances run, complete sessions ran and have an output, a running VM stays registered, finished sessions change only by termination, every session comes to rest |
| `negotiation` | 2 providers, 2 handlers, 3 notifications brought in by the owner, 1 fault | only providers who declined twice are removed and only who declined is warned, removals are told once; one at a time and without failures: the second decline removes, after a warning, the removed are left alone and everybody else is asked again |
| `fl_contracts` | 2 providers, 2 handlers, 2 contracts, 1 certificate, 1 fault | a certificate names a fully signed roster and is on record before it is handed out, contracts never change, everybody with an id on a roster is asked (one of the two has none); one at a time: nothing signed is lost, accepts reach the roster |
| `output_store` | 2 requests at a time, 3 uploads, 2 rounds, 1 failed write, 1 crash | only whole uploads are visible, metrics have their model, answers never go back, retries repair, no temporary files are left without a crash |
| `attest_vm` | 2 attestations, 2 boots of 2 possible guests, 1 allowed service, 1 other signer, 2 tokens, 2 keys each | verdicts are true, fresh, and each has its own token |

Bounds. Two slots are enough for every two-request race; the lost updates
below appear with two. Five or six requests cover generate, both signatures,
one disturbance and a run (or approve, finalize, change, finalize again). One
session and three direct calls cover a second provision, a termination and a
late attestation around it. Two
generations cover a request that straddles a regeneration. In `outcome_settle`
one job is enough: jobs share only `settleMu` and the process, and the job's
two watchers and two polls contend for the first while crashes and restarts
disturb the second. Three notifications let a provider decline twice and be
asked again; `OverlapBound` restricts overlapping handlers to one provider (one
contract, or one provider on two contracts, in `fl_contracts`), since the
handlers of one session meet only through that provider's rows, and explores
several providers one handler at a time. `MCOneKeyReplaced` lets only the
provider whose signature the job needs replace a key. Three uploads are an upload, a second
one over it and a retry. Two boots, two tokens and two challenges are what a
replay across a reboot needs. Symmetry is used
only over providers, slots and keys the model treats alike, and never with
liveness.
The type invariants (`TypeOK`) of `TEEOutcome`, `FLContract`, `Attestation`,
`FLNegotiation` and `FLOutput` are proved instead of run.

One run refutes a statement of the repository: `lost_withdrawal`.
`consent_withdrawal.go:5` says that after a withdrawal the gate refuses any
further run; a request that loaded the contract before the withdrawal stores
the old signature back, and the contract runs.

Observations of the same kind that have no run of their own.

- Signing. A consent expiry is lost like a withdrawal, and holds at the gate
  only: a run admitted just before it is created up to a minute later
  (`consent_expiry.go:10` says that no run starts); a provider whose party has no
  id is never asked to sign, nor is their row on the Audit page updated
  (`contract_signing.go:153`, `job_participants.go:52`); an edited contract runs,
  since the edit is amended (`job_tee.go:133` says it is never run); an edit may
  move `valid_until` past a consent expiry (`consent_expiry.go:137`), which the
  gate does not look at.
- Job approval. One failed owner lookup stores an infra's rejection under no
  provider id, where no later acceptance replaces it, so the job is never
  approved (`job_approval.go:348`; `:1060` says that all approved and signed
  means approved); an approval recorded between another call's check and its
  insert is turned back into "awaiting" (`job_approval.go:237`); of two
  overlapping approvals one signature may be lost; a data provider's approval
  posts its grants before the job is final (`job_approval.go:31` against
  `:660`).
- Runs. `runTEEJob` starts a job contract that was never enabled
  (`job_tee.go:75` against `:136`); a CreateJob cut off after 60 s records
  `run_failed` for a live run (`db/contract_events.go:19`); one failed database
  call ends a watcher without an outcome (`tee_outcome.go:89`; `job_tee.go:218`
  says the end is recorded even if nobody watches), which is why
  `StartedIsSettled` excuses it.
- TEE. The goroutine of a terminated session goes on and overwrites its status
  (`tee_session.go:271`); a termination removes by id, so it may remove the
  entry of an instance provisioned again meanwhile and leave the VM running
  unregistered (why `RunningVMIsRegistered` asks for distinct request ids), and
  a late attestation puts a terminated instance back (`tee_orchestrator.go:408`,
  `:596`); a verdict outlives a restart of the shared VM; two sessions on one VM
  may read each other's progress and output.
- Negotiation. A provider removed while a request is being sent is invited
  again (`fl_negotiation.go:25`, `db/fl_notifications.go:203` say never);
  overlapping answers may be stored on an older ask; an answer given again
  overwrites the first; the willing list counts answers to requests, not to
  updated lists (`fl_negotiation.go:145`).
- FL contracts. An accept that overlaps a signature on the same row can erase it
  (`db/contracts.go:279`); a signature on an older row makes it the session's
  latest again, so the next build carries its marks forward, and
  `GET /contracts` and `GET /projects` then disagree on the current project
  (`db/contracts.go:346`, `db/projects.go:40`); accepting a roster or removal
  notice marks the contract too (`fl_notifications.go:220`).
- FL output. Two overlapping uploads can leave the metrics of one beside the
  model of the other; a second run with fewer rounds keeps serving the higher
  round of the first.

### Fairness

`TEESession!FairSpec` has weak fairness of the session goroutine's steps only:
it runs detached from the request, its waits have deadlines, and az is assumed
to return. The VM, the enclave and the callers are free to do nothing. In
`TEEOutcome!FairSpec`, goroutines that can run do run (weak
fairness of the run's own steps, the watcher's poll, which retries every 10 s,
and the settle steps); an accepted job ends; a crashed server is started
again. The lock has strong fairness: Go's `sync.Mutex` hands over to a waiter
that has starved for a millisecond, so polls cannot keep it from a watcher.
The UI need not poll. A job may outlast the watch limits, where the code gives
up by design. A job is `abandoned`, and `StartedIsSettled` promises it nothing,
when the last of its watchers in a process gives up or meets a failed database
call, or when a restart resumes none. A poll of the UI that meets a failed call
excuses nothing: the watcher goes on.

## 4. Proofs

TLAPS checks the following for every value of the constants, from the named
assumptions of the modules (`...Assumption`) only; six are about one request slot,
as marked. No theorem needs fairness.

| Module | Theorem | Property |
|---|---|---|
| `ContractSigning` | `TypeCorrect` | `TypeOK` |
| | `SignaturesStay` | `SignaturesCoverHash` |
| | `ContentStays` | `ContentAccountedFor` |
| | `Consented` | `RunsFullyConsented` |
| | `ExpiryStays` | `ExpiryWithinRequestedEnd` |
| | `Regenerated` | `RegeneratedStaysRegenerated` |
| | `EnabledMeansRun` | `TEEEnabledMeansRun` |
| | `Refinement` | `ImplementsLedger` |
| | `WithdrawalHolds` (one slot) | `NoRunAfterWithdrawal` |
| | `ExpiryHolds` (one slot) | `GateKeepsExpiries` |
| | `Asked` (one slot, no aborts) | `UnsignedAreAsked` |
| | `PageMatches` (one slot, no aborts) | `ParticipantsMatchSignatures` |
| `JobApproval` | `TypeCorrect` | `TypeOK` |
| | `FullyApproved` | `FinalFullyApproved` |
| | `Record` | `FinalizedHasRecord` |
| | `Grants` | `GrantsOnlyApproved` |
| | `EnabledSigned` | `EnabledFullySigned` |
| | `AcceptedSigned` (one slot) | `AcceptedAreSigned` |
| | `PageMatches` (one slot, no aborts) | `ParticipantsMatchAudit` |
| `TEEOutcome` | `TypeCorrect` | `TypeOK` |
| | `Once` | `OutcomeOnce` |
| | `Truth` | `OutcomeTrue` |
| `TEESession` | `TypeCorrect` | `TypeOK` |
| | `Attested` | `RunsAttested` |
| | `CompleteMeansRun` | `CompleteWasRun` |
| | `VMRegistered` | `RunningVMIsRegistered` |
| | `Finality` | `FinishedStaysFinished` |
| `FLNegotiation` | `TypeCorrect` | `TypeOK` |
| | `OnlyDecliners` | `OnlyDeclinersSanctioned` |
| | `SecondDeclines` | `SecondDeclineRemoves` |
| | `Announced` | `RemovalIsAnnounced` |
| `FLContract` | `TypeCorrect` | `TypeOK` |
| | `Certificates` | `CertNamesSignedRoster` |
| | `OnlySign` | `WritesOnlySign` |
| | `AcceptSurvives` | `AcceptSurvivesFinalize` |
| `FLOutput` | `TypeCorrect` | `TypeOK` |
| | `WholeUploads` | `OnlyWholeUploads` |
| | `MetricsFollowModel` | `MetricsHaveModel` |
| | `NoAnswerGoesBack` | `AnswersAdvance` |
| | `PairMatches` | `StoredPairMatches` |
| `Attestation` | `TypeCorrect` | `TypeOK` |
| | `TrueVerdicts` | `VerdictsAreTrue` |
| | `FreshVerdicts` | `VerdictsAreFresh` |

`ContractSigning`. None of the safety invariants is inductive alone: a run is created from the
copy a request has held since the gate, and a store writes back a copy loaded
long before. The inductive invariant `IInv` therefore says the same of the row
and of every copy in flight (`GoodDocument`: signatures over its own hash and
given by their provider, governance signature over its hash, content equal to
the hash or amended, consent terms equal, expiries within the requested end),
that a run past the gate holds a document every provider has signed
(`GatePassed`: it stays true since `given` only grows), and
`RunsFullyConsented`. Every action either copies a good document or builds one
from a good document. The refinement follows: only `SignLoad` changes `given`,
only `RunStart` and `RunLost` change `runs`, and `GatePassed` gives the guard
of the ledger's `Run`.

The code promises that the gate admits nothing after a withdrawal or a consent
expiry, and keeps it only while requests on a contract do not overlap: `LostWithdrawal` shows
two that do. The theorems marked "one slot" therefore assume
`OneSlot == \E r : Requests = {r}`, what `SigningSequential` and `JobSerial`
instantiate, and hold for any providers, inputs and number of requests. Their
invariant `CopyInv` says that the copy in flight is of the contract in the row
and differs from it only in what its handler changes (`TakenState`, the expiry
of the caller), so that its store takes back nothing that was confirmed:
`ConfirmedInv`. What a request has still to write after its store is
told from its phase in `PageInv`: until then a participant's status may be
behind (`Unmarked`) and a sign request may be missing. Where a request may die
(`Aborts`) that is what is lost, so `Asked` and `PageMatches` exclude it; the
first two theorems do not.

`JobApproval`. What becomes final was approved by a status call that read the
audit table once and verified signatures afterwards, and approvals, withdrawals
and edits go on in between. `IInv` therefore speaks of things that only grow:
a good signature, in the row or in any request's copy, is one its owner
submitted for that job (`Signs`); an accepted entry was once checked
(`AuditWell`), and what an approval or a status call carries past its reads was
too (`ApprovalWell`, `StatusWell`). A status call needs an accepted entry for
every item it sees, and a job none of whose checks has an entry for some item
must not pass: `AuditComplete` says that once one item of a kind has an entry,
all have (or an entry under no provider id, which is never accepted).
`Recorded` follows the order of `finalizeJob`'s two writes. Which key verified
a signature is not in the invariant: verification is at the status call, and a
key replaced later does not undo it.

A mark of an enabled contract is written long after the signatures were
verified. `EnabledInv` says of the mark, and of every request past that gate
(`Gated`), that the job it is about has been signed by everyone it needs
(`FullySigned`, which stays true); the mark is then safe because the UPDATE names
the contract the gate verified.

With one slot, an approval signs what it accepts before it audits it, and nobody
stores an older copy in between (`SignedInv`); a job not yet generated has no
entries (`NoneBeyond`), so a regeneration starts without an accepted item. The
Audit page is behind the audit table only between an approval's last two writes
(`AgreeInv`). That rests on time: until an approval writes, every entry is older
than its stamp, so its entries become the current ones and its marks are true of
them; the entries it writes for other providers are on items without one,
which nobody has marked.

`TEEOutcome`. Two settles of one job do not both insert an outcome because
the second looks for one under `settleMu`. The invariant says that who is between
lookup and insert holds the lock and nobody else does (`MutexInv`); that what a
settling thread was answered is how the job ended, and that between lookup and
insert the job still has no outcome (`AnswersTrue`); that only jobs past their
`CreateJob` are watched or have an outcome (`WatchedArePast`); and that a watcher
is started in a thread nothing runs in (`ThreadsFree`).

`TEESession`. The gate of a run looks at the instance it holds a pointer to, so
a verdict seen there is never taken back: `GatePassed` and `SessionSteps` carry
it from the gate to the post, and from the session's own attestation to its
completion; `ThreadsWell` says that the pointers exist. The registered VM needs
`LastRegistered`: while request ids differ, the instance allocated last is in
the registry, and no termination that would remove it is past its stop, for as
long as the VM is owned. A finished session has a goroutine with nothing left
to do, so only a `DELETE` writes to it.

`FLNegotiation`. That nobody is warned or removed without the declines it takes
is an invariant under any overlap (`IInv`): a handler about to warn or to remove
has counted declines that are still there, and of several handlers that remove
the same provider only the one whose insert found none goes on to tell
(`ToldOnce`). The other two properties are about handlers that run one at
a time without a failure. Their invariant `CleanInv` says that one handler at
most is in flight and, by its program counter, how far what it still has to do
is from the settled state (`AloneWell`): between handlers the removed are those
with two declines, each was warned, told and left alone, and everybody else was
asked after the last removal; while one is in flight, that holds of all but the
provider it is about.

`FLContract`. A certificate is issued on a row whose marks are all signatures,
so every such mark must have come from `StoreSignature` for that very row, also
those in copies that are still to be written (`SignaturesStored`): a copy is
written back to the row it was read from, and what a new row carries forward is
markers. `RecordedFirst` is what `ReturnCert` relies on. That writing a copy
loses nothing while handlers run one at a time needs `Alone` (no second handler is
in flight) and `CopiesFresh` (so the copy has every mark of its row). Under the
same conditions the second contract is built from every mark of the draft and is
the latest one, and later marks on the draft are not possible (`DraftCarried`);
the handler that stored a final roster asks everybody with an id on it or is still about to
(`RostersAsked`).

`Attestation`. A verdict rests on its token: a token signed with an allowed
service's key says what was on the VM at the boot it names, whatever it claims
(`TokensTrue`), an attestation past its key lookup holds keys of allowed services
only (`IssuerChecked`), so a token that verifies with them was signed by one, and
a token with a nonce
was minted no earlier than the challenge with that nonce
(`TokensFollowChallenge`), which is one attestation's only
(`ChallengesUnique`).

`FLOutput`. Only a complete upload is renamed, and a failed one leaves its
temporary files to the deferred removal of the same request (`UploadsOrdered`,
`UploadsDistinct`, `FilesWhole`, `TempsOwned`). An answer is put together from
two reads with any number of renames in between: `PromisesKept` says that a
round once there is covered by some model for ever, that metrics seen have a
placed model, and that what a reader has seen is not behind what had been
promised when it started. That files of one upload stay together needs
`LastOwns`: while uploads do not overlap, the last one placed owns its round's
model, and once answered the metrics.

Only model-checked: liveness under fairness (`StartedIsSettled`,
`SessionSettles`), which this prover does not reach. Every invariant and every
other action property of the runs that pass has its theorem.

## 5. Not modelled, and the plan

Not modelled: cryptography (ideal); token validation and the token cache of the
Keycloak client (one mutex around all of it); APD, IUDX, catalogue and Azure
clients (inputs); what FL metrics say and who may read them; static tables;
single-statement tables (VM registry, messages, reports); configuration.
`POST /contract` (`general_contract.go`) is left out for another reason: it
gates on the contract its body names, then stores and deploys the document in
the body, and nothing in the repository says which documents those are or how
they relate to the stored one. Each part has its entry in `PROJECT.json`.

Next: a smaller specification of what a job's approval promises (approved by
all, finalised once, enabled after), and a proof that `JobApproval` implements
it, as `ContractSigning` does `ConsentLedger`; the same for the outcome trail
of `TEEOutcome`.
