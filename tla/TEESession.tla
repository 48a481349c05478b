------------------------------ MODULE TEESession ------------------------------
(***************************************************************************)
(* The TEE orchestrator and its sessions.                                  *)
(*                                                                         *)
(* The primitives provision, attest, run and terminate work on instances,  *)
(* which a registry maps from TEE ids, and on one confidential VM that     *)
(* backs them all.  A session is a goroutine that calls the primitives one *)
(* after the other; direct calls and DELETEs of a session run beside it.   *)
(* Both registries are in memory: a restarted server is in Init, whatever  *)
(* the VM is doing.  The contract gate is in ContractSigning: here it may  *)
(* refuse.                                                                 *)
(***************************************************************************)
EXTENDS Naturals, Sequences, FiniteSets

CONSTANTS
    Sessions,             \* sessions that may be started
    Calls,                \* direct calls in flight
    TEEIDs,               \* request ids of contracts
    None,                 \* no TEE, no session
    AttestationRequired,  \* TEE_ATTESTATION_REQUIRED
    MaxCalls              \* direct calls altogether

ASSUME SessionAssumption ==
    /\ Sessions \cap Calls = {} /\ None \notin Sessions \cup TEEIDs
    /\ AttestationRequired \in BOOLEAN /\ MaxCalls \in Nat

VARIABLES
    sess,       \* teeSessions: status, TEE id and whether there is an output
    insts,      \* every teeInstance allocated; a pointer is an index
    tees,       \* the TEE registry: a pointer for each id, 0 if there is none
    thread,     \* session goroutines and direct calls
    vm,         \* the VM and the progress its enclave manager reports
    calls,      \* direct calls made
    owned,      \* history: a provision ended with the VM on, and none stopped it since
    runs        \* history: instances the enclave accepted a run for

vars == <<sess, insts, tees, thread, vm, calls, owned, runs>>

Threads == Sessions \cup Calls
Finished == {"complete", "failed", "terminated"}
Statuses == {"none", "provisioning", "attesting", "running"} \cup Finished
On == {"booting", "idle", "running", "done"}
Reachable == On \ {"booting"}

Session(status, tee, output) == [status |-> status, tee |-> tee, output |-> output]
Instance(tee, verdict) == [tee |-> tee, verdict |-> verdict]
Thread(pc, tee, inst, s) == [pc |-> pc, tee |-> tee, inst |-> inst, sess |-> s]
Off == Thread("off", None, 0, None)

Init ==
    /\ sess = [s \in Sessions |-> Session("none", None, FALSE)]
    /\ insts = <<>>
    /\ tees = [t \in TEEIDs |-> 0]
    /\ thread = [p \in Threads |-> Off]
    /\ vm \in {"stopped"} \cup On
    /\ calls = 0
    /\ owned = FALSE
    /\ runs = {}

Goto(p, pc) == thread' = [thread EXCEPT ![p].pc = pc]

\* A primitive returns: a direct call is answered, a session goes on.
Return(p, pc) ==
    IF p \in Calls THEN thread' = [thread EXCEPT ![p] = Off] ELSE Goto(p, pc)

put(i, t) == tees' = [tees EXCEPT ![t] = i]

(***************************************************************************)
(* The VM and its enclave manager                                          *)
(***************************************************************************)
EnclaveReady ==
    /\ vm = "booting" /\ vm' = "idle"
    /\ UNCHANGED <<sess, insts, tees, thread, calls, owned, runs>>

EnclaveDone ==
    /\ vm = "running" /\ vm' = "done"
    /\ UNCHANGED <<sess, insts, tees, thread, calls, owned, runs>>

\* az vm start is idempotent, and may fail after it has started the VM.
VMStarted == vm' = IF vm = "stopped" THEN "booting" ELSE vm

(***************************************************************************)
(* doProvisionTEE                                                          *)
(***************************************************************************)
StartVM(p) ==
    /\ thread[p].pc = "start"
    /\ VMStarted
    /\ Goto(p, "wait") \/ Return(p, "error")
    /\ UNCHANGED <<sess, insts, tees, calls, owned, runs>>

\* An invalid or unsigned contract, or az fails before the VM is started.
ProvisionRefused(p) ==
    /\ thread[p].pc = "start"
    /\ Return(p, "error")
    /\ UNCHANGED <<sess, insts, tees, vm, calls, owned, runs>>

\* WaitForEnclaveManager: an answer, or TEEStartTimeout, which leaves the VM on.
WaitForEnclaveManager(p) ==
    /\ thread[p].pc = "wait"
    /\ \/ vm \in Reachable /\ Goto(p, "put")
       \/ Return(p, "error")
    /\ UNCHANGED <<sess, insts, tees, vm, calls, owned, runs>>

PutInstance(p) ==
    /\ thread[p].pc = "put"
    /\ insts' = Append(insts, Instance(thread[p].tee, "none"))
    /\ put(Len(insts'), thread[p].tee)
    /\ thread' = [thread EXCEPT ![p] = IF p \in Calls THEN Off
                                       ELSE Thread("provisioned", @.tee, Len(insts'), None)]
    /\ owned' = (vm \in On)
    /\ UNCHANGED <<sess, vm, calls, runs>>

(***************************************************************************)
(* doAttestTEE.  The challenge, and the verification of the token it       *)
(* returns, may fail in many ways, all with the same effect.               *)
(***************************************************************************)
Challenge(p) ==
    /\ thread[p].pc = "attest"
    /\ \/ vm \in Reachable /\ Goto(p, "verdict")
       \/ Return(p, "error")
    /\ UNCHANGED <<sess, insts, tees, vm, calls, owned, runs>>

\* The verdict is recorded and the instance put in the registry again, also
\* if it was terminated meanwhile.
RecordVerdict(p) ==
    /\ thread[p].pc = "verdict"
    /\ insts' = [insts EXCEPT ![thread[p].inst] = Instance(@.tee, "fresh")]
    /\ put(thread[p].inst, insts[thread[p].inst].tee)
    /\ Return(p, "attested")
    /\ UNCHANGED <<sess, vm, calls, owned, runs>>

\* TEEAttestationTTL passes.
VerdictExpires(i) ==
    /\ insts[i].verdict = "fresh"
    /\ insts' = [insts EXCEPT ![i] = Instance(@.tee, "expired")]
    /\ UNCHANGED <<sess, tees, thread, vm, calls, owned, runs>>

(***************************************************************************)
(* doRunTEE                                                                *)
(***************************************************************************)
\* Mutant of attestationFresh: a missing verdict is taken for a fresh one.
NotExpired(i) == insts[i].verdict # "expired"

attestationFresh(i) == insts[i].verdict = "fresh"

RunGate(p) ==
    /\ thread[p].pc = "gate"
    /\ IF AttestationRequired /\ ~attestationFresh(thread[p].inst)
       THEN Return(p, "error") ELSE Goto(p, "post")
    /\ UNCHANGED <<sess, insts, tees, vm, calls, owned, runs>>

\* The enclave accepts the run; the answer may still be lost.
RunAccepted(p) ==
    /\ thread[p].pc = "post" /\ vm \in Reachable
    /\ vm' = "running"
    /\ runs' = runs \cup {thread[p].inst}
    /\ Return(p, "poll") \/ Return(p, "error")
    /\ UNCHANGED <<sess, insts, tees, calls, owned>>

\* Mutant of RunRejected: the answer's status is not looked at.
RejectionIgnored(p) ==
    /\ thread[p].pc = "post"
    /\ Return(p, "poll")
    /\ UNCHANGED <<sess, insts, tees, vm, calls, owned, runs>>

RunRejected(p) ==
    /\ thread[p].pc = "post"
    /\ Return(p, "error")
    /\ UNCHANGED <<sess, insts, tees, vm, calls, owned, runs>>

(***************************************************************************)
(* doTerminateTEE.  The registry entry is removed by id.                   *)
(***************************************************************************)
StopVM(p) ==
    /\ thread[p].pc = "stop"
    /\ vm' = "stopped" /\ owned' = FALSE
    /\ Goto(p, "delete") \/ Return(p, "error")
    /\ UNCHANGED <<sess, insts, tees, calls, runs>>

\* Mutant of StopVMFailed: the entry is removed although the VM is still on.
StopFailedForgets(p) ==
    /\ thread[p].pc = "stop"
    /\ Goto(p, "delete")
    /\ UNCHANGED <<sess, insts, tees, vm, calls, owned, runs>>

StopVMFailed(p) ==
    /\ thread[p].pc = "stop"
    /\ Return(p, "error")
    /\ UNCHANGED <<sess, insts, tees, vm, calls, owned, runs>>

Delete(p) ==
    /\ thread[p].pc = "delete"
    /\ put(0, insts[thread[p].inst].tee)
    /\ IF thread[p].sess = None THEN Return(p, "off") ELSE Goto(p, "mark")
    /\ UNCHANGED <<sess, insts, vm, calls, owned, runs>>

(***************************************************************************)
(* Direct calls                                                            *)
(***************************************************************************)
Begin(c) == c \in Calls /\ thread[c] = Off /\ calls < MaxCalls /\ calls' = calls + 1

ProvisionTEE(c, t) ==
    /\ Begin(c)
    /\ thread' = [thread EXCEPT ![c] = Thread("start", t, 0, None)]
    /\ UNCHANGED <<sess, insts, tees, vm, owned, runs>>

\* attestTEE, runTEE and terminateTEE, after lookupTEE.
TEECall(c, t) ==
    /\ Begin(c) /\ tees[t] # 0
    /\ \E pc \in {"attest", "gate", "stop"} :
         thread' = [thread EXCEPT ![c] = Thread(pc, None, tees[t], None)]
    /\ UNCHANGED <<sess, insts, tees, vm, owned, runs>>

TerminateTEESession(c, s) ==
    /\ Begin(c) /\ sess[s].tee # None
    /\ tees[sess[s].tee] # 0
    /\ thread' = [thread EXCEPT ![c] = Thread("stop", None, tees[sess[s].tee], s)]
    /\ UNCHANGED <<sess, insts, tees, vm, owned, runs>>

MarkTerminated(c) ==
    /\ thread[c].pc = "mark"
    /\ sess' = [sess EXCEPT ![thread[c].sess].status = "terminated"]
    /\ Return(c, "off")
    /\ UNCHANGED <<insts, tees, vm, calls, owned, runs>>

(***************************************************************************)
(* Sessions.  Each update is under the registry's lock and looks at        *)
(* nothing of what it overwrites.                                          *)
(***************************************************************************)
StartTEESession(s, t) ==
    /\ thread[s] = Off /\ sess[s].status = "none"
    /\ sess' = [sess EXCEPT ![s].status = "provisioning"]
    /\ thread' = [thread EXCEPT ![s] = Thread("start", t, 0, None)]
    /\ UNCHANGED <<insts, tees, vm, calls, owned, runs>>

SessionAttesting(s) ==
    /\ thread[s].pc = "provisioned"
    /\ sess' = [sess EXCEPT ![s] = Session("attesting", thread[s].tee, @.output)]
    /\ Goto(s, "attest")
    /\ UNCHANGED <<insts, tees, vm, calls, owned, runs>>

SessionRunning(s) ==
    /\ thread[s].pc = "attested"
    /\ sess' = [sess EXCEPT ![s].status = "running"]
    /\ Goto(s, "gate")
    /\ UNCHANGED <<insts, tees, vm, calls, owned, runs>>

\* waitForCompletion: the manager reports its last step ...
PollDone(s) ==
    /\ thread[s].pc = "poll" /\ vm = "done"
    /\ Goto(s, "fetch")
    /\ UNCHANGED <<sess, insts, tees, vm, calls, owned, runs>>

\* Mutant of PollExpired: there is no ceiling.
PollForever(s) == FALSE

\* ... or ten times TEEOutputTimeout has passed.
PollExpired(s) ==
    /\ thread[s].pc = "poll"
    /\ Goto(s, "error")
    /\ UNCHANGED <<sess, insts, tees, vm, calls, owned, runs>>

\* doFetchOutput
FetchOutput(s) ==
    /\ thread[s].pc = "fetch"
    /\ \/ vm \in Reachable /\ Goto(s, "fetched")
       \/ Goto(s, "error")
    /\ UNCHANGED <<sess, insts, tees, vm, calls, owned, runs>>

SessionComplete(s) ==
    /\ thread[s].pc = "fetched"
    /\ sess' = [sess EXCEPT ![s] = Session("complete", @.tee, TRUE)]
    /\ Goto(s, "off")
    /\ UNCHANGED <<insts, tees, vm, calls, owned, runs>>

\* Mutant of FailSession: the goroutine goes on after recording a failure.
FailAndContinue(s) ==
    /\ thread[s].pc = "error"
    /\ sess' = [sess EXCEPT ![s].status = "failed"]
    /\ Goto(s, "fetch")
    /\ UNCHANGED <<insts, tees, vm, calls, owned, runs>>

\* Mutant of FailSession: the failed step becomes the status.
FailWithStep(s) ==
    /\ thread[s].pc = "error"
    /\ sess' = [sess EXCEPT ![s].status = "provision"]
    /\ Goto(s, "off")
    /\ UNCHANGED <<insts, tees, vm, calls, owned, runs>>

\* failSession, and the goroutine returns.
FailSession(s) ==
    /\ thread[s].pc = "error"
    /\ sess' = [sess EXCEPT ![s].status = "failed"]
    /\ Goto(s, "off")
    /\ UNCHANGED <<insts, tees, vm, calls, owned, runs>>

Primitive(p) ==
    \/ StartVM(p) \/ ProvisionRefused(p) \/ WaitForEnclaveManager(p) \/ PutInstance(p)
    \/ Challenge(p) \/ RecordVerdict(p)
    \/ RunGate(p) \/ RunAccepted(p) \/ RunRejected(p)

RunTEESession(s) ==
    \/ Primitive(s)
    \/ SessionAttesting(s) \/ SessionRunning(s)
    \/ PollDone(s) \/ PollExpired(s) \/ FetchOutput(s)
    \/ SessionComplete(s) \/ FailSession(s)

Call(c) ==
    \/ Primitive(c)
    \/ StopVM(c) \/ StopVMFailed(c) \/ Delete(c) \/ MarkTerminated(c)

Next ==
    \/ \E s \in Sessions, t \in TEEIDs : StartTEESession(s, t)
    \/ \E s \in Sessions : RunTEESession(s)
    \/ \E c \in Calls : Call(c)
    \/ \E c \in Calls, t \in TEEIDs : ProvisionTEE(c, t) \/ TEECall(c, t)
    \/ \E c \in Calls, s \in Sessions : TerminateTEESession(c, s)
    \/ \E i \in DOMAIN insts : VerdictExpires(i)
    \/ EnclaveReady \/ EnclaveDone

Spec == Init /\ [][Next]_vars

(***************************************************************************)
(* A session's goroutine is detached from the request that started it and  *)
(* is never cancelled; its waits have deadlines and az is taken to return. *)
(* Nothing is assumed of the enclave, of azure or of the callers.          *)
(***************************************************************************)
Fairness == \A s \in Sessions : WF_vars(RunTEESession(s))

FairSpec == Spec /\ Fairness

(***************************************************************************)
(* Properties                                                              *)
(***************************************************************************)
SessionType == [status : Statuses, tee : TEEIDs \cup {None}, output : BOOLEAN]
InstanceType == [tee : TEEIDs, verdict : {"none", "fresh", "expired"}]
ThreadType ==
    [pc : {"off", "start", "wait", "put", "provisioned", "attest", "verdict", "attested",
           "gate", "post", "poll", "fetch", "fetched", "error", "stop", "delete", "mark"},
     tee : TEEIDs \cup {None}, inst : 0..Len(insts), sess : Sessions \cup {None}]

\* The type invariant.
TypeOK ==
    /\ sess \in [Sessions -> SessionType]
    /\ insts \in Seq(InstanceType)
    /\ tees \in [TEEIDs -> 0..Len(insts)]
    /\ thread \in [Threads -> ThreadType]
    /\ vm \in {"stopped"} \cup On
    /\ calls \in 0..MaxCalls
    /\ owned \in BOOLEAN
    /\ runs \subseteq DOMAIN insts

\* No workload reaches the enclave for an instance that never got a verdict,
\* by a session or by direct calls racing it (doRunTEE's gate).
RunsAttested ==
    AttestationRequired => \A i \in runs : insts[i].verdict # "none"

\* A session reported complete has an output, which getTEESessionOutput
\* dereferences, and the enclave had accepted the run of its own attested
\* instance.
CompleteWasRun ==
    \A s \in Sessions : sess[s].status = "complete" =>
        /\ sess[s].output
        /\ thread[s].inst \in runs
        /\ insts[thread[s].inst].verdict # "none"

\* A VM that a provision brought up, and that is still on, can be terminated
\* through the registry, however provisions, late attestations and
\* terminations overlap, while no request id is provisioned twice.
RunningVMIsRegistered ==
    (owned /\ vm \in On /\ \A i, k \in DOMAIN insts : insts[i].tee = insts[k].tee => i = k)
        => \E t \in TEEIDs : tees[t] # 0

\* A complete or failed session changes only by being terminated, and keeps
\* its output.
FinishedStaysFinished ==
    [][\A s \in Sessions : sess[s].status \in {"complete", "failed"} =>
          sess'[s] = sess[s] \/ sess'[s] = [sess[s] EXCEPT !.status = "terminated"]]_vars

\* Every session that was started comes to rest: complete, failed or
\* terminated, whatever the VM, the enclave and other callers do.
SessionSettles ==
    \A s \in Sessions : sess[s].status = "provisioning" ~> [](sess[s].status \in Finished)
===============================================================================
