--------------------------- MODULE TEESessionProofs ---------------------------
(***************************************************************************)
(* Proofs about TEESession, for any number of sessions, direct calls and   *)
(* request ids.                                                            *)
(***************************************************************************)
EXTENDS TEESession, SequenceTheorems, TLAPS

(***************************************************************************)
(* The inductive invariant                                                 *)
(***************************************************************************)
\* A thread that names an instance, a request id or a session has one.
WellThread(p) ==
    /\ thread[p].pc \in {"start", "wait", "put", "provisioned"} => thread[p].tee # None
    /\ thread[p].pc \in {"provisioned", "attest", "verdict", "attested", "gate", "post",
                         "poll", "fetch", "fetched", "stop", "delete", "mark"} =>
          thread[p].inst # 0
    /\ thread[p].pc = "mark" => thread[p].sess # None

ThreadsWell == \A p \in Threads : WellThread(p)

\* Past the gate there was a verdict.
GatePassed ==
    AttestationRequired => \A p \in Threads :
        thread[p].pc = "post" => insts[thread[p].inst].verdict # "none"

\* A session attests, then runs, then is reported, and then does nothing.
InOrder(s) ==
    /\ thread[s].pc \in {"attested", "gate", "post", "poll", "fetch", "fetched"} =>
          insts[thread[s].inst].verdict # "none"
    /\ thread[s].pc \in {"poll", "fetch", "fetched"} => thread[s].inst \in runs
    /\ sess[s].status \in {"complete", "failed"} => thread[s].pc = "off"

SessionSteps == \A s \in Sessions : InOrder(s)

\* While no request id is provisioned twice, the last instance is registered,
\* and nobody is about to remove it, for as long as the VM is owned.
DistinctIDs == \A i, k \in DOMAIN insts : insts[i].tee = insts[k].tee => i = k

LastRegistered ==
    (owned /\ DistinctIDs) =>
        /\ Len(insts) # 0
        /\ tees[insts[Len(insts)].tee] = Len(insts)
        /\ \A p \in Threads : thread[p].pc = "delete" => thread[p].inst # Len(insts)

IInv ==
    /\ TypeOK /\ ThreadsWell /\ GatePassed /\ SessionSteps /\ LastRegistered
    /\ RunsAttested /\ CompleteWasRun

(***************************************************************************)
(* The records                                                             *)
(***************************************************************************)
LEMMA InstsFacts ==
    ASSUME TypeOK
    PROVE  /\ Len(insts) \in Nat /\ DOMAIN insts = 1..Len(insts)
           /\ \A i \in 0..Len(insts) : i # 0 => i \in DOMAIN insts
           /\ \A i \in DOMAIN insts : insts[i] \in InstanceType
<1>1. insts \in Seq(InstanceType)
  BY DEF TypeOK
<1>2. Len(insts) \in Nat /\ DOMAIN insts = 1..Len(insts)
  BY <1>1, LenProperties
<1>3. \A i \in 0..Len(insts) : i # 0 => i \in DOMAIN insts
  BY <1>2
<1>4. \A i \in DOMAIN insts : insts[i] \in InstanceType
  BY <1>1, ElementOfSeq, <1>2
<1> QED
  BY <1>2, <1>3, <1>4

LEMMA ThreadFacts ==
    ASSUME NEW pc \in {"off", "start", "provisioned", "attest", "gate", "stop"},
           NEW t \in TEEIDs \cup {None}, NEW i \in 0..Len(insts), NEW s \in Sessions \cup {None}
    PROVE  LET h == Thread(pc, t, i, s) IN
           h \in ThreadType /\ h.pc = pc /\ h.tee = t /\ h.inst = i /\ h.sess = s
  BY DEF Thread, ThreadType

LEMMA OffFacts == TypeOK => Off \in ThreadType /\ Off.pc = "off"
<1> SUFFICES ASSUME TypeOK PROVE Off \in ThreadType /\ Off.pc = "off"
  OBVIOUS
<1>1. 0 \in 0..Len(insts)
  BY InstsFacts
<1> QED
  BY <1>1, ThreadFacts DEF Off

LEMMA SessionFacts ==
    ASSUME NEW status \in Statuses, NEW t \in TEEIDs \cup {None}, NEW out \in BOOLEAN
    PROVE  LET x == Session(status, t, out) IN
           x \in SessionType /\ x.status = status /\ x.tee = t /\ x.output = out
  BY DEF Session, SessionType

\* A thread is given a new state.
LEMMA SetEffect ==
    ASSUME TypeOK, NEW p \in Threads, NEW h \in ThreadType, thread' = [thread EXCEPT ![p] = h]
    PROVE  /\ thread' \in [Threads -> ThreadType] /\ thread'[p] = h
           /\ \A q \in Threads : q = p \/ thread'[q] = thread[q]
  BY DEF TypeOK

\* A thread goes on, to pc, with what it knows.
Goes(p, pc) ==
    /\ thread' \in [Threads -> ThreadType]
    /\ thread'[p].pc = pc
    /\ thread'[p].tee = thread[p].tee /\ thread'[p].inst = thread[p].inst
    /\ thread'[p].sess = thread[p].sess
    /\ \A q \in Threads : q = p \/ thread'[q] = thread[q]

\* A thread ends.
Ends(p) ==
    /\ thread' \in [Threads -> ThreadType]
    /\ thread'[p].pc = "off"
    /\ \A q \in Threads : q = p \/ thread'[q] = thread[q]

PCs == {"off", "start", "wait", "put", "provisioned", "attest", "verdict", "attested",
        "gate", "post", "poll", "fetch", "fetched", "error", "stop", "delete", "mark"}

LEMMA GotoEffect ==
    ASSUME TypeOK, NEW p \in Threads, NEW pc \in PCs, Goto(p, pc)
    PROVE  Goes(p, pc)
  BY DEF Goto, Goes, TypeOK, ThreadType, PCs

LEMMA ReturnEffect ==
    ASSUME TypeOK, NEW p \in Threads, NEW pc \in PCs, Return(p, pc)
    PROVE  (p \in Calls /\ Ends(p)) \/ (p \notin Calls /\ Goes(p, pc))
<1>1. CASE p \in Calls
  BY <1>1, SetEffect, OffFacts DEF Return, Ends
<1>2. CASE p \notin Calls
  BY <1>2, GotoEffect DEF Return
<1> QED
  BY <1>1, <1>2

(***************************************************************************)
(* What each step does                                                     *)
(***************************************************************************)
\* A step that only moves its thread, to where it may then be.
Moves(p, pc) ==
    \/ pc = "error" \/ pc = "off"
    \/ thread[p].pc = "start" /\ pc = "wait"
    \/ thread[p].pc = "wait" /\ pc = "put"
    \/ thread[p].pc = "attest" /\ pc = "verdict"
    \/ thread[p].pc = "gate" /\ pc = "post"
       /\ (AttestationRequired => insts[thread[p].inst].verdict # "none")
    \/ thread[p].pc = "stop" /\ pc = "delete" /\ owned' = FALSE
    \/ thread[p].pc = "poll" /\ pc = "fetch"
    \/ thread[p].pc = "fetch" /\ pc = "fetched"

MoveStep(p) ==
    \/ StartVM(p) \/ ProvisionRefused(p) \/ WaitForEnclaveManager(p) \/ Challenge(p)
    \/ RunGate(p) \/ RunRejected(p) \/ StopVM(p) \/ StopVMFailed(p)
    \/ p \in Sessions /\ (PollDone(p) \/ PollExpired(p) \/ FetchOutput(p))

LEMMA MoveEffect ==
    ASSUME TypeOK, NEW p \in Threads, MoveStep(p)
    PROVE  /\ UNCHANGED <<sess, insts, tees, calls, runs>>
           /\ owned' \in BOOLEAN /\ (owned' => owned) /\ vm' \in {"stopped"} \cup On
           /\ thread[p].pc # "off"
           /\ Ends(p) \/ \E pc \in PCs : Goes(p, pc) /\ Moves(p, pc)
<1>1. /\ UNCHANGED <<sess, insts, tees, calls, runs>>
      /\ owned' \in BOOLEAN /\ (owned' => owned) /\ vm' \in {"stopped"} \cup On
      /\ thread[p].pc # "off"
  <2>1. UNCHANGED <<sess, insts, tees, calls, runs>> /\ thread[p].pc # "off"
    BY DEF MoveStep, StartVM, ProvisionRefused, WaitForEnclaveManager, Challenge, RunGate,
       RunRejected, StopVM, StopVMFailed, PollDone, PollExpired, FetchOutput
  <2>2. owned' = owned \/ owned' = FALSE
    BY DEF MoveStep, StartVM, ProvisionRefused, WaitForEnclaveManager, Challenge, RunGate,
       RunRejected, StopVM, StopVMFailed, PollDone, PollExpired, FetchOutput
  <2>3. vm' = vm \/ vm' = "stopped" \/ vm' = "booting"
    BY DEF MoveStep, StartVM, ProvisionRefused, WaitForEnclaveManager, Challenge, RunGate,
       RunRejected, StopVM, StopVMFailed, PollDone, PollExpired, FetchOutput, VMStarted
  <2>4. owned' \in BOOLEAN /\ (owned' => owned)
    <3>1. owned \in BOOLEAN
      BY DEF TypeOK
    <3>2. CASE owned' = owned
      BY <3>1, <3>2, Zenon
    <3>3. CASE owned' = FALSE
      BY <3>3, Zenon
    <3> QED
      BY <2>2, <3>2, <3>3
  <2>5. vm' \in {"stopped"} \cup On
    BY <2>3 DEF TypeOK, On
  <2> QED
    BY <2>1, <2>4, <2>5
<1>2. ASSUME NEW pc \in PCs, Goto(p, pc) \/ Return(p, pc), Moves(p, pc)
      PROVE  Ends(p) \/ \E q \in PCs : Goes(p, q) /\ Moves(p, q)
  BY <1>2, GotoEffect, ReturnEffect
<1> DEFINE Done == \E pc \in PCs : (Goto(p, pc) \/ Return(p, pc)) /\ Moves(p, pc)
<1>3. CASE StartVM(p) \/ ProvisionRefused(p) \/ WaitForEnclaveManager(p) \/ Challenge(p)
  <2>1. Done
    BY <1>3 DEF StartVM, ProvisionRefused, WaitForEnclaveManager, Challenge, Moves, PCs
  <2> QED
    BY <1>1, <1>2, <2>1
<1>4. CASE RunGate(p) \/ RunRejected(p)
  <2>1. Done
    BY <1>4 DEF RunGate, RunRejected, attestationFresh, Moves, PCs
  <2> QED
    BY <1>1, <1>2, <2>1
<1>5. CASE StopVM(p) \/ StopVMFailed(p)
  <2>1. Done
    BY <1>5 DEF StopVM, StopVMFailed, Moves, PCs
  <2> QED
    BY <1>1, <1>2, <2>1
<1>6. CASE p \in Sessions /\ (PollDone(p) \/ PollExpired(p) \/ FetchOutput(p))
  <2>1. Done
    BY <1>6 DEF PollDone, PollExpired, FetchOutput, Moves, PCs
  <2> QED
    BY <1>1, <1>2, <2>1
<1> QED
  BY <1>3, <1>4, <1>5, <1>6 DEF MoveStep

LEMMA PutEffect ==
    ASSUME TypeOK, ThreadsWell, NEW p \in Threads, PutInstance(p)
    PROVE  LET n == Len(insts) + 1
               t == thread[p].tee IN
           /\ UNCHANGED <<sess, vm, calls, runs>> /\ owned' \in BOOLEAN
           /\ n \in Nat /\ t \in TEEIDs
           /\ insts' \in Seq(InstanceType) /\ Len(insts') = n /\ insts'[n].tee = t
           /\ \A i \in DOMAIN insts : insts'[i] = insts[i]
           /\ tees' = [tees EXCEPT ![t] = n]
           /\ thread[p].pc = "put" /\ thread' \in [Threads -> ThreadType']
           /\ \/ thread'[p].pc = "off"
              \/ /\ thread'[p].pc = "provisioned"
                 /\ thread'[p].inst = n /\ thread'[p].tee # None
           /\ \A q \in Threads : q = p \/ thread'[q] = thread[q]
<1> DEFINE n == Len(insts) + 1
           t == thread[p].tee
           x == Instance(t, "none")
           h == IF p \in Calls THEN Off ELSE Thread("provisioned", t, n, None)
<1>1. /\ UNCHANGED <<sess, vm, calls, runs>> /\ owned' \in BOOLEAN
      /\ thread[p].pc = "put" /\ insts' = Append(insts, x)
      /\ tees' = [tees EXCEPT ![t] = Len(insts')]
      /\ thread' = [thread EXCEPT ![p] =
            IF p \in Calls THEN Off ELSE Thread("provisioned", t, Len(insts'), None)]
  BY DEF PutInstance, put
<1>2. t \in TEEIDs /\ t # None
  BY <1>1 DEF ThreadsWell, WellThread, TypeOK, ThreadType
<1>3. x \in InstanceType /\ x.tee = t
  BY <1>2 DEF Instance, InstanceType
<1> HIDE DEF x
<1>4. Len(insts) \in Nat /\ insts \in Seq(InstanceType) /\ DOMAIN insts = 1..Len(insts)
  BY InstsFacts DEF TypeOK
<1>5. /\ insts' \in Seq(InstanceType) /\ Len(insts') = n /\ insts'[n] = x
      /\ \A i \in 1..Len(insts) : insts'[i] = insts[i]
  BY <1>1, <1>3, <1>4, AppendProperties
<1>6. /\ h \in ThreadType'
      /\ h.pc = "off" \/ (h.pc = "provisioned" /\ h.inst = n /\ h.tee = t)
  BY <1>2, <1>4, <1>5 DEF Thread, Off, ThreadType
<1>7. thread' = [thread EXCEPT ![p] = h]
  BY <1>1, <1>5
<1> HIDE DEF h
<1>8. thread \in [Threads -> ThreadType']
  BY <1>4, <1>5 DEF TypeOK, ThreadType
<1>9. /\ thread' \in [Threads -> ThreadType'] /\ thread'[p] = h
      /\ \A q \in Threads : q = p \/ thread'[q] = thread[q]
  BY <1>7, <1>8, <1>6
<1> QED
  BY <1>1, <1>2, <1>3, <1>4, <1>5, <1>6, <1>9

LEMMA VerdictEffect ==
    ASSUME TypeOK, NEW i \in DOMAIN insts, NEW v \in {"fresh", "expired"},
           insts' = [insts EXCEPT ![i] = Instance(insts[i].tee, v)]
    PROVE  /\ insts' \in Seq(InstanceType) /\ Len(insts') = Len(insts)
           /\ DOMAIN insts' = DOMAIN insts /\ ThreadType' = ThreadType
           /\ \A k \in DOMAIN insts :
                 /\ insts'[k].tee = insts[k].tee
                 /\ insts[k].verdict # "none" => insts'[k].verdict # "none"
           /\ insts'[i].verdict # "none"
<1> DEFINE x == Instance(insts[i].tee, v)
<1>1. x \in InstanceType /\ x.tee = insts[i].tee /\ x.verdict = v
  BY InstsFacts DEF Instance, InstanceType
<1> HIDE DEF x
<1>2. insts' = [insts EXCEPT ![i] = x] /\ insts \in Seq(InstanceType) /\ i \in 1..Len(insts)
  BY InstsFacts DEF x, TypeOK
<1>3. /\ insts' \in Seq(InstanceType) /\ Len(insts') = Len(insts)
      /\ insts'[i] = x /\ \A k \in 1..Len(insts) : k = i \/ insts'[k] = insts[k]
  BY <1>1, <1>2, ExceptSeq
<1>4. DOMAIN insts' = DOMAIN insts /\ ThreadType' = ThreadType
  BY <1>2, <1>3 DEF ThreadType
<1> QED
  BY <1>1, <1>2, <1>3, <1>4, InstsFacts

LEMMA RecordEffect ==
    ASSUME TypeOK, ThreadsWell, NEW p \in Threads, RecordVerdict(p)
    PROVE  LET i == thread[p].inst IN
           /\ UNCHANGED <<sess, vm, calls, owned, runs>>
           /\ i \in DOMAIN insts /\ insts[i].tee \in TEEIDs
           /\ insts' \in Seq(InstanceType) /\ Len(insts') = Len(insts)
           /\ DOMAIN insts' = DOMAIN insts /\ ThreadType' = ThreadType
           /\ \A k \in DOMAIN insts :
                 /\ insts'[k].tee = insts[k].tee
                 /\ insts[k].verdict # "none" => insts'[k].verdict # "none"
           /\ insts'[i].verdict # "none"
           /\ tees' = [tees EXCEPT ![insts[i].tee] = i]
           /\ thread[p].pc = "verdict" /\ (Ends(p) \/ Goes(p, "attested"))
<1> DEFINE i == thread[p].inst
<1>1. /\ UNCHANGED <<sess, vm, calls, owned, runs>>
      /\ thread[p].pc = "verdict" /\ Return(p, "attested")
      /\ insts' = [insts EXCEPT ![i] = Instance(insts[i].tee, "fresh")]
      /\ tees' = [tees EXCEPT ![insts[i].tee] = i]
  BY DEF RecordVerdict, put
<1>2. i # 0 /\ i \in 0..Len(insts)
  BY <1>1 DEF ThreadsWell, WellThread, TypeOK, ThreadType
<1>3. i \in DOMAIN insts /\ insts[i].tee \in TEEIDs
  BY <1>2, InstsFacts DEF InstanceType
<1>4. Ends(p) \/ Goes(p, "attested")
  BY <1>1, ReturnEffect DEF PCs
<1> QED
  BY <1>1, <1>3, <1>4, VerdictEffect

LEMMA AcceptEffect ==
    ASSUME TypeOK, ThreadsWell, NEW p \in Threads, RunAccepted(p)
    PROVE  /\ UNCHANGED <<sess, insts, tees, calls, owned>> /\ vm' = "running"
           /\ thread[p].inst \in DOMAIN insts /\ runs' = runs \cup {thread[p].inst}
           /\ thread[p].pc = "post" /\ (Ends(p) \/ Goes(p, "poll") \/ Goes(p, "error"))
<1>1. /\ UNCHANGED <<sess, insts, tees, calls, owned>> /\ vm' = "running"
      /\ thread[p].pc = "post" /\ runs' = runs \cup {thread[p].inst}
      /\ Return(p, "poll") \/ Return(p, "error")
  BY DEF RunAccepted
<1>2. thread[p].inst # 0 /\ thread[p].inst \in 0..Len(insts)
  BY <1>1 DEF ThreadsWell, WellThread, TypeOK, ThreadType
<1>3. Ends(p) \/ Goes(p, "poll") \/ Goes(p, "error")
  BY <1>1, ReturnEffect DEF PCs
<1> QED
  BY <1>1, <1>2, <1>3, InstsFacts

LEMMA DeleteEffect ==
    ASSUME TypeOK, ThreadsWell, NEW p \in Threads, Delete(p)
    PROVE  LET i == thread[p].inst IN
           /\ UNCHANGED <<sess, insts, vm, calls, owned, runs>>
           /\ i \in DOMAIN insts /\ insts[i].tee \in TEEIDs
           /\ tees' = [tees EXCEPT ![insts[i].tee] = 0]
           /\ thread[p].pc = "delete"
           /\ Ends(p) \/ Goes(p, "off") \/ (Goes(p, "mark") /\ thread[p].sess # None)
<1> DEFINE i == thread[p].inst
<1>1. /\ UNCHANGED <<sess, insts, vm, calls, owned, runs>>
      /\ tees' = [tees EXCEPT ![insts[i].tee] = 0]
      /\ thread[p].pc = "delete"
      /\ Return(p, "off") \/ (Goto(p, "mark") /\ thread[p].sess # None)
  BY DEF Delete, put
<1>2. i # 0 /\ i \in 0..Len(insts)
  BY <1>1 DEF ThreadsWell, WellThread, TypeOK, ThreadType
<1>3. i \in DOMAIN insts /\ insts[i].tee \in TEEIDs
  BY <1>2, InstsFacts DEF InstanceType
<1>4. Ends(p) \/ Goes(p, "off") \/ (Goes(p, "mark") /\ thread[p].sess # None)
  BY <1>1, ReturnEffect, GotoEffect DEF PCs
<1> QED
  BY <1>1, <1>3, <1>4

\* What a call or a session is started with.
Starts(p) ==
    \/ thread'[p].pc = "start" /\ thread'[p].tee # None
    \/ thread'[p].pc \in {"attest", "gate", "stop"} /\ thread'[p].inst # 0

LEMMA BeginEffect ==
    ASSUME TypeOK, NEW c \in Calls,
           \/ \E t \in TEEIDs : ProvisionTEE(c, t) \/ TEECall(c, t)
           \/ \E s \in Sessions : TerminateTEESession(c, s)
    PROVE  /\ UNCHANGED <<sess, insts, tees, vm, owned, runs>> /\ calls' \in 0..MaxCalls
           /\ thread[c].pc = "off" /\ Starts(c) /\ thread' \in [Threads -> ThreadType]
           /\ \A q \in Threads : q = c \/ thread'[q] = thread[q]
<1>1. /\ UNCHANGED <<sess, insts, tees, vm, owned, runs>>
      /\ thread[c] = Off /\ calls < MaxCalls /\ calls' = calls + 1
  BY DEF ProvisionTEE, TEECall, TerminateTEESession, Begin
<1>2. calls' \in 0..MaxCalls
  BY <1>1, SessionAssumption DEF TypeOK
<1>3. c \in Threads /\ None \notin TEEIDs /\ 0 \in 0..Len(insts)
  BY SessionAssumption, InstsFacts DEF Threads
<1>4. PICK pc \in {"start", "attest", "gate", "stop"}, t \in TEEIDs \cup {None},
           i \in 0..Len(insts), s \in Sessions \cup {None} :
          /\ thread' = [thread EXCEPT ![c] = Thread(pc, t, i, s)]
          /\ (pc = "start" /\ t # None) \/ (pc # "start" /\ i # 0)
  <2>1. ASSUME NEW t \in TEEIDs, ProvisionTEE(c, t)
        PROVE  thread' = [thread EXCEPT ![c] = Thread("start", t, 0, None)] /\ t # None
    BY <1>3, <2>1 DEF ProvisionTEE
  <2>2. ASSUME NEW t \in TEEIDs, TEECall(c, t)
        PROVE  \E pc \in {"attest", "gate", "stop"} :
                  thread' = [thread EXCEPT ![c] = Thread(pc, None, tees[t], None)]
               /\ tees[t] # 0 /\ tees[t] \in 0..Len(insts)
    BY <2>2 DEF TEECall, TypeOK
  <2>3. ASSUME NEW s \in Sessions, TerminateTEESession(c, s)
        PROVE  LET i == tees[sess[s].tee] IN
               /\ thread' = [thread EXCEPT ![c] = Thread("stop", None, i, s)]
               /\ i # 0 /\ i \in 0..Len(insts)
    <3>1. sess[s].tee # None /\ sess[s].tee \in TEEIDs \cup {None}
      BY <2>3 DEF TerminateTEESession, TypeOK, SessionType
    <3> QED
      BY <2>3, <3>1 DEF TerminateTEESession, TypeOK
  <2> QED
    BY <1>3, <2>1, <2>2, <2>3
<1> DEFINE h == Thread(pc, t, i, s)
<1>5. h \in ThreadType /\ h.pc = pc /\ h.tee = t /\ h.inst = i
  BY <1>4, ThreadFacts
<1> HIDE DEF h
<1>6. thread' = [thread EXCEPT ![c] = h]
  BY <1>4 DEF h
<1>7. /\ thread' \in [Threads -> ThreadType] /\ thread'[c] = h
      /\ \A q \in Threads : q = c \/ thread'[q] = thread[q]
  BY <1>3, <1>5, <1>6, SetEffect
<1>8. Starts(c)
  BY <1>4, <1>5, <1>7 DEF Starts
<1> QED
  BY <1>1, <1>2, <1>7, <1>8, OffFacts

\* The steps of a session that are recorded in the session registry.
SessionStep(s) ==
    SessionAttesting(s) \/ SessionRunning(s) \/ SessionComplete(s) \/ FailSession(s)

LEMMA SetSession ==
    ASSUME TypeOK, NEW s \in Sessions, NEW x \in SessionType, sess' = [sess EXCEPT ![s] = x]
    PROVE  /\ sess' \in [Sessions -> SessionType] /\ sess'[s] = x
           /\ \A r \in Sessions : r = s \/ sess'[r] = sess[r]
  BY DEF TypeOK

LEMMA SetStatus ==
    ASSUME TypeOK, NEW s \in Sessions, NEW v \in Statuses,
           sess' = [sess EXCEPT ![s].status = v]
    PROVE  /\ sess' \in [Sessions -> SessionType] /\ sess'[s].status = v
           /\ sess'[s].tee = sess[s].tee /\ sess'[s].output = sess[s].output
           /\ sess'[s] = [sess[s] EXCEPT !.status = v]
           /\ \A r \in Sessions : r = s \/ sess'[r] = sess[r]
  BY DEF TypeOK, SessionType

LEMMA SessionEffect ==
    ASSUME TypeOK, NEW s \in Sessions, SessionStep(s)
    PROVE  /\ UNCHANGED <<insts, tees, vm, calls, owned, runs>>
           /\ sess' \in [Sessions -> SessionType]
           /\ \A r \in Sessions : r = s \/ sess'[r] = sess[r]
           /\ \/ /\ thread[s].pc = "provisioned" /\ Goes(s, "attest")
                 /\ sess'[s].status = "attesting"
              \/ /\ thread[s].pc = "attested" /\ Goes(s, "gate")
                 /\ sess'[s].status = "running"
              \/ /\ thread[s].pc = "fetched" /\ Goes(s, "off")
                 /\ sess'[s].status = "complete" /\ sess'[s].output
              \/ /\ thread[s].pc = "error" /\ Goes(s, "off")
                 /\ sess'[s].status = "failed"
<1>1. UNCHANGED <<insts, tees, vm, calls, owned, runs>>
  BY DEF SessionStep, SessionAttesting, SessionRunning, SessionComplete, FailSession
<1>2. s \in Threads /\ thread[s] \in ThreadType /\ sess[s] \in SessionType
  BY DEF Threads, TypeOK
<1>3. CASE SessionAttesting(s)
  <2> DEFINE x == Session("attesting", thread[s].tee, sess[s].output)
  <2>1. /\ thread[s].pc = "provisioned" /\ Goto(s, "attest")
        /\ sess' = [sess EXCEPT ![s] = x]
    BY <1>3 DEF SessionAttesting
  <2>2. x \in SessionType /\ x.status = "attesting"
    <3>1. /\ "attesting" \in Statuses /\ thread[s].tee \in TEEIDs \cup {None}
          /\ sess[s].output \in BOOLEAN
      BY <1>2 DEF Statuses, ThreadType, SessionType
    <3> QED
      BY <3>1, SessionFacts, Zenon
  <2> HIDE DEF x
  <2> QED
    BY <1>1, <1>2, <2>1, <2>2, SetSession, GotoEffect DEF PCs
<1>4. CASE SessionRunning(s)
  <2>1. /\ thread[s].pc = "attested" /\ Goto(s, "gate")
        /\ sess' = [sess EXCEPT ![s].status = "running"]
    BY <1>4 DEF SessionRunning
  <2> QED
    BY <1>1, <1>2, <2>1, SetStatus, GotoEffect DEF PCs, Statuses
<1>5. CASE SessionComplete(s)
  <2> DEFINE x == Session("complete", sess[s].tee, TRUE)
  <2>1. /\ thread[s].pc = "fetched" /\ Goto(s, "off")
        /\ sess' = [sess EXCEPT ![s] = x]
    BY <1>5 DEF SessionComplete
  <2>2. x \in SessionType /\ x.status = "complete" /\ x.output
    <3>1. /\ "complete" \in Statuses /\ sess[s].tee \in TEEIDs \cup {None} /\ TRUE \in BOOLEAN
      BY <1>2 DEF Statuses, Finished, SessionType
    <3>2. x \in SessionType /\ x.status = "complete" /\ x.output = TRUE
      BY <3>1, SessionFacts, Zenon
    <3> QED
      BY <3>2, Zenon
  <2> HIDE DEF x
  <2> QED
    BY <1>1, <1>2, <2>1, <2>2, SetSession, GotoEffect DEF PCs
<1>6. CASE FailSession(s)
  <2>1. /\ thread[s].pc = "error" /\ Goto(s, "off")
        /\ sess' = [sess EXCEPT ![s].status = "failed"]
    BY <1>6 DEF FailSession
  <2> QED
    BY <1>1, <1>2, <2>1, SetStatus, GotoEffect DEF PCs, Statuses, Finished
<1> QED
  BY <1>3, <1>4, <1>5, <1>6 DEF SessionStep

LEMMA StartEffect ==
    ASSUME TypeOK, NEW s \in Sessions, NEW t \in TEEIDs, StartTEESession(s, t)
    PROVE  /\ UNCHANGED <<insts, tees, vm, calls, owned, runs>>
           /\ sess[s].status = "none" /\ sess'[s].status = "provisioning"
           /\ sess' \in [Sessions -> SessionType]
           /\ \A r \in Sessions : r = s \/ sess'[r] = sess[r]
           /\ thread[s].pc = "off" /\ Starts(s) /\ thread' \in [Threads -> ThreadType]
           /\ \A q \in Threads : q = s \/ thread'[q] = thread[q]
<1> DEFINE h == Thread("start", t, 0, None)
<1>1. /\ UNCHANGED <<insts, tees, vm, calls, owned, runs>>
      /\ thread[s] = Off /\ sess[s].status = "none"
      /\ sess' = [sess EXCEPT ![s].status = "provisioning"]
      /\ thread' = [thread EXCEPT ![s] = h]
  BY DEF StartTEESession
<1>2. s \in Threads /\ None \notin TEEIDs /\ 0 \in 0..Len(insts)
  BY SessionAssumption, InstsFacts DEF Threads
<1>3. h \in ThreadType /\ h.pc = "start" /\ h.tee = t
  BY <1>2, ThreadFacts
<1> HIDE DEF h
<1>4. /\ thread' \in [Threads -> ThreadType] /\ thread'[s] = h
      /\ \A q \in Threads : q = s \/ thread'[q] = thread[q]
  BY <1>1, <1>2, <1>3, SetEffect
<1>5. Starts(s)
  BY <1>2, <1>3, <1>4 DEF Starts
<1> QED
  BY <1>1, <1>4, <1>5, OffFacts, SetStatus DEF Statuses

LEMMA MarkEffect ==
    ASSUME TypeOK, ThreadsWell, NEW c \in Calls, MarkTerminated(c)
    PROVE  LET s == thread[c].sess IN
           /\ UNCHANGED <<insts, tees, vm, calls, owned, runs>>
           /\ thread[c].pc = "mark" /\ Ends(c)
           /\ s \in Sessions /\ sess' \in [Sessions -> SessionType]
           /\ sess'[s].status = "terminated"
           /\ sess'[s] = [sess[s] EXCEPT !.status = "terminated"]
           /\ \A r \in Sessions : r = s \/ sess'[r] = sess[r]
<1>1. /\ UNCHANGED <<insts, tees, vm, calls, owned, runs>>
      /\ thread[c].pc = "mark" /\ Return(c, "off")
      /\ sess' = [sess EXCEPT ![thread[c].sess].status = "terminated"]
  BY DEF MarkTerminated
<1>2. c \in Threads
  BY DEF Threads
<1>3. thread[c].sess \in Sessions
  BY <1>1, <1>2 DEF ThreadsWell, WellThread, TypeOK, ThreadType
<1>4. Ends(c)
  BY <1>1, <1>2, ReturnEffect DEF PCs
<1> QED
  BY <1>1, <1>3, <1>4, SetStatus DEF Statuses, Finished

(***************************************************************************)
(* What a step leaves alone                                                *)
(***************************************************************************)
\* Instances stay, and a verdict is never unmade.
InstsKept ==
    \A i \in DOMAIN insts :
        /\ i \in DOMAIN insts'
        /\ insts[i].verdict # "none" => insts'[i].verdict # "none"

\* The steps of one thread, when the thread itself is as it should be.
LEMMA ThreadFrame ==
    ASSUME TypeOK, ThreadsWell, GatePassed, SessionSteps, NEW p \in Threads,
           \A q \in Threads : q = p \/ thread'[q] = thread[q],
           InstsKept, runs \subseteq runs',
           \A s \in Sessions : (s # p /\ sess'[s].status \in {"complete", "failed"}) =>
               sess[s].status \in {"complete", "failed"},
           WellThread(p)',
           (thread'[p].pc = "post" /\ AttestationRequired) => insts'[thread'[p].inst].verdict # "none",
           p \in Sessions => InOrder(p)'
    PROVE  ThreadsWell' /\ GatePassed' /\ SessionSteps'
<1>1. ThreadsWell'
  BY DEF ThreadsWell, WellThread
<1>2. ASSUME NEW q \in Threads, thread[q].inst # 0
      PROVE  thread[q].inst \in DOMAIN insts
  BY <1>2, InstsFacts DEF TypeOK, ThreadType
<1>3. GatePassed'
  <2> SUFFICES ASSUME AttestationRequired, NEW q \in Threads, q # p, thread[q].pc = "post",
                      thread'[q] = thread[q]
               PROVE  insts'[thread[q].inst].verdict # "none"
    BY DEF GatePassed
  <2>1. thread[q].inst \in DOMAIN insts
    BY <1>2 DEF ThreadsWell, WellThread
  <2> QED
    BY <2>1 DEF GatePassed, InstsKept
<1>4. SessionSteps'
  <2> SUFFICES ASSUME NEW s \in Sessions, s # p PROVE InOrder(s)'
    BY DEF SessionSteps
  <2>1. s \in Threads /\ thread'[s] = thread[s] /\ InOrder(s)
    BY DEF Threads, SessionSteps
  <2>2. thread[s].pc \in {"attested", "gate", "post", "poll", "fetch", "fetched"} =>
            thread[s].inst \in DOMAIN insts
    BY <1>2, <2>1 DEF ThreadsWell, WellThread
  <2> QED
    BY <2>1, <2>2 DEF InOrder, InstsKept
<1> QED
  BY <1>1, <1>3, <1>4

\* A session that is complete stays as it is.
LEMMA CompleteFrame ==
    ASSUME TypeOK, CompleteWasRun, InstsKept, runs \subseteq runs',
           \A s \in Sessions : sess'[s].status = "complete" =>
               sess'[s] = sess[s] /\ thread'[s].inst = thread[s].inst
    PROVE  CompleteWasRun'
<1> SUFFICES ASSUME NEW s \in Sessions, sess'[s].status = "complete"
             PROVE  /\ sess'[s].output
                    /\ thread'[s].inst \in runs' /\ insts'[thread'[s].inst].verdict # "none"
  BY DEF CompleteWasRun
<1>1. /\ sess'[s] = sess[s] /\ sess[s].output /\ thread'[s].inst = thread[s].inst
      /\ thread[s].inst \in runs /\ insts[thread[s].inst].verdict # "none"
  BY DEF CompleteWasRun
<1>2. thread[s].inst \in DOMAIN insts
  BY <1>1 DEF TypeOK
<1> QED
  BY <1>1, <1>2 DEF InstsKept

LEMMA RegisteredFrame ==
    ASSUME LastRegistered, owned' => owned, Len(insts') = Len(insts), DOMAIN insts' = DOMAIN insts,
           Len(insts) # 0 => Len(insts) \in DOMAIN insts,
           \A i \in DOMAIN insts : insts'[i].tee = insts[i].tee,
           DistinctIDs /\ Len(insts) # 0 /\ tees[insts[Len(insts)].tee] = Len(insts) =>
               tees'[insts[Len(insts)].tee] = Len(insts),
           \A q \in Threads : thread'[q].pc = "delete" =>
               \/ thread[q].pc = "delete" /\ thread'[q].inst = thread[q].inst
               \/ ~owned'
    PROVE  LastRegistered'
<1> SUFFICES ASSUME owned', DistinctIDs'
             PROVE  /\ Len(insts) # 0 /\ tees'[insts'[Len(insts)].tee] = Len(insts)
                    /\ \A q \in Threads : thread'[q].pc = "delete" => thread'[q].inst # Len(insts)
  BY DEF LastRegistered
<1>1. DistinctIDs
  BY DEF DistinctIDs
<1> QED
  BY <1>1 DEF LastRegistered

(***************************************************************************)
(* Initial states                                                          *)
(***************************************************************************)
LEMMA InitInv == Init => IInv
<1> SUFFICES ASSUME Init PROVE IInv
  OBVIOUS
<1>1. insts \in Seq(InstanceType) /\ Len(insts) = 0 /\ DOMAIN insts = {}
  BY EmptySeq DEF Init
<1>2. Off \in ThreadType /\ Off.pc = "off"
  <2>1. 0 \in 0..Len(insts)
    BY <1>1
  <2> QED
    BY <2>1, ThreadFacts DEF Off
<1>3. thread \in [Threads -> ThreadType] /\ \A p \in Threads : thread[p].pc = "off"
  BY <1>2 DEF Init
<1>4. sess \in [Sessions -> SessionType] /\ \A s \in Sessions : sess[s].status = "none"
  <2> DEFINE x == Session("none", None, FALSE)
  <2>1. "none" \in Statuses /\ None \in TEEIDs \cup {None} /\ FALSE \in BOOLEAN
    BY DEF Statuses
  <2>2. x \in SessionType /\ x.status = "none"
    BY <2>1, SessionFacts, Zenon
  <2> HIDE DEF x
  <2>3. sess = [s \in Sessions |-> x]
    BY DEF Init, x
  <2> QED
    BY <2>2, <2>3
<1>5. /\ tees \in [TEEIDs -> 0..Len(insts)] /\ vm \in {"stopped"} \cup On
      /\ calls \in 0..MaxCalls /\ runs \subseteq DOMAIN insts
  BY <1>1, SessionAssumption DEF Init
<1>6. TypeOK
  <2>1. owned \in BOOLEAN
    BY DEF Init
  <2> QED
    BY <1>1, <1>3, <1>4, <1>5, <2>1 DEF TypeOK
<1>7. ThreadsWell /\ GatePassed
  BY <1>3 DEF ThreadsWell, WellThread, GatePassed
<1>8. SessionSteps /\ CompleteWasRun
  BY <1>3, <1>4 DEF SessionSteps, InOrder, CompleteWasRun, Threads
<1>9. LastRegistered /\ RunsAttested
  BY DEF LastRegistered, RunsAttested, Init
<1> QED
  BY <1>6, <1>7, <1>8, <1>9 DEF IInv

(***************************************************************************)
(* Steps of the primitives and of direct calls                             *)
(***************************************************************************)
\* A step that leaves sessions and instances alone.
LEMMA QuietFrame ==
    ASSUME IInv, NEW p \in Threads, UNCHANGED <<sess, insts>>,
           runs \subseteq runs', runs' \subseteq DOMAIN insts,
           thread' \in [Threads -> ThreadType],
           \A q \in Threads : q = p \/ thread'[q] = thread[q],
           tees' \in [TEEIDs -> 0..Len(insts)], vm' \in {"stopped"} \cup On,
           calls' \in 0..MaxCalls, owned' \in BOOLEAN,
           WellThread(p)',
           (thread'[p].pc = "post" /\ AttestationRequired) => insts[thread'[p].inst].verdict # "none",
           p \in Sessions => thread[p].pc # "off" /\ InOrder(p)',
           RunsAttested', LastRegistered'
    PROVE  IInv'
<1>1. InstsKept /\ ThreadType' = ThreadType
  BY DEF InstsKept, ThreadType
<1>2. TypeOK'
  BY <1>1 DEF IInv, TypeOK
<1>3. ThreadsWell' /\ GatePassed' /\ SessionSteps'
  <2>1. TypeOK /\ ThreadsWell /\ GatePassed /\ SessionSteps
    BY DEF IInv
  <2>2. (thread'[p].pc = "post" /\ AttestationRequired) => insts'[thread'[p].inst].verdict # "none"
    OBVIOUS
  <2>3. \A s \in Sessions : (s # p /\ sess'[s].status \in {"complete", "failed"}) =>
            sess[s].status \in {"complete", "failed"}
    OBVIOUS
  <2>4. p \in Sessions => InOrder(p)'
    OBVIOUS
  <2> QED
    BY <1>1, <2>1, <2>2, <2>3, <2>4, ThreadFrame
<1>4. CompleteWasRun'
  <2>1. ASSUME NEW s \in Sessions, sess'[s].status = "complete"
        PROVE  thread'[s].inst = thread[s].inst
    <3>1. thread[s].pc = "off" /\ s \in Threads
      BY <2>1 DEF IInv, SessionSteps, InOrder, Threads
    <3> QED
      BY <2>1, <3>1
  <2> QED
    BY <1>1, <2>1, CompleteFrame DEF IInv
<1> QED
  BY <1>2, <1>3, <1>4 DEF IInv

LEMMA MoveInv ==
    ASSUME IInv, NEW p \in Threads, MoveStep(p)
    PROVE  IInv'
<1>1. /\ UNCHANGED <<sess, insts, tees, calls, runs>>
      /\ owned' \in BOOLEAN /\ (owned' => owned) /\ vm' \in {"stopped"} \cup On
      /\ thread[p].pc # "off"
      /\ Ends(p) \/ \E pc \in PCs : Goes(p, pc) /\ Moves(p, pc)
  BY MoveEffect DEF IInv
<1>2. /\ thread' \in [Threads -> ThreadType]
      /\ \A q \in Threads : q = p \/ thread'[q] = thread[q]
  BY <1>1 DEF Ends, Goes
<1>3. WellThread(p) /\ (p \in Sessions => InOrder(p))
  BY DEF IInv, ThreadsWell, SessionSteps
<1>4. thread'[p].pc = "delete" =>
          \/ thread[p].pc = "delete" /\ thread'[p].inst = thread[p].inst
          \/ ~owned'
  BY <1>1 DEF Ends, Goes, Moves
<1>5. WellThread(p)'
  BY <1>1, <1>3 DEF Ends, Goes, Moves, WellThread
<1>6. (thread'[p].pc = "post" /\ AttestationRequired) => insts[thread'[p].inst].verdict # "none"
  BY <1>1 DEF Ends, Goes, Moves
<1>7. p \in Sessions => InOrder(p)'
  <2> SUFFICES ASSUME p \in Sessions PROVE InOrder(p)'
    OBVIOUS
  <2>1. sess[p].status \notin {"complete", "failed"}
    BY <1>1, <1>3 DEF InOrder
  <2>2. CASE Ends(p)
    BY <1>1, <2>1, <2>2 DEF Ends, InOrder
  <2>3. ASSUME NEW pc \in PCs, Goes(p, pc), Moves(p, pc) PROVE InOrder(p)'
    BY <1>1, <1>3, <2>1, <2>3 DEF Goes, Moves, InOrder
  <2> QED
    BY <1>1, <2>2, <2>3
<1>8. RunsAttested'
  BY <1>1 DEF IInv, RunsAttested
<1>9. LastRegistered'
  BY <1>1, <1>2, <1>4, RegisteredFrame, InstsFacts DEF IInv
<1>10. /\ runs \subseteq DOMAIN insts /\ tees \in [TEEIDs -> 0..Len(insts)]
       /\ calls \in 0..MaxCalls
  BY DEF IInv, TypeOK
<1> QED
  BY <1>1, <1>2, <1>5, <1>6, <1>7, <1>8, <1>9, <1>10, QuietFrame

LEMMA AcceptInv ==
    ASSUME IInv, NEW p \in Threads, RunAccepted(p)
    PROVE  IInv'
<1>1. /\ UNCHANGED <<sess, insts, tees, calls, owned>> /\ vm' = "running"
      /\ thread[p].inst \in DOMAIN insts /\ runs' = runs \cup {thread[p].inst}
      /\ thread[p].pc = "post" /\ (Ends(p) \/ Goes(p, "poll") \/ Goes(p, "error"))
  BY AcceptEffect DEF IInv
<1>2. /\ thread' \in [Threads -> ThreadType]
      /\ \A q \in Threads : q = p \/ thread'[q] = thread[q]
      /\ thread'[p].pc \in {"off", "poll", "error"}
      /\ thread'[p].pc # "off" => thread'[p].inst = thread[p].inst
  BY <1>1 DEF Ends, Goes
<1>3. WellThread(p) /\ (p \in Sessions => InOrder(p))
  BY DEF IInv, ThreadsWell, SessionSteps
<1>4. WellThread(p)'
  BY <1>1, <1>2, <1>3 DEF WellThread
<1>5. p \in Sessions => InOrder(p)'
  BY <1>1, <1>2, <1>3 DEF InOrder
<1>6. RunsAttested'
  BY <1>1 DEF IInv, RunsAttested, GatePassed
<1>7. LastRegistered'
  BY <1>1, <1>2, RegisteredFrame, InstsFacts DEF IInv
<1>8. /\ runs \subseteq DOMAIN insts /\ tees \in [TEEIDs -> 0..Len(insts)]
      /\ calls \in 0..MaxCalls /\ owned \in BOOLEAN
  BY DEF IInv, TypeOK
<1>9. "running" \in {"stopped"} \cup On
  BY DEF On
<1> QED
  BY <1>1, <1>2, <1>4, <1>5, <1>6, <1>7, <1>8, <1>9, QuietFrame

LEMMA DeleteInv ==
    ASSUME IInv, NEW p \in Calls, Delete(p)
    PROVE  IInv'
<1> DEFINE i == thread[p].inst
<1>0. p \in Threads /\ p \notin Sessions
  BY SessionAssumption DEF Threads
<1>1. /\ UNCHANGED <<sess, insts, vm, calls, owned, runs>>
      /\ i \in DOMAIN insts /\ insts[i].tee \in TEEIDs
      /\ tees' = [tees EXCEPT ![insts[i].tee] = 0]
      /\ thread[p].pc = "delete"
      /\ Ends(p) \/ Goes(p, "off") \/ (Goes(p, "mark") /\ thread[p].sess # None)
  BY <1>0, DeleteEffect DEF IInv
<1>2. /\ thread' \in [Threads -> ThreadType]
      /\ \A q \in Threads : q = p \/ thread'[q] = thread[q]
      /\ thread'[p].pc \in {"off", "mark"}
      /\ thread'[p].pc # "off" => thread'[p].inst = i /\ thread'[p].sess # None
  BY <1>1 DEF Ends, Goes
<1>3. WellThread(p)'
  BY <1>0, <1>1, <1>2 DEF IInv, ThreadsWell, WellThread
<1>4. RunsAttested'
  BY <1>1 DEF IInv, RunsAttested
<1>5. LastRegistered'
  <2> DEFINE n == Len(insts)
  <2> SUFFICES ASSUME owned, DistinctIDs PROVE LastRegistered'
    BY <1>1 DEF LastRegistered, DistinctIDs
  <2>1. n # 0 /\ n \in DOMAIN insts /\ tees[insts[n].tee] = n /\ i # n
    BY <1>0, <1>1, InstsFacts DEF IInv, LastRegistered
  <2>2. insts[i].tee # insts[n].tee
    BY <1>1, <2>1 DEF DistinctIDs
  <2>3. tees'[insts[n].tee] = n
    BY <1>1, <2>1, <2>2, InstsFacts DEF IInv, TypeOK, InstanceType
  <2>4. \A q \in Threads : thread'[q].pc = "delete" => thread'[q].inst # n
    BY <1>2 DEF IInv, LastRegistered
  <2> QED
    BY <1>1, <2>1, <2>3, <2>4 DEF LastRegistered
<1>6. /\ runs \subseteq DOMAIN insts /\ calls \in 0..MaxCalls /\ owned \in BOOLEAN
      /\ vm \in {"stopped"} \cup On
  BY DEF IInv, TypeOK
<1>7. tees' \in [TEEIDs -> 0..Len(insts)]
  BY <1>1, InstsFacts DEF IInv, TypeOK
<1> QED
  BY <1>0, <1>1, <1>2, <1>3, <1>4, <1>5, <1>6, <1>7, QuietFrame

LEMMA BeginInv ==
    ASSUME IInv, NEW c \in Calls,
           \/ \E t \in TEEIDs : ProvisionTEE(c, t) \/ TEECall(c, t)
           \/ \E s \in Sessions : TerminateTEESession(c, s)
    PROVE  IInv'
<1>0. c \in Threads /\ c \notin Sessions
  BY SessionAssumption DEF Threads
<1>1. /\ UNCHANGED <<sess, insts, tees, vm, owned, runs>> /\ calls' \in 0..MaxCalls
      /\ Starts(c) /\ thread' \in [Threads -> ThreadType]
      /\ \A q \in Threads : q = c \/ thread'[q] = thread[q]
  BY BeginEffect DEF IInv
<1>2. WellThread(c)' /\ thread'[c].pc \notin {"post", "delete"}
  BY <1>1 DEF Starts, WellThread
<1>3. RunsAttested'
  BY <1>1 DEF IInv, RunsAttested
<1>4. LastRegistered'
  BY <1>1, <1>2, RegisteredFrame, InstsFacts DEF IInv
<1>5. /\ runs \subseteq DOMAIN insts /\ tees \in [TEEIDs -> 0..Len(insts)]
      /\ owned \in BOOLEAN /\ vm \in {"stopped"} \cup On
  BY DEF IInv, TypeOK
<1> QED
  BY <1>0, <1>1, <1>2, <1>3, <1>4, <1>5, QuietFrame

LEMMA RecordInv ==
    ASSUME IInv, NEW p \in Threads, RecordVerdict(p)
    PROVE  IInv'
<1> DEFINE i == thread[p].inst
<1>1. /\ UNCHANGED <<sess, vm, calls, owned, runs>>
      /\ i \in DOMAIN insts /\ insts[i].tee \in TEEIDs
      /\ insts' \in Seq(InstanceType) /\ Len(insts') = Len(insts)
      /\ DOMAIN insts' = DOMAIN insts /\ ThreadType' = ThreadType
      /\ \A k \in DOMAIN insts :
            /\ insts'[k].tee = insts[k].tee
            /\ insts[k].verdict # "none" => insts'[k].verdict # "none"
      /\ insts'[i].verdict # "none"
      /\ tees' = [tees EXCEPT ![insts[i].tee] = i]
      /\ thread[p].pc = "verdict" /\ (Ends(p) \/ Goes(p, "attested"))
  BY RecordEffect DEF IInv
<1>2. /\ thread' \in [Threads -> ThreadType]
      /\ \A q \in Threads : q = p \/ thread'[q] = thread[q]
      /\ thread'[p].pc \in {"off", "attested"}
      /\ thread'[p].pc # "off" => thread'[p].inst = i
  BY <1>1 DEF Ends, Goes
<1>3. tees' \in [TEEIDs -> 0..Len(insts)]
  BY <1>1, InstsFacts DEF IInv, TypeOK
<1>4. TypeOK'
  BY <1>1, <1>2, <1>3 DEF IInv, TypeOK
<1>5. InstsKept
  BY <1>1 DEF InstsKept
<1>6. WellThread(p) /\ (p \in Sessions => InOrder(p))
  BY DEF IInv, ThreadsWell, SessionSteps
<1>7. ThreadsWell' /\ GatePassed' /\ SessionSteps'
  <2>1. WellThread(p)'
    BY <1>1, <1>2, <1>6 DEF WellThread
  <2>2. p \in Sessions => InOrder(p)'
    BY <1>1, <1>2, <1>6 DEF InOrder
  <2>3. thread'[p].pc # "post"
    BY <1>2
  <2>4. \A s \in Sessions : (s # p /\ sess'[s].status \in {"complete", "failed"}) =>
            sess[s].status \in {"complete", "failed"}
    BY <1>1
  <2>5. TypeOK /\ ThreadsWell /\ GatePassed /\ SessionSteps
    BY DEF IInv
  <2> QED
    BY <1>1, <1>2, <1>5, <2>1, <2>2, <2>3, <2>4, <2>5, ThreadFrame
<1>8. CompleteWasRun'
  <2>1. ASSUME NEW s \in Sessions, sess'[s].status = "complete"
        PROVE  sess'[s] = sess[s] /\ thread'[s].inst = thread[s].inst
    <3>1. thread[s].pc = "off" /\ s \in Threads
      BY <1>1, <2>1 DEF IInv, SessionSteps, InOrder, Threads
    <3> QED
      BY <1>1, <1>2, <3>1
  <2> QED
    BY <1>1, <1>5, <2>1, CompleteFrame DEF IInv
<1>9. RunsAttested'
  BY <1>1 DEF IInv, RunsAttested, TypeOK
<1>10. LastRegistered'
  <2>1. ASSUME DistinctIDs, Len(insts) # 0, tees[insts[Len(insts)].tee] = Len(insts)
        PROVE  tees'[insts[Len(insts)].tee] = Len(insts)
    <3>1. Len(insts) \in DOMAIN insts /\ insts[Len(insts)].tee \in TEEIDs
      BY <2>1, InstsFacts DEF IInv, InstanceType
    <3>2. CASE i = Len(insts)
      BY <1>1, <3>1, <3>2 DEF IInv, TypeOK
    <3>3. CASE i # Len(insts)
      BY <1>1, <2>1, <3>1, <3>3 DEF IInv, TypeOK, DistinctIDs
    <3> QED
      BY <3>2, <3>3
  <2>2. \A q \in Threads : thread'[q].pc = "delete" =>
            thread[q].pc = "delete" /\ thread'[q].inst = thread[q].inst
    BY <1>2
  <2> QED
    BY <1>1, <2>1, <2>2, RegisteredFrame, InstsFacts DEF IInv
<1> QED
  BY <1>4, <1>7, <1>8, <1>9, <1>10 DEF IInv

LEMMA ExpireInv ==
    ASSUME IInv, NEW i \in DOMAIN insts, VerdictExpires(i)
    PROVE  IInv'
<1>1. /\ UNCHANGED <<sess, tees, thread, vm, calls, owned, runs>>
      /\ insts' = [insts EXCEPT ![i] = Instance(insts[i].tee, "expired")]
  BY DEF VerdictExpires
<1>2. /\ insts' \in Seq(InstanceType) /\ Len(insts') = Len(insts)
      /\ DOMAIN insts' = DOMAIN insts /\ ThreadType' = ThreadType
      /\ \A k \in DOMAIN insts :
            /\ insts'[k].tee = insts[k].tee
            /\ insts[k].verdict # "none" => insts'[k].verdict # "none"
  BY <1>1, VerdictEffect DEF IInv
<1>3. InstsKept
  BY <1>2 DEF InstsKept
<1>4. TypeOK'
  BY <1>1, <1>2 DEF IInv, TypeOK
<1>5. ASSUME NEW p \in Threads, thread[p].inst # 0 PROVE thread[p].inst \in DOMAIN insts
  BY <1>5, InstsFacts DEF IInv, TypeOK, ThreadType
<1>6. ThreadsWell'
  BY <1>1 DEF IInv, ThreadsWell, WellThread
<1>7. GatePassed'
  <2> SUFFICES ASSUME AttestationRequired, NEW p \in Threads, thread[p].pc = "post"
               PROVE  insts'[thread[p].inst].verdict # "none"
    BY <1>1 DEF GatePassed
  <2>1. thread[p].inst \in DOMAIN insts
    BY <1>5 DEF IInv, ThreadsWell, WellThread
  <2> QED
    BY <1>2, <2>1 DEF IInv, GatePassed
<1>8. SessionSteps'
  <2> SUFFICES ASSUME NEW s \in Sessions PROVE InOrder(s)'
    BY DEF SessionSteps
  <2>1. InOrder(s) /\ s \in Threads
    BY DEF IInv, SessionSteps, Threads
  <2>2. thread[s].pc \in {"attested", "gate", "post", "poll", "fetch", "fetched"} =>
            thread[s].inst \in DOMAIN insts
    BY <1>5, <2>1 DEF IInv, ThreadsWell, WellThread
  <2> QED
    BY <1>1, <1>2, <2>1, <2>2 DEF InOrder
<1>9. CompleteWasRun' /\ RunsAttested'
  BY <1>1, <1>2, <1>3, CompleteFrame DEF IInv, RunsAttested, TypeOK
<1>10. LastRegistered'
  BY <1>1, <1>2, RegisteredFrame, InstsFacts DEF IInv
<1> QED
  BY <1>4, <1>6, <1>7, <1>8, <1>9, <1>10 DEF IInv

LEMMA PutInv ==
    ASSUME IInv, NEW p \in Threads, PutInstance(p)
    PROVE  IInv'
<1> DEFINE n == Len(insts) + 1
           t == thread[p].tee
<1>1. /\ UNCHANGED <<sess, vm, calls, runs>> /\ owned' \in BOOLEAN
      /\ n \in Nat /\ t \in TEEIDs
      /\ insts' \in Seq(InstanceType) /\ Len(insts') = n /\ insts'[n].tee = t
      /\ \A i \in DOMAIN insts : insts'[i] = insts[i]
      /\ tees' = [tees EXCEPT ![t] = n]
      /\ thread[p].pc = "put" /\ thread' \in [Threads -> ThreadType']
      /\ \/ thread'[p].pc = "off"
         \/ /\ thread'[p].pc = "provisioned"
            /\ thread'[p].inst = n /\ thread'[p].tee # None
      /\ \A q \in Threads : q = p \/ thread'[q] = thread[q]
  BY PutEffect DEF IInv
<1>2. /\ DOMAIN insts = 1..Len(insts) /\ DOMAIN insts' = 1..n /\ Len(insts) \in Nat
      /\ DOMAIN insts \subseteq DOMAIN insts' /\ n # 0 /\ n \notin 0..Len(insts)
  <2>1. DOMAIN insts' = 1..Len(insts')
    BY <1>1, LenProperties
  <2> QED
    BY <1>1, <2>1, InstsFacts DEF IInv
<1>3. InstsKept
  BY <1>1, <1>2 DEF InstsKept
<1>4. TypeOK'
  <2>1. tees' \in [TEEIDs -> 0..n]
    BY <1>1, <1>2 DEF IInv, TypeOK
  <2>2. runs' \subseteq DOMAIN insts'
    BY <1>1, <1>2 DEF IInv, TypeOK
  <2> QED
    BY <1>1, <2>1, <2>2 DEF IInv, TypeOK
<1>5. WellThread(p) /\ (p \in Sessions => InOrder(p))
  BY DEF IInv, ThreadsWell, SessionSteps
<1>6. ThreadsWell' /\ GatePassed' /\ SessionSteps'
  <2>1. WellThread(p)'
    BY <1>1, <1>2 DEF WellThread
  <2>2. p \in Sessions => InOrder(p)'
    BY <1>1, <1>5 DEF InOrder
  <2>3. thread'[p].pc # "post"
    BY <1>1
  <2>4. \A s \in Sessions : (s # p /\ sess'[s].status \in {"complete", "failed"}) =>
            sess[s].status \in {"complete", "failed"}
    BY <1>1
  <2>5. TypeOK /\ ThreadsWell /\ GatePassed /\ SessionSteps
    BY DEF IInv
  <2> QED
    BY <1>1, <1>3, <2>1, <2>2, <2>3, <2>4, <2>5, ThreadFrame
<1>7. CompleteWasRun'
  <2>1. ASSUME NEW s \in Sessions, sess'[s].status = "complete"
        PROVE  sess'[s] = sess[s] /\ thread'[s].inst = thread[s].inst
    <3>1. thread[s].pc = "off" /\ s \in Threads
      BY <1>1, <2>1 DEF IInv, SessionSteps, InOrder, Threads
    <3> QED
      BY <1>1, <3>1
  <2> QED
    BY <1>1, <1>3, <2>1, CompleteFrame DEF IInv
<1>8. RunsAttested'
  BY <1>1, <1>3 DEF IInv, RunsAttested, TypeOK, InstsKept
<1>9. LastRegistered'
  <2>1. tees'[insts'[n].tee] = n
    BY <1>1 DEF IInv, TypeOK
  <2>2. \A q \in Threads : thread'[q].pc = "delete" => thread'[q].inst # n
    <3>1. \A q \in Threads : thread[q].inst \in 0..Len(insts)
      BY DEF IInv, TypeOK, ThreadType
    <3>2. \A q \in Threads : thread[q].inst # n
      BY <1>2, <3>1
    <3>3. \A q \in Threads : q # p => thread'[q].inst # n
      BY <1>1, <3>2
    <3> QED
      BY <1>1, <3>3
  <2> QED
    BY <1>1, <1>2, <2>1, <2>2 DEF LastRegistered
<1> QED
  BY <1>4, <1>6, <1>7, <1>8, <1>9 DEF IInv

(***************************************************************************)
(* Steps that a session records                                            *)
(***************************************************************************)
\* A step that leaves instances, the registry and the VM alone.
LEMMA RecordsFrame ==
    ASSUME IInv, NEW p \in Threads, UNCHANGED <<insts, tees, vm, calls, owned, runs>>,
           sess' \in [Sessions -> SessionType], thread' \in [Threads -> ThreadType],
           \A q \in Threads : q = p \/ thread'[q] = thread[q],
           \A s \in Sessions : (s # p /\ sess'[s].status \in {"complete", "failed"}) =>
               sess'[s] = sess[s],
           WellThread(p)', thread'[p].pc \notin {"post", "delete"},
           p \in Sessions => InOrder(p)',
           (p \in Sessions /\ sess'[p].status = "complete") =>
               /\ sess'[p].output /\ thread'[p].inst \in runs
               /\ insts[thread'[p].inst].verdict # "none"
    PROVE  IInv'
<1>1. InstsKept /\ ThreadType' = ThreadType
  BY DEF InstsKept, ThreadType
<1>2. TypeOK'
  BY <1>1 DEF IInv, TypeOK
<1>3. ThreadsWell' /\ GatePassed' /\ SessionSteps'
  <2>1. \A s \in Sessions : (s # p /\ sess'[s].status \in {"complete", "failed"}) =>
            sess[s].status \in {"complete", "failed"}
    OBVIOUS
  <2>2. TypeOK /\ ThreadsWell /\ GatePassed /\ SessionSteps /\ runs \subseteq runs'
    BY DEF IInv
  <2>3. thread'[p].pc # "post"
    OBVIOUS
  <2> QED
    BY <1>1, <2>1, <2>2, <2>3, ThreadFrame
<1>4. CompleteWasRun'
  <2> SUFFICES ASSUME NEW s \in Sessions, sess'[s].status = "complete"
               PROVE  /\ sess'[s].output /\ thread'[s].inst \in runs
                      /\ insts[thread'[s].inst].verdict # "none"
    BY DEF CompleteWasRun
  <2>1. CASE s = p
    BY <2>1
  <2>2. CASE s # p
    <3>1. sess'[s] = sess[s] /\ s \in Threads
      BY <2>2 DEF Threads
    <3>2. thread'[s] = thread[s]
      BY <2>2, <3>1
    <3> QED
      BY <3>1, <3>2 DEF IInv, CompleteWasRun
  <2> QED
    BY <2>1, <2>2
<1>5. RunsAttested'
  BY DEF IInv, RunsAttested
<1>6. LastRegistered'
  <2>1. \A q \in Threads : thread'[q].pc = "delete" =>
            thread[q].pc = "delete" /\ thread'[q].inst = thread[q].inst
    OBVIOUS
  <2> QED
    BY <2>1, RegisteredFrame, InstsFacts DEF IInv
<1> QED
  BY <1>2, <1>3, <1>4, <1>5, <1>6 DEF IInv

LEMMA SessionInv ==
    ASSUME IInv, NEW s \in Sessions, SessionStep(s)
    PROVE  IInv'
<1>0. s \in Threads /\ WellThread(s) /\ InOrder(s)
  BY DEF Threads, IInv, ThreadsWell, SessionSteps
<1>1. /\ UNCHANGED <<insts, tees, vm, calls, owned, runs>>
      /\ sess' \in [Sessions -> SessionType]
      /\ \A r \in Sessions : r = s \/ sess'[r] = sess[r]
      /\ \/ /\ thread[s].pc = "provisioned" /\ Goes(s, "attest")
            /\ sess'[s].status = "attesting"
         \/ /\ thread[s].pc = "attested" /\ Goes(s, "gate")
            /\ sess'[s].status = "running"
         \/ /\ thread[s].pc = "fetched" /\ Goes(s, "off")
            /\ sess'[s].status = "complete" /\ sess'[s].output
         \/ /\ thread[s].pc = "error" /\ Goes(s, "off")
            /\ sess'[s].status = "failed"
  BY SessionEffect DEF IInv
<1>2. /\ thread' \in [Threads -> ThreadType]
      /\ \A q \in Threads : q = s \/ thread'[q] = thread[q]
      /\ thread'[s].pc \in {"attest", "gate", "off"} /\ thread'[s].inst = thread[s].inst
  BY <1>1 DEF Goes
<1>3. WellThread(s)'
  BY <1>0, <1>1 DEF Goes, WellThread
<1>4. InOrder(s)'
  BY <1>0, <1>1 DEF Goes, InOrder
<1>5. sess'[s].status = "complete" =>
         /\ sess'[s].output /\ thread'[s].inst \in runs
         /\ insts[thread'[s].inst].verdict # "none"
  BY <1>0, <1>1, <1>2 DEF InOrder
<1> QED
  BY <1>0, <1>1, <1>2, <1>3, <1>4, <1>5, RecordsFrame

LEMMA StartInv ==
    ASSUME IInv, NEW s \in Sessions, NEW t \in TEEIDs, StartTEESession(s, t)
    PROVE  IInv'
<1>0. s \in Threads
  BY DEF Threads
<1>1. /\ UNCHANGED <<insts, tees, vm, calls, owned, runs>>
      /\ sess'[s].status = "provisioning"
      /\ sess' \in [Sessions -> SessionType]
      /\ \A r \in Sessions : r = s \/ sess'[r] = sess[r]
      /\ Starts(s) /\ thread' \in [Threads -> ThreadType]
      /\ \A q \in Threads : q = s \/ thread'[q] = thread[q]
  BY StartEffect DEF IInv
<1>2. thread'[s].pc = "start" /\ thread'[s].tee # None
  BY <1>0, ThreadFacts, SessionAssumption, InstsFacts DEF StartTEESession, Thread, IInv, TypeOK
<1>3. WellThread(s)' /\ InOrder(s)'
  BY <1>1, <1>2 DEF WellThread, InOrder
<1> QED
  BY <1>0, <1>1, <1>2, <1>3, RecordsFrame

LEMMA MarkInv ==
    ASSUME IInv, NEW c \in Calls, MarkTerminated(c)
    PROVE  IInv'
<1>0. c \in Threads /\ c \notin Sessions
  BY SessionAssumption DEF Threads
<1>1. /\ UNCHANGED <<insts, tees, vm, calls, owned, runs>> /\ Ends(c)
      /\ sess' \in [Sessions -> SessionType]
      /\ sess'[thread[c].sess].status = "terminated"
      /\ \A r \in Sessions : r = thread[c].sess \/ sess'[r] = sess[r]
  BY MarkEffect DEF IInv
<1>2. WellThread(c)' /\ thread'[c].pc = "off"
  BY <1>1 DEF WellThread, Ends
<1> QED
  BY <1>0, <1>1, <1>2, RecordsFrame DEF Ends

(***************************************************************************)
(* The theorems                                                            *)
(***************************************************************************)
LEMMA EnclaveInv == IInv /\ (EnclaveReady \/ EnclaveDone \/ UNCHANGED vars) => IInv'
<1> SUFFICES ASSUME IInv, EnclaveReady \/ EnclaveDone \/ UNCHANGED vars PROVE IInv'
  OBVIOUS
<1>1. UNCHANGED <<sess, insts, tees, thread, calls, owned, runs>> /\ vm' \in {"stopped"} \cup On
  <2>1. UNCHANGED <<sess, insts, tees, thread, calls, owned, runs>>
    BY DEF EnclaveReady, EnclaveDone, vars
  <2>2. vm' = "idle" \/ vm' = "done" \/ vm' = vm
    BY DEF EnclaveReady, EnclaveDone, vars
  <2> QED
    BY <2>1, <2>2 DEF On, IInv, TypeOK
<1>2. TypeOK'
  BY <1>1 DEF IInv, TypeOK, ThreadType
<1>3. ThreadsWell' /\ GatePassed' /\ SessionSteps'
  BY <1>1 DEF IInv, ThreadsWell, WellThread, GatePassed, SessionSteps, InOrder
<1>4. LastRegistered' /\ RunsAttested' /\ CompleteWasRun'
  BY <1>1 DEF IInv, LastRegistered, DistinctIDs, RunsAttested, CompleteWasRun
<1> QED
  BY <1>2, <1>3, <1>4 DEF IInv

\* The forms a step takes.
LEMMA StepForms ==
    ASSUME Next
    PROVE  \/ \E p \in Threads : MoveStep(p) \/ PutInstance(p) \/ RecordVerdict(p) \/ RunAccepted(p)
           \/ \E s \in Sessions : SessionStep(s) \/ \E t \in TEEIDs : StartTEESession(s, t)
           \/ \E c \in Calls :
                 \/ Delete(c) \/ MarkTerminated(c)
                 \/ \E t \in TEEIDs : ProvisionTEE(c, t) \/ TEECall(c, t)
                 \/ \E s \in Sessions : TerminateTEESession(c, s)
           \/ \E i \in DOMAIN insts : VerdictExpires(i)
           \/ EnclaveReady \/ EnclaveDone
<1>1. ASSUME NEW s \in Sessions, RunTEESession(s)
      PROVE  /\ s \in Threads
             /\ MoveStep(s) \/ PutInstance(s) \/ RecordVerdict(s) \/ RunAccepted(s) \/ SessionStep(s)
  BY <1>1 DEF RunTEESession, Primitive, MoveStep, SessionStep, Threads
<1>2. ASSUME NEW c \in Calls, Call(c)
      PROVE  /\ c \in Threads
             /\ \/ MoveStep(c) \/ PutInstance(c) \/ RecordVerdict(c) \/ RunAccepted(c)
                \/ Delete(c) \/ MarkTerminated(c)
  BY <1>2 DEF Call, Primitive, MoveStep, Threads
<1> QED
  BY <1>1, <1>2 DEF Next

LEMMA InvStep == IInv /\ [Next]_vars => IInv'
<1> SUFFICES ASSUME IInv, [Next]_vars PROVE IInv'
  OBVIOUS
<1>1. ASSUME NEW p \in Threads, MoveStep(p) \/ PutInstance(p) \/ RecordVerdict(p) \/ RunAccepted(p)
      PROVE  IInv'
  BY <1>1, MoveInv, PutInv, RecordInv, AcceptInv
<1>2. ASSUME NEW s \in Sessions, SessionStep(s) \/ \E t \in TEEIDs : StartTEESession(s, t)
      PROVE  IInv'
  BY <1>2, SessionInv, StartInv
<1>3. ASSUME NEW c \in Calls,
             \/ Delete(c) \/ MarkTerminated(c)
             \/ \E t \in TEEIDs : ProvisionTEE(c, t) \/ TEECall(c, t)
             \/ \E s \in Sessions : TerminateTEESession(c, s)
      PROVE  IInv'
  BY <1>3, DeleteInv, MarkInv, BeginInv
<1>4. ASSUME NEW i \in DOMAIN insts, VerdictExpires(i) PROVE IInv'
  BY <1>4, ExpireInv
<1> QED
  BY <1>1, <1>2, <1>3, <1>4, EnclaveInv, StepForms

LEMMA Invariance == Spec => []IInv
  BY InitInv, InvStep, PTL DEF Spec

\* Whatever sessions and direct calls overlap, every goroutine's pointer is an
\* instance that was allocated, and every registry entry one of its own.
THEOREM TypeCorrect == Spec => []TypeOK
<1>1. IInv => TypeOK
  BY DEF IInv
<1> QED
  BY <1>1, Invariance, PTL

\* doRunTEE's gate: no run reaches the enclave for an instance that never got
\* a verdict, also when the verdict expires or the registry changes meanwhile.
THEOREM Attested == Spec => []RunsAttested
<1>1. IInv => RunsAttested
  BY DEF IInv
<1> QED
  BY <1>1, Invariance, PTL

\* runTEESession: a session reported complete has the output that
\* getTEESessionOutput dereferences, of a run of its own attested instance.
THEOREM CompleteMeansRun == Spec => []CompleteWasRun
<1>1. IInv => CompleteWasRun
  BY DEF IInv
<1> QED
  BY <1>1, Invariance, PTL

\* doProvisionTEE registers, doTerminateTEE stops before it removes: a VM that
\* a provision brought up and that is on stays terminable, while no request id
\* is provisioned twice.
THEOREM VMRegistered == Spec => []RunningVMIsRegistered
<1>1. ASSUME IInv PROVE RunningVMIsRegistered
  <2> SUFFICES ASSUME owned, DistinctIDs PROVE \E t \in TEEIDs : tees[t] # 0
    BY DEF RunningVMIsRegistered, DistinctIDs
  <2>1. Len(insts) # 0 /\ tees[insts[Len(insts)].tee] = Len(insts)
    BY <1>1 DEF IInv, LastRegistered
  <2>2. insts[Len(insts)].tee \in TEEIDs
    BY <1>1, <2>1, InstsFacts DEF IInv, InstanceType
  <2> QED
    BY <2>1, <2>2
<1> QED
  BY <1>1, Invariance, PTL

\* A session's goroutine writes nothing after complete or failed: only a
\* DELETE changes the status then, and it keeps the output.
THEOREM Finality == Spec => FinishedStaysFinished
<1> DEFINE Final ==
        \A s \in Sessions : sess[s].status \in {"complete", "failed"} =>
          sess'[s] = sess[s] \/ sess'[s] = [sess[s] EXCEPT !.status = "terminated"]
<1>1. ASSUME IInv, [Next]_vars PROVE Final
  <2> SUFFICES ASSUME NEW s \in Sessions, sess[s].status \in {"complete", "failed"}
               PROVE  sess'[s] = sess[s] \/ sess'[s] = [sess[s] EXCEPT !.status = "terminated"]
    OBVIOUS
  <2>0. thread[s].pc = "off"
    BY <1>1 DEF IInv, SessionSteps, InOrder
  <2>1. ASSUME NEW p \in Threads,
               MoveStep(p) \/ PutInstance(p) \/ RecordVerdict(p) \/ RunAccepted(p)
        PROVE  sess' = sess
    BY <1>1, <2>1, MoveEffect DEF IInv, PutInstance, RecordVerdict, RunAccepted
  <2>2. ASSUME NEW r \in Sessions, SessionStep(r) \/ \E t \in TEEIDs : StartTEESession(r, t)
        PROVE  sess'[s] = sess[s]
    <3>1. r # s
      BY <1>1, <2>0, <2>2, SessionEffect, StartEffect DEF IInv
    <3> QED
      BY <1>1, <2>2, <3>1, SessionEffect, StartEffect DEF IInv
  <2>3. ASSUME NEW c \in Calls, MarkTerminated(c)
        PROVE  sess'[s] = sess[s] \/ sess'[s] = [sess[s] EXCEPT !.status = "terminated"]
    BY <1>1, <2>3, MarkEffect DEF IInv
  <2>4. ASSUME \/ \E c \in Calls :
                    \/ Delete(c)
                    \/ \E t \in TEEIDs : ProvisionTEE(c, t) \/ TEECall(c, t)
                    \/ \E x \in Sessions : TerminateTEESession(c, x)
               \/ \E i \in DOMAIN insts : VerdictExpires(i)
               \/ EnclaveReady \/ EnclaveDone \/ UNCHANGED vars
        PROVE  sess' = sess
    BY <2>4 DEF Delete, ProvisionTEE, TEECall, TerminateTEESession, VerdictExpires,
       EnclaveReady, EnclaveDone, vars
  <2> QED
    BY <1>1, <2>1, <2>2, <2>3, <2>4, StepForms
<1>2. Spec => [][Final]_vars
  BY <1>1, Invariance, PTL DEF Spec
<1> QED
  BY <1>2 DEF FinishedStaysFinished
===============================================================================
