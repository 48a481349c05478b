--------------------------- MODULE JobApprovalProofs --------------------------
(***************************************************************************)
(* Proofs about JobApproval, for any items, owners and requests in flight, *)
(* whatever lookups fail and wherever a request dies; at the end, what     *)
(* holds once requests run one at a time.                                  *)
(***************************************************************************)
EXTENDS JobApproval, TLAPS

(***************************************************************************)
(* The inductive invariant                                                 *)
(***************************************************************************)
\* A copy of a job's signatures holds no good one its owner did not make.
Signs(job, sig) ==
    \A i \in Items : (sig[i].st = "signed" /\ sig[i].good) => <<job, i>> \in consented

\* An approval remembers which items were checked before it, and what it
\* accepted; it is recorded before it is granted.
ApprovalWell(q) ==
    /\ q.phase \in {"checked", "stamped", "stored"} =>
          \A i \in q.seen : audit[q.job][i].status # "none"
    /\ q.phase \in {"stamped", "stored", "recorded"} =>
          /\ q.own \subseteq KindItems(q.op) /\ q.items \subseteq q.own
          /\ q.stamp # 0
    /\ q.phase = "recorded" => \A i \in q.items : <<q.job, i>> \in approved

\* A status call that goes on found every approval, and marks what is final.
StatusWell(q) ==
    /\ q.phase \in {"verified", "created", "marked", "pending"} =>
          \A i \in q.items \cup RequiredItems : <<q.job, i>> \in approved
    /\ q.phase = "created" => final[q.job] # NoFinal

RequestWell(q) ==
    /\ q.phase # "idle" => q.job # 0
    /\ Signs(q.job, q.sig)
    /\ q.op \in {"data", "infra"} => ApprovalWell(q)
    /\ q.op = "status" => StatusWell(q)

RequestsWell == \A r \in Requests : RequestWell(req[r])

\* Audit entries are what was checked, in the order of their time.
AuditWell ==
    /\ clock # 0
    /\ \A j \in Jobs, i \in Items :
          /\ audit[j][i].status = "accepted" => <<j, i>> \in approved
          /\ audit[j][i].status = "none" => audit[j][i].stamp = 0

\* Once an item of a kind has an entry, every item of it has one.
Audited(j, i) == audit[j][i].status # "none" \/ <<j, i>> \in unowned
AuditComplete ==
    \A j \in Jobs, kind \in {Datasets, Infras} :
        (\E i \in kind : audit[j][i].status # "none") => \A i \in kind : Audited(j, i)

\* A row marked final has its record.
Recorded == row.finalized => row.job \in Jobs /\ final[row.job] # NoFinal

IInv ==
    /\ TypeOK
    /\ Signs(row.job, row.sig)
    /\ RequestsWell
    /\ AuditWell /\ AuditComplete
    /\ FinalFullyApproved /\ Recorded /\ GrantsOnlyApproved
(***************************************************************************)
(* The types                                                               *)
(***************************************************************************)
LEMMA ItemFacts ==
    /\ Providers # {} /\ Nobody \in Providers
    /\ \A i \in Items : Owner[i] \in Providers
    /\ RequiredItems \subseteq Items /\ RequiredItems # {}
    /\ \A op : KindItems(op) \in {Datasets, Infras} /\ KindItems(op) \subseteq Items
<1>1. \A i \in Items : Owner[i] \in Providers
  BY DEF Providers
<1>2. Providers # {}
  BY <1>1, ItemsAssumption DEF Items
<1>3. Nobody \in Providers
  BY <1>2 DEF Nobody
<1>4. RequiredItems \subseteq Items /\ RequiredItems # {}
  BY ItemsAssumption DEF RequiredItems, Items
<1>5. \A op : KindItems(op) \in {Datasets, Infras} /\ KindItems(op) \subseteq Items
  BY DEF KindItems, Items
<1> QED
  BY <1>1, <1>2, <1>3, <1>4, <1>5

LEMMA SignatureFacts ==
    /\ NoSignature \in Signature /\ NoSignature.st = "none"
    /\ [NoSignature EXCEPT !.st = "withdrawn"] \in Signature
    /\ [NoSignature EXCEPT !.st = "withdrawn"].st = "withdrawn"
    /\ Unsigned \in [Items -> Signature] /\ NoFinal \in [Items -> Signature]
    /\ \A i \in Items : Unsigned[i].st = "none" /\ NoFinal[i].st = "withdrawn"
<1> DEFINE w == [NoSignature EXCEPT !.st = "withdrawn"]
<1>1. NoSignature \in Signature /\ NoSignature.st = "none"
  BY DEF NoSignature, Signature
<1>2. w \in Signature /\ w.st = "withdrawn"
  BY DEF NoSignature, Signature
<1> QED
  BY <1>1, <1>2 DEF Unsigned, NoFinal

LEMMA IdleFacts == Idle \in Request /\ Idle.phase = "idle" /\ Idle.op = "none" /\ Idle.sig = Unsigned
<1>1. 0 \in 0..MaxJobs /\ 0 \in Nat
  BY JobBoundsAssumption
<1> QED
  BY <1>1, ItemFacts, SignatureFacts DEF Idle, Request, Ops, Phases

\* A request that has just loaded the row.
LEMMA CallFacts ==
    ASSUME NEW op \in Ops, NEW phase \in Phases, NEW who \in Providers, NEW job \in 0..MaxJobs,
           NEW sig \in [Items -> Signature]
    PROVE  LET q == Call(op, phase, who, job, sig) IN
           /\ q \in Request /\ q.op = op /\ q.phase = phase /\ q.job = job /\ q.sig = sig
           /\ q.items = {}
<1>1. /\ Idle \in Request /\ Idle.items = {}
  BY IdleFacts DEF Idle
<1> QED
  BY <1>1 DEF Call, Request

LEMMA SetEffect ==
    ASSUME TypeOK, NEW r \in Requests, NEW q \in Request, req' = [req EXCEPT ![r] = q]
    PROVE  /\ req' \in [Requests -> Request] /\ req'[r] = q
           /\ \A x \in Requests : x = r \/ req'[x] = req[x]
  BY DEF TypeOK

LEMMA MarkType ==
    ASSUME TypeOK, NEW job, NEW D, NEW status \in [D -> Statuses]
    PROVE  MarkParticipants(job, status) \in [Jobs -> [Items -> Statuses]]
  BY DEF MarkParticipants, TypeOK

LEMMA GrantsEffect ==
    ASSUME TypeOK, GrantsOnlyApproved, NEW job \in Jobs, NEW items \in SUBSET Items,
           \A i \in items : <<job, i>> \in approved, PostConsumerGrants(job, items)
    PROVE  grants' \subseteq Jobs \X Items /\ grants' \subseteq approved
<1>1. PICK posted \in SUBSET items : grants' = grants \cup {<<job, i>> : i \in posted}
  BY DEF PostConsumerGrants
<1> QED
  BY <1>1 DEF TypeOK, GrantsOnlyApproved

LEMMA JobFacts ==
    ASSUME TypeOK, NEW r \in Requests, RequestWell(req[r]), req[r].phase # "idle"
    PROVE  req[r].job \in Jobs /\ req[r] \in Request
<1>1. req[r] \in Request /\ req[r].job \in 0..MaxJobs /\ req[r].job # 0
  BY DEF TypeOK, Request, RequestWell
<1> QED
  BY <1>1, JobBoundsAssumption DEF Jobs

(***************************************************************************)
(* What a step leaves alone                                                *)
(***************************************************************************)
\* Approvals, consents, audit entries and final contracts are never unmade.
Grows ==
    /\ consented \subseteq consented' /\ approved \subseteq approved'
    /\ \A j \in Jobs : final[j] # NoFinal => final'[j] # NoFinal
    /\ \A j \in Jobs, i \in Items : audit[j][i].status # "none" => audit'[j][i].status # "none"

LEMMA RequestGrows ==
    ASSUME Grows, NEW q \in Request, RequestWell(q), q.phase = "idle" \/ q.job \in Jobs
    PROVE  /\ q.phase # "idle" => q.job # 0
           /\ \A i \in Items : (q.sig[i].st = "signed" /\ q.sig[i].good) => <<q.job, i>> \in consented'
           /\ q.op \in {"data", "infra"} =>
                /\ q.phase \in {"checked", "stamped", "stored"} =>
                      \A i \in q.seen : audit'[q.job][i].status # "none"
                /\ q.phase \in {"stamped", "stored", "recorded"} =>
                      /\ q.own \subseteq KindItems(q.op) /\ q.items \subseteq q.own
                      /\ q.stamp # 0
                /\ q.phase = "recorded" => \A i \in q.items : <<q.job, i>> \in approved'
           /\ q.op = "status" =>
                /\ q.phase \in {"verified", "created", "marked", "pending"} =>
                      \A i \in q.items \cup RequiredItems : <<q.job, i>> \in approved'
                /\ q.phase = "created" => final'[q.job] # NoFinal
<1>1. \A i \in q.seen : i \in Items
  BY DEF Request
<1> QED
  BY <1>1 DEF Grows, RequestWell, Signs, ApprovalWell, StatusWell

\* The other requests are still as they should be.
LEMMA RequestsFrame ==
    ASSUME TypeOK, RequestsWell, Grows, NEW r \in Requests,
           \A x \in Requests : x = r \/ req'[x] = req[x], RequestWell(req[r])'
    PROVE  RequestsWell'
<1> SUFFICES ASSUME NEW x \in Requests, x # r PROVE RequestWell(req[x])'
  BY DEF RequestsWell
<1>1. req'[x] = req[x] /\ req[x] \in Request /\ RequestWell(req[x])
  BY DEF TypeOK, RequestsWell
<1>2. req[x].phase = "idle" \/ req[x].job \in Jobs
  BY <1>1, JobFacts
<1> QED
  BY <1>1, <1>2, RequestGrows DEF RequestWell, Signs, ApprovalWell, StatusWell

\* A step that changes no audit entry, consent or final contract.
LEMMA Frame ==
    ASSUME IInv, NEW r \in Requests, NEW q \in Request, req' = [req EXCEPT ![r] = q],
           UNCHANGED <<audit, unowned, final, key, clock, consented, approved>>,
           row' \in [job : 0..MaxJobs, sig : [Items -> Signature],
                     finalized : BOOLEAN, teeEnabled : BOOLEAN],
           Signs(row'.job, row'.sig), row'.finalized => row'.job \in Jobs /\ final[row'.job] # NoFinal,
           RequestWell(q),
           participants' \in [Jobs -> [Items -> Statuses]],
           grants' \subseteq Jobs \X Items, grants' \subseteq approved,
           served' \in Nat
    PROVE  IInv'
<1>1. /\ req' \in [Requests -> Request] /\ req'[r] = q
      /\ \A x \in Requests : x = r \/ req'[x] = req[x]
  BY SetEffect DEF IInv
<1>2. TypeOK'
  BY <1>1 DEF IInv, TypeOK
<1>3. Grows
  BY DEF Grows
<1>4. RequestWell(req[r])'
  BY <1>1 DEF RequestWell, Signs, ApprovalWell, StatusWell
<1>5. RequestsWell'
  BY <1>1, <1>3, <1>4, RequestsFrame DEF IInv
<1>6. Signs(row.job, row.sig)'
  BY DEF Signs
<1>7. AuditWell' /\ AuditComplete'
  BY DEF IInv, AuditWell, AuditComplete, Audited
<1>8. FinalFullyApproved' /\ Recorded' /\ GrantsOnlyApproved'
  BY DEF IInv, FinalFullyApproved, Recorded, GrantsOnlyApproved
<1> QED
  BY <1>2, <1>5, <1>6, <1>7, <1>8 DEF IInv

(***************************************************************************)
(* Requests that load the row, and how they end                            *)
(***************************************************************************)
\* A request that loads the row copies signatures that are its providers'.
LEMMA BeginInv ==
    ASSUME IInv, NEW r \in Requests, NEW who \in Providers, NEW sig \in [Items -> Signature],
           NEW op \in Ops \ {"none"}, NEW phase \in Phases,
           \/ phase = "loaded" \/ op \in {"enable", "run", "withdraw", "edit"},
           Begin(r, op, phase, who, sig),
           \A i \in Items : (sig[i].st = "signed" /\ sig[i].good) => sig[i] = row.sig[i],
           UNCHANGED <<row, audit, unowned, final, key, participants, grants, clock,
                       consented, approved>>
    PROVE  IInv'
<1> DEFINE q == Call(op, phase, who, row.job, sig)
<1>1. req' = [req EXCEPT ![r] = q] /\ row.job # 0 /\ served' = served + 1
  BY DEF Begin
<1>2. row.job \in 0..MaxJobs /\ served' \in Nat
  BY <1>1 DEF IInv, TypeOK
<1>3. q \in Request /\ q.op = op /\ q.phase = phase /\ q.job = row.job /\ q.sig = sig
  BY <1>2, CallFacts
<1> HIDE DEF q
<1>4. Signs(q.job, q.sig)
  BY <1>3 DEF IInv, Signs
<1>5. RequestWell(q)
  BY <1>1, <1>3, <1>4 DEF RequestWell, ApprovalWell, StatusWell
<1>6. /\ Signs(row.job, row.sig) /\ Recorded
      /\ participants \in [Jobs -> [Items -> Statuses]]
      /\ grants \subseteq Jobs \X Items /\ grants \subseteq approved
      /\ row \in [job : 0..MaxJobs, sig : [Items -> Signature],
                  finalized : BOOLEAN, teeEnabled : BOOLEAN]
  BY DEF IInv, TypeOK, Recorded, GrantsOnlyApproved
<1> QED
  BY <1>1, <1>2, <1>3, <1>5, <1>6, Frame DEF Recorded

LEMMA LoadInv ==
    ASSUME IInv, NEW r \in Requests,
           \/ \E op \in {"data", "infra"}, p \in Providers : ApproveLoad(r, op, p)
           \/ StatusLoad(r) \/ EnableGate(r) \/ RunGate(r) \/ EditLoad(r)
    PROVE  IInv'
<1>1. row.sig \in [Items -> Signature]
  BY DEF IInv, TypeOK
<1>2. PICK op \in Ops \ {"none"}, phase \in Phases, who \in Providers :
          /\ phase = "loaded" \/ op \in {"enable", "run", "withdraw", "edit"}
          /\ Begin(r, op, phase, who, row.sig)
          /\ UNCHANGED <<row, audit, unowned, final, key, participants, grants, clock,
                         consented, approved>>
  BY ItemFacts DEF ApproveLoad, StatusLoad, EnableGate, RunGate, EditLoad, Ops, Phases
<1> QED
  BY <1>1, <1>2, BeginInv

LEMMA WithdrawInv ==
    ASSUME IInv, NEW r \in Requests, NEW p \in Providers, WithdrawLoad(r, p)
    PROVE  IInv'
<1> DEFINE sig == [i \in Items |-> IF i \in Own("data", p) THEN [NoSignature EXCEPT !.st = "withdrawn"]
                                   ELSE row.sig[i]]
<1>1. /\ Begin(r, "withdraw", "stamped", p, sig)
      /\ UNCHANGED <<row, audit, unowned, final, key, participants, grants, clock,
                     consented, approved>>
  BY DEF WithdrawLoad
<1>2. sig \in [Items -> Signature]
  BY SignatureFacts DEF IInv, TypeOK
<1>3. \A i \in Items : (sig[i].st = "signed" /\ sig[i].good) => sig[i] = row.sig[i]
  BY SignatureFacts
<1>4. "withdraw" \in Ops \ {"none"} /\ "stamped" \in Phases
  BY DEF Ops, Phases
<1> HIDE DEF sig
<1> QED
  BY <1>1, <1>2, <1>3, <1>4, BeginInv

\* A request goes on with q, and leaves the row alone.
LEMMA StepInv ==
    ASSUME IInv, NEW r \in Requests, NEW q \in Request, Step(r, q), RequestWell(q),
           UNCHANGED <<row, audit, unowned, final, key, clock, consented, approved>>,
           participants' \in [Jobs -> [Items -> Statuses]],
           grants' \subseteq Jobs \X Items, grants' \subseteq approved
    PROVE  IInv'
<1>1. req' = [req EXCEPT ![r] = q] /\ UNCHANGED served
  BY DEF Step
<1>2. /\ Signs(row.job, row.sig) /\ Recorded
      /\ row \in [job : 0..MaxJobs, sig : [Items -> Signature],
                  finalized : BOOLEAN, teeEnabled : BOOLEAN]
      /\ served \in Nat
  BY DEF IInv, TypeOK, Recorded
<1> QED
  BY <1>1, <1>2, Frame DEF Recorded

LEMMA IdleWell == IInv => RequestWell(Idle)
  BY IdleFacts, SignatureFacts DEF RequestWell, Signs

\* A request ends, and leaves the row alone.
LEMMA EndInv ==
    ASSUME IInv, NEW r \in Requests, End(r),
           UNCHANGED <<row, audit, unowned, final, key, clock, consented, approved>>,
           participants' \in [Jobs -> [Items -> Statuses]],
           grants' \subseteq Jobs \X Items, grants' \subseteq approved
    PROVE  IInv'
<1>1. Step(r, Idle)
  BY DEF End
<1> QED
  BY <1>1, IdleFacts, IdleWell, StepInv

LEMMA EndsInv ==
    ASSUME IInv, NEW r \in Requests,
           ApproveRefuse(r) \/ Abort(r) \/ GenerateFinish(r) \/ WithdrawFinish(r) \/ ApproveFinish(r)
    PROVE  IInv'
<1>1. /\ grants \subseteq Jobs \X Items /\ grants \subseteq approved
      /\ participants \in [Jobs -> [Items -> Statuses]]
      /\ RequestWell(req[r])
  BY DEF IInv, TypeOK, GrantsOnlyApproved, RequestsWell
<1>2. CASE ApproveRefuse(r) \/ Abort(r)
  BY <1>1, <1>2, EndInv DEF ApproveRefuse, Abort
<1>3. CASE GenerateFinish(r)
  <2>1. participants' \in [Jobs -> [Items -> Statuses]]
    BY <1>1, <1>3 DEF GenerateFinish, Statuses
  <2> QED
    BY <1>1, <1>3, <2>1, EndInv DEF GenerateFinish
<1>4. CASE WithdrawFinish(r)
  <2> DEFINE D == Own("data", req[r].who)
             status == [i \in D |-> "withdrawn"]
  <2>1. status \in [D -> Statuses]
    BY DEF Statuses
  <2>2. participants' = MarkParticipants(req[r].job, status)
    BY <1>4 DEF WithdrawFinish
  <2> HIDE DEF status
  <2>3. participants' \in [Jobs -> [Items -> Statuses]]
    BY <2>1, <2>2, MarkType DEF IInv
  <2> QED
    BY <1>1, <1>4, <2>3, EndInv DEF WithdrawFinish
<1>5. CASE ApproveFinish(r)
  <2> DEFINE q == req[r]
             status == [i \in q.own |-> ParticipantStatus(i \in q.items)]
  <2>1. status \in [q.own -> Statuses]
    BY DEF Statuses, ParticipantStatus
  <2>2. /\ participants' = MarkParticipants(q.job, status)
        /\ PostConsumerGrants(q.job, q.items) \/ UNCHANGED grants
        /\ q.op \in {"data", "infra"} /\ q.phase = "recorded"
        /\ End(r) /\ UNCHANGED <<row, audit, unowned, final, key, clock, consented, approved>>
    BY <1>5 DEF ApproveFinish, Granted, IsApproval
  <2> HIDE DEF status
  <2>3. participants' \in [Jobs -> [Items -> Statuses]]
    BY <2>1, <2>2, MarkType DEF IInv
  <2>4. q.job \in Jobs /\ q.items \in SUBSET Items /\ \A i \in q.items : <<q.job, i>> \in approved
    BY <1>1, <2>2, JobFacts DEF IInv, RequestWell, ApprovalWell, Request
  <2>5. grants' \subseteq Jobs \X Items /\ grants' \subseteq approved
    BY <1>1, <2>2, <2>4, GrantsEffect DEF IInv
  <2> QED
    BY <2>2, <2>3, <2>5, EndInv
<1> QED
  BY <1>2, <1>3, <1>4, <1>5

(***************************************************************************)
(* Requests that go on, or change the row                                  *)
(***************************************************************************)
\* What the frames need of a state that is as it should be.
LEMMA Kept ==
    ASSUME IInv
    PROVE  /\ Signs(row.job, row.sig) /\ Recorded
           /\ participants \in [Jobs -> [Items -> Statuses]]
           /\ grants \subseteq Jobs \X Items /\ grants \subseteq approved
           /\ served \in Nat
           /\ row \in [job : 0..MaxJobs, sig : [Items -> Signature],
                       finalized : BOOLEAN, teeEnabled : BOOLEAN]
           /\ \A r \in Requests : RequestWell(req[r]) /\ req[r] \in Request
  BY DEF IInv, TypeOK, Recorded, GrantsOnlyApproved, RequestsWell

LEMMA GenerateInv ==
    ASSUME IInv, NEW r \in Requests, Generate(r)
    PROVE  IInv'
<1> DEFINE q == Call("generate", "stored", Nobody, row.job + 1, Unsigned)
           j == row.job + 1
<1>1. /\ j \in Jobs /\ req' = [req EXCEPT ![r] = q] /\ served' = served + 1
      /\ row' = [job |-> j, sig |-> Unsigned, finalized |-> FALSE, teeEnabled |-> FALSE]
      /\ UNCHANGED <<audit, unowned, final, key, participants, grants, clock, consented, approved>>
  BY DEF Generate, StoreGeneratedContract
<1>2. j \in 0..MaxJobs /\ j # 0
  BY <1>1, JobBoundsAssumption DEF Jobs
<1>3. "generate" \in Ops /\ "stored" \in Phases
  BY DEF Ops, Phases
<1>4. q \in Request /\ q.op = "generate" /\ q.phase = "stored" /\ q.job = j /\ q.sig = Unsigned
  BY <1>2, <1>3, ItemFacts, SignatureFacts, CallFacts
<1> HIDE DEF q
<1>5. RequestWell(q)
  BY <1>2, <1>4, SignatureFacts DEF RequestWell, Signs
<1>6. /\ row' \in [job : 0..MaxJobs, sig : [Items -> Signature],
                   finalized : BOOLEAN, teeEnabled : BOOLEAN]
      /\ Signs(row'.job, row'.sig) /\ ~row'.finalized
  BY <1>1, <1>2, SignatureFacts DEF Signs
<1>7. served' \in Nat
  BY <1>1, Kept
<1> QED
  BY <1>1, <1>4, <1>5, <1>6, <1>7, Kept, Frame

LEMMA CheckInv ==
    ASSUME IInv, NEW r \in Requests, ApproveCheck(r)
    PROVE  IInv'
<1> DEFINE q == req[r]
           seen == {i \in KindItems(q.op) : audit[q.job][i].status # "none"}
           h == [q EXCEPT !.phase = "checked", !.seen = seen]
<1>1. /\ q.op \in {"data", "infra"} /\ q.phase = "loaded" /\ Step(r, h)
      /\ UNCHANGED <<row, audit, unowned, final, key, participants, grants, clock, consented, approved>>
  BY DEF ApproveCheck, IsApproval
<1>2. q \in Request /\ RequestWell(q) /\ seen \in SUBSET Items
  BY Kept, ItemFacts
<1>3. h \in Request /\ h.phase = "checked" /\ h.seen = seen /\ h.op = q.op /\ h.job = q.job /\ h.sig = q.sig
  BY <1>2 DEF Request, Phases
<1>4. \A i \in seen : audit[q.job][i].status # "none"
  OBVIOUS
<1> HIDE DEF h, seen
<1>5. RequestWell(h)
  BY <1>1, <1>2, <1>3, <1>4 DEF RequestWell, Signs, ApprovalWell
<1> QED
  BY <1>1, <1>3, <1>5, Kept, StepInv

LEMMA StoreApprovalInv ==
    ASSUME IInv, NEW r \in Requests, ApproveStore(r)
    PROVE  IInv'
<1> DEFINE q == req[r]
           h == [q EXCEPT !.phase = "stored"]
<1>0. q \in Request /\ RequestWell(q)
  BY Kept
<1>1. /\ q.op \in {"data", "infra"} /\ q.phase = "stamped"
      /\ UNCHANGED <<audit, unowned, final, key, participants, grants, clock, consented, approved>>
  BY DEF ApproveStore, IsApproval
<1>2. CASE q.items = {} \/ row.job = q.job
  <2>1. /\ row' = [row EXCEPT !.sig = IF q.items = {} THEN @ ELSE q.sig]
        /\ Step(r, h)
    BY <1>2 DEF ApproveStore
  <2>2. /\ h \in Request /\ h.phase = "stored" /\ h.op = q.op /\ h.job = q.job /\ h.sig = q.sig
        /\ h.seen = q.seen /\ h.own = q.own /\ h.items = q.items /\ h.stamp = q.stamp
    BY <1>0 DEF Request, Phases
  <2>3. req' = [req EXCEPT ![r] = h] /\ UNCHANGED served
    BY <2>1 DEF Step
  <2> HIDE DEF h
  <2>4. RequestWell(h)
    BY <1>0, <1>1, <2>2 DEF RequestWell, Signs, ApprovalWell
  <2>5. /\ row' \in [job : 0..MaxJobs, sig : [Items -> Signature],
                     finalized : BOOLEAN, teeEnabled : BOOLEAN]
        /\ row'.job = row.job /\ row'.finalized = row.finalized
        /\ row'.sig = row.sig \/ (row'.sig = q.sig /\ row.job = q.job)
    BY <1>0, <1>2, <2>1, Kept DEF Request
  <2>6. Signs(row'.job, row'.sig)
    BY <1>0, <2>5, Kept DEF RequestWell
  <2> QED
    BY <1>1, <2>2, <2>3, <2>4, <2>5, <2>6, Kept, Frame DEF Recorded
<1>3. CASE ~(q.items = {} \/ row.job = q.job)
  BY <1>1, <1>3, Kept, EndInv DEF ApproveStore
<1> QED
  BY <1>2, <1>3

LEMMA StoreInv ==
    ASSUME IInv, NEW r \in Requests, Store(r)
    PROVE  IInv'
<1> DEFINE q == req[r]
           h == [q EXCEPT !.phase = "stored"]
<1>0. q \in Request /\ RequestWell(q)
  BY Kept
<1>1. /\ q.op \in {"withdraw", "edit"} /\ q.phase = "stamped"
      /\ UNCHANGED <<audit, unowned, final, key, participants, grants, clock, consented, approved>>
  BY DEF Store
<1>2. CASE row.job = q.job
  <2>1. /\ row' = [row EXCEPT !.sig = q.sig]
        /\ Step(r, Idle) \/ (q.op # "edit" /\ Step(r, h))
    BY <1>2 DEF Store
  <2>2. h \in Request /\ h.phase = "stored" /\ h.op = q.op /\ h.job = q.job /\ h.sig = q.sig
    BY <1>0 DEF Request, Phases
  <2> HIDE DEF h
  <2>3. RequestWell(h)
    BY <1>0, <1>1, <2>2 DEF RequestWell, Signs
  <2>4. PICK x \in Request : RequestWell(x) /\ req' = [req EXCEPT ![r] = x] /\ UNCHANGED served
    BY <2>1, <2>2, <2>3, IdleFacts, IdleWell DEF Step
  <2>5. /\ row' \in [job : 0..MaxJobs, sig : [Items -> Signature],
                     finalized : BOOLEAN, teeEnabled : BOOLEAN]
        /\ row'.job = row.job /\ row'.finalized = row.finalized
        /\ row'.sig = q.sig
    BY <1>0, <2>1, Kept DEF Request
  <2>6. Signs(row'.job, row'.sig)
    BY <1>0, <1>2, <2>5 DEF RequestWell
  <2> QED
    BY <1>1, <2>4, <2>5, <2>6, Kept, Frame DEF Recorded
<1>3. CASE row.job # q.job
  BY <1>1, <1>3, Kept, EndInv DEF Store
<1> QED
  BY <1>2, <1>3

(***************************************************************************)
(* The status call, the enable and the run                                 *)
(***************************************************************************)
\* overallStatus says accepted only when every item of the kind has passed.
LEMMA AcceptedFacts ==
    ASSUME IInv, NEW j \in Jobs, NEW kind \in {Datasets, Infras},
           OverallStatus(j, kind) = "accepted"
    PROVE  \A i \in kind : <<j, i>> \in approved
<1> DEFINE entries == {audit[j][i].status : i \in kind} \ {"none"}
           others == {"rejected" : i \in {x \in kind : <<j, x>> \in unowned}}
           statuses == entries \cup others
<1>1. statuses = {"accepted"}
  <2>1. OverallStatus(j, kind) = IF statuses = {} THEN "pending"
                                 ELSE IF statuses = {"accepted"} THEN "accepted" ELSE "rejected"
    BY DEF OverallStatus
  <2> QED
    BY <2>1
<1>2. \A i \in kind : audit[j][i].status \in {"none", "accepted"}
  BY <1>1
<1>3. \A i \in kind : <<j, i>> \notin unowned
  <2>1. ASSUME NEW i \in kind, <<j, i>> \in unowned PROVE FALSE
    <3>1. "rejected" \in others
      BY <2>1
    <3> HIDE DEF entries, others
    <3>2. "rejected" \in {"accepted"}
      BY <1>1, <3>1
    <3> QED
      BY <3>2
  <2> QED
    BY <2>1
<1>4. \E i \in kind : audit[j][i].status # "none"
  BY <1>1
<1>5. \A i \in kind : Audited(j, i)
  BY <1>4 DEF IInv, AuditComplete
<1> QED
  BY <1>2, <1>3, <1>5 DEF IInv, Audited, AuditWell, Items

LEMMA StatusCheckInv ==
    ASSUME IInv, NEW r \in Requests, StatusCheck(r)
    PROVE  IInv'
<1> DEFINE q == req[r]
           ok == {i \in Items : audit[q.job][i].status = "accepted"}
           h == [q EXCEPT !.phase = "verified", !.items = ok]
<1>0. q \in Request /\ RequestWell(q)
  BY Kept
<1>1. /\ q.op = "status" /\ q.phase = "loaded"
      /\ UNCHANGED <<row, audit, unowned, final, key, participants, grants, clock, consented, approved>>
  BY DEF StatusCheck, At
<1>2. CASE JobAccepted(q.job) /\ ProviderSignatures(q.sig)
  <2>1. Step(r, h)
    BY <1>2 DEF StatusCheck
  <2>2. q.job \in Jobs
    BY <1>0, <1>1, JobFacts DEF IInv
  <2>3. \A i \in RequiredItems : <<q.job, i>> \in approved
    BY <1>2, <2>2, AcceptedFacts DEF JobAccepted, RequiredItems
  <2>4. \A i \in ok : <<q.job, i>> \in approved
    BY <2>2 DEF IInv, AuditWell
  <2>5. h \in Request /\ h.phase = "verified" /\ h.items = ok /\ h.op = q.op /\ h.job = q.job /\ h.sig = q.sig
    BY <1>0 DEF Request, Phases
  <2> HIDE DEF h, ok
  <2>6. RequestWell(h)
    BY <1>0, <1>1, <2>3, <2>4, <2>5 DEF RequestWell, Signs, StatusWell
  <2> QED
    BY <1>1, <2>1, <2>5, <2>6, Kept, StepInv
<1>3. CASE ~(JobAccepted(q.job) /\ ProviderSignatures(q.sig))
  BY <1>1, <1>3, Kept, EndInv DEF StatusCheck
<1> QED
  BY <1>2, <1>3

LEMMA CreateInv ==
    ASSUME IInv, NEW r \in Requests, StatusCreate(r)
    PROVE  IInv'
<1> DEFINE q == req[r]
           Next1(h) == /\ h \in Request /\ h.op = q.op /\ h.job = q.job /\ h.sig = q.sig
                       /\ h.items = q.items
<1>0. q \in Request /\ RequestWell(q)
  BY Kept
<1>1. /\ q.op = "status" /\ q.phase = "verified"
      /\ UNCHANGED <<row, audit, unowned, key, participants, grants, clock, consented, approved>>
  BY DEF StatusCreate, At
<1>2. CASE ProviderSignatures(q.sig)
  <2> DEFINE j == q.job
             h == [q EXCEPT !.phase = "created"]
  <2>1. final' = [final EXCEPT ![j] = IF @ = NoFinal THEN q.sig ELSE @] /\ Step(r, h)
    BY <1>2 DEF StatusCreate, CreateFinalContract
  <2>2. j \in Jobs /\ q.sig \in [Items -> Signature]
    BY <1>0, <1>1, JobFacts DEF IInv, Request
  <2>3. q.sig # NoFinal
    <3>1. PICK i \in RequiredItems : i \in Items /\ q.sig[i].st = "signed"
      BY <1>2, ItemFacts DEF ProviderSignatures
    <3> QED
      BY <3>1, SignatureFacts
  <2>4. h \in Request /\ h.phase = "created" /\ Next1(h)
    BY <1>0 DEF Request, Phases
  <2>5. req' = [req EXCEPT ![r] = h] /\ UNCHANGED served
    BY <2>1 DEF Step
  <2> HIDE DEF h
  <2>6. /\ final' \in [Jobs -> [Items -> Signature]] /\ final'[j] # NoFinal
        /\ \A k \in Jobs : final[k] # NoFinal => final'[k] = final[k]
        /\ \A k \in Jobs : k # j => final'[k] = final[k]
    <3>1. final \in [Jobs -> [Items -> Signature]]
      BY DEF IInv, TypeOK
    <3>2. CASE final[j] = NoFinal
      BY <2>1, <2>2, <2>3, <3>1, <3>2
    <3>3. CASE final[j] # NoFinal
      BY <2>1, <2>2, <3>1, <3>3
    <3> QED
      BY <3>2, <3>3
  <2>7. /\ req' \in [Requests -> Request] /\ req'[r] = h
        /\ \A x \in Requests : x = r \/ req'[x] = req[x]
    BY <2>4, <2>5, SetEffect DEF IInv
  <2>8. TypeOK'
    BY <1>1, <2>5, <2>6, <2>7 DEF IInv, TypeOK
  <2>9. Grows
    BY <1>1, <2>6 DEF Grows
  <2>10. RequestWell(req[r])'
    BY <1>0, <1>1, <2>4, <2>6, <2>7 DEF RequestWell, Signs, StatusWell
  <2>11. RequestsWell'
    BY <2>7, <2>9, <2>10, RequestsFrame DEF IInv
  <2>12. \A i \in RequiredItems : <<j, i>> \in consented /\ <<j, i>> \in approved
    BY <1>0, <1>1, <1>2, ItemFacts DEF RequestWell, Signs, StatusWell, ProviderSignatures
  <2>13. FinalFullyApproved'
    <3> SUFFICES ASSUME NEW k \in Jobs, final'[k] # NoFinal
                 PROVE  \A i \in RequiredItems : <<k, i>> \in consented /\ <<k, i>> \in approved
      BY <1>1 DEF FinalFullyApproved
    <3>1. CASE k = j
      BY <2>12, <3>1
    <3>2. CASE k # j
      BY <2>6, <3>2 DEF IInv, FinalFullyApproved
    <3> QED
      BY <3>1, <3>2
  <2>14. Recorded'
    BY <1>1, <2>6 DEF IInv, Recorded
  <2> QED
    BY <1>1, <2>8, <2>11, <2>13, <2>14
       DEF IInv, Signs, AuditWell, AuditComplete, Audited, GrantsOnlyApproved
<1>3. CASE ~ProviderSignatures(q.sig)
  <2> DEFINE h == [q EXCEPT !.phase = "pending"]
  <2>1. UNCHANGED final /\ Step(r, h)
    BY <1>3 DEF StatusCreate
  <2>2. h \in Request /\ h.phase = "pending" /\ Next1(h)
    BY <1>0 DEF Request, Phases
  <2> HIDE DEF h
  <2>3. RequestWell(h)
    BY <1>0, <1>1, <2>2 DEF RequestWell, Signs, StatusWell
  <2> QED
    BY <1>1, <2>1, <2>2, <2>3, Kept, StepInv
<1> QED
  BY <1>2, <1>3

LEMMA MarkInv ==
    ASSUME IInv, NEW r \in Requests, StatusMark(r)
    PROVE  IInv'
<1> DEFINE q == req[r]
           h == [q EXCEPT !.phase = "marked"]
<1>0. q \in Request /\ RequestWell(q)
  BY Kept
<1>1. /\ q.op = "status" /\ q.phase = "created" /\ Step(r, h)
      /\ row' = [row EXCEPT !.finalized = @ \/ row.job = q.job]
      /\ UNCHANGED <<audit, unowned, final, key, participants, grants, clock, consented, approved>>
  BY DEF StatusMark, At
<1>2. h \in Request /\ h.phase = "marked" /\ h.op = q.op /\ h.job = q.job /\ h.sig = q.sig /\ h.items = q.items
  BY <1>0 DEF Request, Phases
<1>3. req' = [req EXCEPT ![r] = h] /\ UNCHANGED served
  BY <1>1 DEF Step
<1> HIDE DEF h
<1>4. RequestWell(h)
  BY <1>0, <1>1, <1>2 DEF RequestWell, Signs, StatusWell
<1>5. /\ row' \in [job : 0..MaxJobs, sig : [Items -> Signature],
                   finalized : BOOLEAN, teeEnabled : BOOLEAN]
      /\ row'.job = row.job /\ row'.sig = row.sig
      /\ row'.finalized = (row.finalized \/ row.job = q.job)
  BY <1>1, Kept
<1>6. row'.finalized => row'.job \in Jobs /\ final[row'.job] # NoFinal
  BY <1>0, <1>1, <1>5, Kept, JobFacts DEF IInv, Recorded, RequestWell, StatusWell
<1> QED
  BY <1>1, <1>2, <1>3, <1>4, <1>5, <1>6, Kept, Frame

LEMMA StatusFinishInv ==
    ASSUME IInv, NEW r \in Requests, StatusFinish(r)
    PROVE  IInv'
<1> DEFINE q == req[r]
           status == [i \in Items |-> "final"]
<1>0. q \in Request /\ RequestWell(q)
  BY Kept
<1>1. /\ q.op = "status" /\ q.phase \in {"marked", "pending"}
      /\ participants' = MarkParticipants(q.job, status) \/ UNCHANGED participants
      /\ PostConsumerGrants(q.job, q.items) /\ End(r)
      /\ UNCHANGED <<row, audit, unowned, final, key, clock, consented, approved>>
  BY DEF StatusFinish, At, Granted
<1>2. status \in [Items -> Statuses]
  BY DEF Statuses
<1> HIDE DEF status
<1>3. participants' \in [Jobs -> [Items -> Statuses]]
  BY <1>1, <1>2, MarkType, Kept DEF IInv
<1>4. q.job \in Jobs /\ q.items \in SUBSET Items /\ \A i \in q.items : <<q.job, i>> \in approved
  BY <1>0, <1>1, JobFacts DEF IInv, RequestWell, StatusWell, Request
<1>5. grants' \subseteq Jobs \X Items /\ grants' \subseteq approved
  BY <1>1, <1>4, GrantsEffect DEF IInv
<1> QED
  BY <1>1, <1>3, <1>5, EndInv

LEMMA EnableInv ==
    ASSUME IInv, NEW r \in Requests, EnableFinish(r) \/ RunStart(r)
    PROVE  IInv'
<1> DEFINE q == req[r]
           status == [i \in Items |-> "tee_enabled"]
<1>1. /\ End(r)
      /\ participants' = MarkParticipants(q.job, status) \/ UNCHANGED participants
      /\ \/ row' = [row EXCEPT !.teeEnabled = TRUE]
         \/ row' = [row EXCEPT !.teeEnabled = @ \/ row.job = q.job]
         \/ row' = row
      /\ UNCHANGED <<audit, unowned, final, key, grants, clock, consented, approved>>
  BY DEF EnableFinish, RunStart, RunMarks
<1>2. status \in [Items -> Statuses]
  BY DEF Statuses
<1> HIDE DEF status
<1>3. participants' \in [Jobs -> [Items -> Statuses]]
  BY <1>1, <1>2, MarkType, Kept DEF IInv
<1>4. /\ row' \in [job : 0..MaxJobs, sig : [Items -> Signature],
                   finalized : BOOLEAN, teeEnabled : BOOLEAN]
      /\ row'.job = row.job /\ row'.sig = row.sig /\ row'.finalized = row.finalized
  BY <1>1, Kept
<1>5. req' = [req EXCEPT ![r] = Idle] /\ UNCHANGED served
  BY <1>1 DEF End, Step
<1> QED
  BY <1>1, <1>3, <1>4, <1>5, Kept, IdleFacts, IdleWell, Frame DEF Recorded

(***************************************************************************)
(* Approvals                                                               *)
(***************************************************************************)
LEMMA StampInv ==
    ASSUME IInv, NEW r \in Requests, NEW lost \in SUBSET Infras, NEW ok \in SUBSET Items,
           NEW good \in BOOLEAN, ApproveStamp(r, lost, ok, good)
    PROVE  IInv'
<1> DEFINE q == req[r]
           own == Own(q.op, q.who) \ lost
           s == [st |-> "signed", good |-> good, key |-> IF good THEN key[q.who] ELSE 0]
           sig == [i \in Items |-> IF i \in ok THEN s ELSE q.sig[i]]
           h == [q EXCEPT !.phase = "stamped", !.stamp = clock, !.own = own, !.items = ok,
                          !.lost = lost, !.sig = sig]
<1>0. q \in Request /\ RequestWell(q)
  BY Kept
<1>1. /\ q.op \in {"data", "infra"} /\ q.phase = "checked" /\ Step(r, h)
      /\ ok \subseteq own /\ clock' = clock + 1
      /\ consented' = consented \cup {<<q.job, i>> : i \in IF good THEN ok ELSE {}}
      /\ UNCHANGED <<row, audit, unowned, final, key, participants, grants, approved>>
  BY DEF ApproveStamp, IsApproval, SignApprovedItems
<1>2. q.job \in Jobs /\ own \subseteq KindItems(q.op) /\ own \in SUBSET Items
  BY <1>0, <1>1, JobFacts, ItemFacts DEF IInv, Own
<1>3. clock \in Nat /\ clock # 0 /\ clock' \in Nat /\ clock' # 0
  BY <1>1 DEF IInv, TypeOK, AuditWell
<1>4. s \in Signature /\ s.good = good
  <2>1. (IF good THEN key[q.who] ELSE 0) \in Nat
    BY <1>0 DEF IInv, TypeOK, Request
  <2> QED
    BY <2>1 DEF Signature
<1> HIDE DEF s, own
<1>5. sig \in [Items -> Signature]
  BY <1>0, <1>4 DEF Request
<1>6. \A i \in Items : (sig[i].st = "signed" /\ sig[i].good) => <<q.job, i>> \in consented'
  <2> SUFFICES ASSUME NEW i \in Items, sig[i].st = "signed", sig[i].good
               PROVE  <<q.job, i>> \in consented'
    OBVIOUS
  <2>1. CASE i \in ok
    BY <1>1, <1>4, <2>1
  <2>2. CASE i \notin ok
    BY <1>0, <1>1, <2>2 DEF RequestWell, Signs
  <2> QED
    BY <2>1, <2>2
<1> HIDE DEF sig
<1>7. /\ h \in Request /\ h.phase = "stamped" /\ h.op = q.op /\ h.job = q.job /\ h.sig = sig
      /\ h.own = own /\ h.items = ok /\ h.stamp = clock /\ h.seen = q.seen
  BY <1>0, <1>2, <1>3, <1>5 DEF Request, Phases
<1>8. req' = [req EXCEPT ![r] = h] /\ UNCHANGED served
  BY <1>1 DEF Step
<1> HIDE DEF h
<1>9. /\ req' \in [Requests -> Request] /\ req'[r] = h
      /\ \A x \in Requests : x = r \/ req'[x] = req[x]
  BY <1>7, <1>8, SetEffect DEF IInv
<1>10. consented \subseteq consented' /\ consented' \subseteq Jobs \X Items
  BY <1>1, <1>2 DEF IInv, TypeOK
<1>11. TypeOK'
  BY <1>1, <1>3, <1>8, <1>9, <1>10 DEF IInv, TypeOK
<1>12. Grows
  BY <1>1, <1>10 DEF Grows
<1>13. RequestWell(req[r])'
  BY <1>0, <1>1, <1>2, <1>3, <1>6, <1>7, <1>9 DEF RequestWell, Signs, ApprovalWell
<1>14. RequestsWell'
  BY <1>9, <1>12, <1>13, RequestsFrame DEF IInv
<1>15. Signs(row.job, row.sig)'
  BY <1>1, <1>10 DEF IInv, Signs
<1>16. AuditWell' /\ AuditComplete'
  BY <1>1, <1>3 DEF IInv, AuditWell, AuditComplete, Audited
<1>17. FinalFullyApproved' /\ Recorded' /\ GrantsOnlyApproved'
  BY <1>1, <1>10 DEF IInv, FinalFullyApproved, Recorded, GrantsOnlyApproved
<1> QED
  BY <1>11, <1>14, <1>15, <1>16, <1>17 DEF IInv

\* The rows an approval adds leave no item of its kind without an entry.
LEMMA AuditInv ==
    ASSUME IInv, NEW r \in Requests, ApproveAudit(r)
    PROVE  IInv'
<1> DEFINE q == req[r]
           j == q.job
           kind == KindItems(q.op)
           rows == q.own \cup Awaiting(q)
           e(i) == [stamp |-> q.stamp, status |-> IF i \in q.items THEN "accepted" ELSE "rejected"]
           h == [q EXCEPT !.phase = "recorded"]
<1>0. q \in Request /\ RequestWell(q)
  BY Kept
<1>1. /\ q.op \in {"data", "infra"} /\ q.phase = "stored" /\ Step(r, h)
      /\ audit' = [audit EXCEPT ![j] =
            [i \in Items |-> IF i \in rows /\ q.stamp > audit[j][i].stamp THEN e(i) ELSE audit[j][i]]]
      /\ unowned' = unowned \cup {<<j, i>> : i \in q.lost}
      /\ approved' = approved \cup {<<j, i>> : i \in q.items}
      /\ UNCHANGED <<row, final, key, participants, grants, clock, consented>>
  BY DEF ApproveAudit, IsApproval
<1>2. /\ j \in Jobs /\ kind \in {Datasets, Infras} /\ kind \subseteq Items
      /\ q.own \subseteq kind /\ q.items \subseteq q.own /\ q.stamp \in Nat /\ q.stamp # 0
      /\ \A i \in q.seen : audit[j][i].status # "none"
      /\ q.lost \subseteq Infras
  BY <1>0, <1>1, JobFacts, ItemFacts DEF IInv, RequestWell, ApprovalWell, Request
<1>3. rows \subseteq kind /\ \A i \in kind : i \in rows \/ i \in q.lost \/ i \in q.seen
  BY <1>2 DEF Awaiting
<1>4. audit \in [Jobs -> [Items -> Entry]] /\ \A k \in Jobs, i \in Items :
          /\ audit[k][i] \in Entry
          /\ audit[k][i].status = "accepted" => <<k, i>> \in approved
          /\ audit[k][i].status = "none" => audit[k][i].stamp = 0
  BY DEF IInv, TypeOK, AuditWell
<1>5. \A i \in Items : e(i) \in Entry /\ e(i).stamp = q.stamp /\ e(i).status # "none"
                    /\ (e(i).status = "accepted" => i \in q.items)
  BY <1>2 DEF Entry
<1> HIDE DEF rows, e
<1>6. /\ audit' \in [Jobs -> [Items -> Entry]]
      /\ \A k \in Jobs : k # j => audit'[k] = audit[k]
      /\ \A i \in Items : audit'[j][i] =
            IF i \in rows /\ q.stamp > audit[j][i].stamp THEN e(i) ELSE audit[j][i]
  BY <1>1, <1>2, <1>4, <1>5
<1>7. \A i \in Items : \/ audit'[j][i] = audit[j][i]
                       \/ i \in rows /\ audit'[j][i] = e(i)
  BY <1>6
<1>8. \A i \in rows : audit'[j][i].status # "none"
  <2> SUFFICES ASSUME NEW i \in rows PROVE audit'[j][i].status # "none"
    OBVIOUS
  <2>1. i \in Items
    BY <1>2, <1>3
  <2>2. CASE q.stamp > audit[j][i].stamp
    BY <1>5, <1>6, <2>1, <2>2
  <2>3. CASE ~(q.stamp > audit[j][i].stamp)
    <3>0. audit[j][i].stamp \in Nat
      BY <1>2, <1>4, <2>1 DEF Entry
    <3>1. audit[j][i].stamp # 0
      BY <1>2, <2>3, <3>0
    <3>2. audit[j][i].status # "none"
      BY <1>2, <1>4, <2>1, <3>1
    <3> QED
      BY <1>6, <2>1, <2>3, <3>2
  <2> QED
    BY <2>2, <2>3
<1>9. \A k \in Jobs, i \in Items : audit[k][i].status # "none" => audit'[k][i].status # "none"
  BY <1>5, <1>6, <1>7
<1>10. /\ h \in Request /\ h.phase = "recorded" /\ h.op = q.op /\ h.job = j /\ h.sig = q.sig
       /\ h.own = q.own /\ h.items = q.items /\ h.stamp = q.stamp
  BY <1>0 DEF Request, Phases
<1>11. req' = [req EXCEPT ![r] = h] /\ UNCHANGED served
  BY <1>1 DEF Step
<1> HIDE DEF h
<1>12. /\ req' \in [Requests -> Request] /\ req'[r] = h
       /\ \A x \in Requests : x = r \/ req'[x] = req[x]
  BY <1>10, <1>11, SetEffect DEF IInv
<1>13. unowned' \subseteq Jobs \X Infras /\ approved \subseteq approved' /\ approved' \subseteq Jobs \X Items
  BY <1>1, <1>2 DEF IInv, TypeOK
<1>14. TypeOK'
  BY <1>1, <1>6, <1>11, <1>12, <1>13 DEF IInv, TypeOK
<1>15. Grows
  BY <1>1, <1>9, <1>13 DEF Grows
<1>16. \A i \in q.items : <<j, i>> \in approved'
  BY <1>1
<1>17. RequestWell(req[r])'
  BY <1>0, <1>1, <1>2, <1>10, <1>12, <1>16 DEF RequestWell, Signs, ApprovalWell
<1>18. RequestsWell'
  BY <1>12, <1>15, <1>17, RequestsFrame DEF IInv
<1>19. Signs(row.job, row.sig)'
  BY <1>1 DEF IInv, Signs
<1>20. AuditWell'
  <2>1. ASSUME NEW k \in Jobs, NEW i \in Items
        PROVE  /\ audit'[k][i].status = "accepted" => <<k, i>> \in approved'
               /\ audit'[k][i].status = "none" => audit'[k][i].stamp = 0
    <3>1. CASE audit'[k][i] = audit[k][i]
      BY <1>4, <1>13, <3>1
    <3>2. CASE k = j /\ audit'[k][i] = e(i)
      BY <1>5, <1>16, <3>2
    <3> QED
      BY <1>6, <1>7, <3>1, <3>2
  <2> QED
    BY <1>1, <2>1 DEF IInv, AuditWell
<1>21. AuditComplete'
  <2> SUFFICES ASSUME NEW k \in Jobs, NEW K \in {Datasets, Infras},
                      NEW x \in K, audit'[k][x].status # "none", NEW i \in K
               PROVE  audit'[k][i].status # "none" \/ <<k, i>> \in unowned'
    BY DEF AuditComplete, Audited
  <2>1. i \in Items /\ x \in Items
    BY DEF Items
  <2>2. CASE k = j /\ K = kind
    <3>1. i \in q.lost => <<k, i>> \in unowned'
      BY <1>1, <2>2
    <3>2. i \in q.seen => audit'[k][i].status # "none"
      BY <1>2, <1>9, <2>1, <2>2
    <3>3. i \in rows \/ i \in q.lost \/ i \in q.seen
      BY <1>3, <2>2
    <3> QED
      BY <1>8, <2>2, <3>1, <3>2, <3>3
  <2>3. CASE ~(k = j /\ K = kind)
    <3>1. audit'[k][x] = audit[k][x]
      <4>1. CASE k # j
        BY <1>6, <4>1
      <4>2. CASE k = j /\ K # kind
        BY <1>2, <1>3, <1>7, <2>1, <4>2, ItemsAssumption
      <4> QED
        BY <2>3, <4>1, <4>2
    <3>2. Audited(k, i)
      BY <3>1 DEF IInv, AuditComplete
    <3> QED
      BY <1>1, <1>9, <2>1, <3>2 DEF Audited
  <2> QED
    BY <2>2, <2>3
<1>22. FinalFullyApproved' /\ Recorded' /\ GrantsOnlyApproved'
  BY <1>1, <1>13 DEF IInv, FinalFullyApproved, Recorded, GrantsOnlyApproved
<1> QED
  BY <1>14, <1>18, <1>19, <1>20, <1>21, <1>22 DEF IInv

(***************************************************************************)
(* The keys, and the initial state                                         *)
(***************************************************************************)
\* A step that touches nothing but the keys.
LEMMA SameInv ==
    ASSUME IInv, key' \in [Providers -> Nat],
           UNCHANGED <<row, audit, unowned, final, req, participants, grants, clock,
                       consented, approved, served>>
    PROVE  IInv'
<1>1. TypeOK'
  BY DEF IInv, TypeOK
<1>2. Signs(row.job, row.sig)' /\ RequestsWell'
  BY DEF IInv, RequestsWell, RequestWell, Signs, ApprovalWell, StatusWell
<1>3. AuditWell' /\ AuditComplete'
  BY DEF IInv, AuditWell, AuditComplete, Audited
<1>4. FinalFullyApproved' /\ Recorded' /\ GrantsOnlyApproved'
  BY DEF IInv, FinalFullyApproved, Recorded, GrantsOnlyApproved
<1> QED
  BY <1>1, <1>2, <1>3, <1>4 DEF IInv

\* Registering a key never touches an approval, so the invariant does not
\* speak of keys: a replaced key only makes later checks refuse.
LEMMA KeyInv ==
    ASSUME IInv, NEW p \in Providers, PutProviderKey(p)
    PROVE  IInv'
<1>1. UNCHANGED <<row, audit, unowned, final, req, participants, grants, clock,
                  consented, approved, served>>
  BY DEF PutProviderKey
<1>2. key' \in [Providers -> Nat]
  BY DEF PutProviderKey, IInv, TypeOK
<1> QED
  BY <1>1, <1>2, SameInv

LEMMA InitInv == Init => IInv
<1> SUFFICES ASSUME Init PROVE IInv
  OBVIOUS
<1>1. /\ row.job = 0 /\ row.sig = Unsigned /\ row.finalized = FALSE /\ row.teeEnabled = FALSE
      /\ row \in [job : 0..MaxJobs, sig : [Items -> Signature],
                  finalized : BOOLEAN, teeEnabled : BOOLEAN]
  BY SignatureFacts, JobBoundsAssumption DEF Init
<1>2. NoEntry \in Entry /\ NoEntry.stamp = 0 /\ NoEntry.status = "none"
  BY DEF NoEntry, Entry
<1>3. "absent" \in Statuses
  BY DEF Statuses
<1>4. TypeOK
  BY <1>1, <1>2, <1>3, IdleFacts, SignatureFacts DEF Init, TypeOK
<1>5. Signs(row.job, row.sig)
  BY <1>1, SignatureFacts DEF Signs
<1>6. RequestsWell
  <2> SUFFICES ASSUME NEW r \in Requests PROVE RequestWell(req[r])
    BY DEF RequestsWell
  <2>1. req[r] = Idle
    BY DEF Init
  <2> QED
    BY <2>1, IdleFacts, SignatureFacts DEF RequestWell, Signs
<1>7. AuditWell /\ AuditComplete
  BY <1>2, ItemFacts DEF Init, AuditWell, AuditComplete, Items
<1>8. FinalFullyApproved /\ Recorded /\ GrantsOnlyApproved
  BY <1>1 DEF Init, FinalFullyApproved, Recorded, GrantsOnlyApproved
<1> QED
  BY <1>4, <1>5, <1>6, <1>7, <1>8 DEF IInv

(***************************************************************************)
(* The theorems                                                            *)
(***************************************************************************)
LEMMA InvStep == IInv /\ [Next]_vars => IInv'
<1> SUFFICES ASSUME IInv, [Next]_vars PROVE IInv'
  OBVIOUS
<1>1. CASE UNCHANGED vars
  <2>1. key' \in [Providers -> Nat]
    BY <1>1 DEF vars, IInv, TypeOK
  <2> QED
    BY <1>1, <2>1, SameInv DEF vars
<1>2. CASE \E p \in Providers : PutProviderKey(p)
  BY <1>2, KeyInv
<1>3. ASSUME NEW r \in Requests,
             \/ \E op \in {"data", "infra"}, p \in Providers : ApproveLoad(r, op, p)
             \/ ApproveCheck(r)
             \/ \E lost \in SUBSET Infras, ok \in SUBSET Items, good \in BOOLEAN :
                    ApproveStamp(r, lost, ok, good)
             \/ ApproveRefuse(r) \/ ApproveStore(r) \/ ApproveAudit(r) \/ ApproveFinish(r)
      PROVE  IInv'
  BY <1>3, LoadInv, CheckInv, StampInv, EndsInv, StoreApprovalInv, AuditInv
<1>4. ASSUME NEW r \in Requests,
             \/ StatusLoad(r) \/ StatusCheck(r) \/ StatusCreate(r) \/ StatusMark(r)
             \/ StatusFinish(r) \/ EnableGate(r) \/ EnableFinish(r) \/ RunGate(r) \/ RunStart(r)
      PROVE  IInv'
  BY <1>4, LoadInv, StatusCheckInv, CreateInv, MarkInv, StatusFinishInv, EnableInv
<1>5. ASSUME NEW r \in Requests,
             \/ Generate(r) \/ GenerateFinish(r)
             \/ \E p \in Providers : WithdrawLoad(r, p)
             \/ EditLoad(r) \/ Store(r) \/ WithdrawFinish(r) \/ Abort(r)
      PROVE  IInv'
  BY <1>5, GenerateInv, EndsInv, WithdrawInv, LoadInv, StoreInv
<1> QED
  BY <1>1, <1>2, <1>3, <1>4, <1>5 DEF Next

LEMMA Invariance == Spec => []IInv
  BY InitInv, InvStep, PTL DEF Spec

\* Whatever requests overlap, fail or die half-way, the row, the audit log and
\* the final contracts stay documents of one of the jobs.
THEOREM TypeCorrect == Spec => []TypeOK
<1>1. IInv => TypeOK
  BY DEF IInv
<1> QED
  BY <1>1, Invariance, PTL

\* getJobStatus: a final contract was approved on record and validly signed by
\* every provider the job needs, although the approvals were read once, before
\* the signatures are verified again, and may have changed since.
THEOREM FullyApproved == Spec => []FinalFullyApproved
<1>1. IInv => FinalFullyApproved
  BY DEF IInv
<1> QED
  BY <1>1, Invariance, PTL

\* finalizeJob inserts the record before MarkJobFinal, and the upsert of a
\* regenerated contract resets finalized_at: the mark never lacks its record.
THEOREM Record == Spec => []FinalizedHasRecord
<1>1. IInv => FinalizedHasRecord
  BY DEF IInv, Recorded, FinalizedHasRecord
<1> QED
  BY <1>1, Invariance, PTL

\* postConsumerGrants: no grant is posted before the accepted check of its item
\* is in the audit table, from an approval and from a status call alike.
THEOREM Grants == Spec => []GrantsOnlyApproved
<1>1. IInv => GrantsOnlyApproved
  BY DEF IInv
<1> QED
  BY <1>1, Invariance, PTL

(***************************************************************************)
(* What the mark of an enabled contract stands for                         *)
(***************************************************************************)
FullySigned(job) == \A i \in RequiredItems : <<job, i>> \in consented

\* A request that passed the gate of enabling or of running.
Gated(q) == q.op \in {"enable", "run"} /\ q.phase = "verified"

\* The mark, and every request that may yet set it, has the job's signatures.
EnabledInv ==
    /\ row.teeEnabled => FullySigned(row.job)
    /\ \A r \in Requests : Gated(req[r]) => FullySigned(req[r].job)

\* A step that passes no gate and sets no mark.
LEMMA EnabledFrame ==
    ASSUME TypeOK, EnabledInv, NEW r \in Requests, NEW q \in Request, ~Gated(q),
           req' = [req EXCEPT ![r] = q],
           row'.teeEnabled => row.teeEnabled /\ row'.job = row.job,
           consented \subseteq consented'
    PROVE  EnabledInv'
  BY DEF EnabledInv, FullySigned, Gated, TypeOK

\* A request that loads the row is not at a gate unless it passed it.
LEMMA EnabledBegin ==
    ASSUME TypeOK, EnabledInv, NEW r \in Requests, NEW op \in Ops, NEW phase \in Phases,
           NEW who \in Providers, NEW sig \in [Items -> Signature],
           Begin(r, op, phase, who, sig),
           (op \in {"enable", "run"} /\ phase = "verified") => FullySigned(row.job),
           UNCHANGED <<row, consented>>
    PROVE  EnabledInv'
<1> DEFINE q == Call(op, phase, who, row.job, sig)
<1>1. req' = [req EXCEPT ![r] = q]
  BY DEF Begin
<1>2. q.op = op /\ q.phase = phase /\ q.job = row.job
  BY CallFacts DEF TypeOK
<1> HIDE DEF q
<1>3. req'[r] = q /\ \A x \in Requests : x = r \/ req'[x] = req[x]
  BY <1>1 DEF TypeOK
<1> QED
  BY <1>2, <1>3 DEF EnabledInv, FullySigned, Gated

\* The gate: each required signature is good, so its owner made it.
LEMMA EnabledLoad ==
    ASSUME IInv, EnabledInv, NEW r \in Requests,
           \/ \E op \in {"data", "infra"}, p \in Providers : ApproveLoad(r, op, p)
           \/ StatusLoad(r) \/ EnableGate(r) \/ RunGate(r) \/ EditLoad(r)
           \/ \E p \in Providers : WithdrawLoad(r, p)
    PROVE  EnabledInv'
<1>1. row.sig \in [Items -> Signature] /\ TypeOK /\ UNCHANGED <<row, consented>>
  BY DEF IInv, TypeOK, ApproveLoad, StatusLoad, EnableGate, RunGate, EditLoad, WithdrawLoad
<1>2. ASSUME NEW op \in {"data", "infra"}, NEW p \in Providers, ApproveLoad(r, op, p)
      PROVE  EnabledInv'
  BY <1>1, <1>2, EnabledBegin DEF ApproveLoad, Ops, Phases
<1>3. CASE StatusLoad(r)
  BY <1>1, <1>3, ItemFacts, EnabledBegin DEF StatusLoad, Ops, Phases
<1>4. CASE EnableGate(r) \/ RunGate(r)
  <2>1. ProviderSignatures(row.sig)
    BY <1>4 DEF EnableGate, RunGate
  <2>2. FullySigned(row.job)
    BY <2>1, ItemFacts DEF FullySigned, ProviderSignatures, IInv, Signs
  <2>3. \E op \in {"enable", "run"} : Begin(r, op, "verified", Nobody, row.sig)
    BY <1>4 DEF EnableGate, RunGate
  <2> QED
    BY <1>1, <2>2, <2>3, ItemFacts, EnabledBegin DEF Ops, Phases
<1>5. CASE EditLoad(r)
  BY <1>1, <1>5, ItemFacts, EnabledBegin DEF EditLoad, Ops, Phases
<1>6. ASSUME NEW p \in Providers, WithdrawLoad(r, p)
      PROVE  EnabledInv'
  <2> DEFINE sig == [i \in Items |-> IF i \in Own("data", p)
                                     THEN [NoSignature EXCEPT !.st = "withdrawn"]
                                     ELSE row.sig[i]]
  <2>1. sig \in [Items -> Signature]
    BY <1>1, SignatureFacts
  <2>2. Begin(r, "withdraw", "stamped", p, sig)
    BY <1>6 DEF WithdrawLoad
  <2> HIDE DEF sig
  <2> QED
    BY <1>1, <2>1, <2>2, EnabledBegin DEF Ops, Phases
<1> QED
  BY <1>2, <1>3, <1>4, <1>5, <1>6

\* The mark is written on the contract the gate verified, or not at all.
LEMMA EnabledMark ==
    ASSUME TypeOK, EnabledInv, NEW r \in Requests, EnableFinish(r) \/ RunStart(r)
    PROVE  EnabledInv'
<1>1. Gated(req[r]) /\ End(r) /\ UNCHANGED consented
  BY DEF EnableFinish, RunStart, At, Gated
<1>2. FullySigned(req[r].job)
  BY <1>1 DEF EnabledInv
<1>3. row'.job = row.job /\ (row'.teeEnabled => row.teeEnabled \/ row.job = req[r].job)
  BY DEF EnableFinish, RunStart, MayEnable, RunMarks, TypeOK
<1>4. req'[r] = Idle /\ \A x \in Requests : x = r \/ req'[x] = req[x]
  BY <1>1 DEF End, Step, TypeOK
<1>5. ~Gated(Idle)
  BY IdleFacts DEF Gated
<1> QED
  BY <1>1, <1>2, <1>3, <1>4, <1>5 DEF EnabledInv, FullySigned

\* The other steps of a request, none of which sets the mark.
LEMMA EnabledOther ==
    ASSUME TypeOK, TypeOK', EnabledInv, NEW r \in Requests,
           \/ Generate(r) \/ GenerateFinish(r) \/ ApproveCheck(r)
           \/ \E lost \in SUBSET Infras, ok \in SUBSET Items, good \in BOOLEAN :
                  ApproveStamp(r, lost, ok, good)
           \/ ApproveRefuse(r) \/ ApproveStore(r) \/ ApproveAudit(r) \/ ApproveFinish(r)
           \/ StatusCheck(r) \/ StatusCreate(r) \/ StatusMark(r) \/ StatusFinish(r)
           \/ Store(r) \/ WithdrawFinish(r) \/ Abort(r)
    PROVE  EnabledInv'
<1>1. \A x \in Requests : x = r \/ req'[x] = req[x]
  BY DEF Generate, GenerateFinish, ApproveCheck, ApproveStamp, ApproveRefuse, ApproveStore,
     ApproveAudit, ApproveFinish, StatusCheck, StatusCreate, StatusMark, StatusFinish,
     Store, WithdrawFinish, Abort, End, Step, TypeOK
<1>2. ~Gated(req'[r])
  <2>1. ~Gated(Idle)
    BY IdleFacts DEF Gated
  <2>2. CASE Generate(r)
    <3>1. row.job + 1 \in 0..MaxJobs /\ req' = [req EXCEPT ![r] = Call("generate", "stored", Nobody, row.job + 1, Unsigned)]
      BY <2>2, JobBoundsAssumption DEF Generate, Jobs, TypeOK
    <3>2. Call("generate", "stored", Nobody, row.job + 1, Unsigned).op = "generate"
      BY <3>1, CallFacts, ItemFacts, SignatureFacts DEF Ops, Phases
    <3> QED
      BY <3>1, <3>2 DEF Gated, TypeOK
  <2>3. CASE req'[r] = Idle
    BY <2>1, <2>3
  <2>4. CASE ~Generate(r) /\ req'[r] # Idle
    <3>1. req[r] \in Request
      BY DEF TypeOK
    <3>2. ASSUME NEW q, Step(r, q) PROVE req'[r] = q
      BY <3>2 DEF Step, TypeOK
    <3>3. req'[r].op = req[r].op
      <4>1. CASE ApproveCheck(r)
        BY <3>1, <3>2, <4>1 DEF ApproveCheck, Request
      <4>2. CASE \E lost \in SUBSET Infras, ok \in SUBSET Items, good \in BOOLEAN :
                     ApproveStamp(r, lost, ok, good)
        BY <3>1, <3>2, <4>2 DEF ApproveStamp, Request
      <4>3. CASE ApproveStore(r) \/ ApproveAudit(r)
        BY <2>4, <3>1, <3>2, <4>3 DEF ApproveStore, ApproveAudit, End, Request
      <4>4. CASE StatusCheck(r) \/ StatusCreate(r) \/ StatusMark(r)
        BY <2>4, <3>1, <3>2, <4>4 DEF StatusCheck, StatusCreate, StatusMark, End, Request
      <4>5. CASE Store(r)
        BY <2>4, <3>1, <3>2, <4>5 DEF Store, End, Request
      <4>6. CASE GenerateFinish(r) \/ ApproveRefuse(r) \/ ApproveFinish(r) \/ StatusFinish(r)
                 \/ WithdrawFinish(r) \/ Abort(r)
        BY <2>4, <3>2, <4>6 DEF GenerateFinish, ApproveRefuse, ApproveFinish, StatusFinish,
           WithdrawFinish, Abort, End
      <4> QED
        BY <2>4, <4>1, <4>2, <4>3, <4>4, <4>5, <4>6
    <3>4. req[r].op \notin {"enable", "run"} \/ Abort(r)
      BY <2>4 DEF GenerateFinish, ApproveCheck, ApproveStamp, ApproveRefuse, ApproveStore,
         ApproveAudit, ApproveFinish, StatusCheck, StatusCreate, StatusMark, StatusFinish,
         Store, WithdrawFinish, IsApproval, At
    <3>5. ~Abort(r)
      BY <2>4, <3>2 DEF Abort, End
    <3> QED
      BY <3>3, <3>4, <3>5 DEF Gated
  <2> QED
    BY <2>2, <2>3, <2>4
<1>3. row'.teeEnabled => row.teeEnabled /\ row'.job = row.job
  <2>1. CASE Generate(r)
    BY <2>1 DEF Generate, StoreGeneratedContract
  <2>2. CASE ApproveStore(r) \/ Store(r) \/ StatusMark(r)
    BY <2>2 DEF ApproveStore, Store, StatusMark, TypeOK
  <2>3. CASE \/ GenerateFinish(r) \/ ApproveCheck(r)
             \/ \E lost \in SUBSET Infras, ok \in SUBSET Items, good \in BOOLEAN :
                    ApproveStamp(r, lost, ok, good)
             \/ ApproveRefuse(r) \/ ApproveAudit(r) \/ ApproveFinish(r)
             \/ StatusCheck(r) \/ StatusCreate(r) \/ StatusFinish(r)
             \/ WithdrawFinish(r) \/ Abort(r)
    BY <2>3 DEF GenerateFinish, ApproveCheck, ApproveStamp, ApproveRefuse, ApproveAudit,
       ApproveFinish, StatusCheck, StatusCreate, StatusFinish, WithdrawFinish, Abort
  <2> QED
    BY <2>1, <2>2, <2>3
<1>4. consented \subseteq consented'
  BY DEF Generate, GenerateFinish, ApproveCheck, ApproveStamp, ApproveRefuse, ApproveStore,
     ApproveAudit, ApproveFinish, StatusCheck, StatusCreate, StatusMark, StatusFinish,
     Store, WithdrawFinish, Abort
<1> QED
  BY <1>1, <1>2, <1>3, <1>4 DEF EnabledInv, FullySigned

LEMMA EnabledStep == IInv /\ EnabledInv /\ [Next]_vars => EnabledInv'
<1> SUFFICES ASSUME IInv, EnabledInv, [Next]_vars PROVE EnabledInv'
  OBVIOUS
<1>0. TypeOK /\ TypeOK'
  BY InvStep DEF IInv
<1>1. CASE UNCHANGED vars \/ \E p \in Providers : PutProviderKey(p)
  BY <1>1 DEF vars, PutProviderKey, EnabledInv, FullySigned
<1>2. CASE \E r \in Requests : EnableFinish(r) \/ RunStart(r)
  BY <1>0, <1>2, EnabledMark
<1>3. CASE \E r \in Requests :
             \/ \E op \in {"data", "infra"}, p \in Providers : ApproveLoad(r, op, p)
             \/ StatusLoad(r) \/ EnableGate(r) \/ RunGate(r) \/ EditLoad(r)
             \/ \E p \in Providers : WithdrawLoad(r, p)
  BY <1>3, EnabledLoad
<1>4. CASE \E r \in Requests :
             \/ Generate(r) \/ GenerateFinish(r) \/ ApproveCheck(r)
             \/ \E lost \in SUBSET Infras, ok \in SUBSET Items, good \in BOOLEAN :
                    ApproveStamp(r, lost, ok, good)
             \/ ApproveRefuse(r) \/ ApproveStore(r) \/ ApproveAudit(r) \/ ApproveFinish(r)
             \/ StatusCheck(r) \/ StatusCreate(r) \/ StatusMark(r) \/ StatusFinish(r)
             \/ Store(r) \/ WithdrawFinish(r) \/ Abort(r)
  BY <1>0, <1>4, EnabledOther
<1> QED
  BY <1>1, <1>2, <1>3, <1>4 DEF Next

\* runTEEJob and enableJobTEE verify the signatures of the row they loaded and
\* mark it later, by contract id and by job id: however long the coordinator
\* takes and whatever is stored meanwhile, no contract is marked that its
\* providers did not sign.
THEOREM EnabledSigned == Spec => []EnabledFullySigned
<1>1. Init => EnabledInv
  BY IdleFacts DEF Init, EnabledInv, Gated
<1>2. EnabledInv => EnabledFullySigned
  BY DEF EnabledInv, FullySigned, EnabledFullySigned
<1> QED
  BY <1>1, <1>2, EnabledStep, Invariance, PTL DEF Spec

(***************************************************************************)
(* Requests that run one at a time                                         *)
(***************************************************************************)
OneSlot == \E r : Requests = {r}

IsApp(q) == q.op \in {"data", "infra"}

\* A request that will write back the signatures it holds.
CopyTaken(q) ==
    \/ IsApp(q) /\ q.phase \in {"loaded", "checked", "stamped"}
    \/ q.op \in {"withdraw", "edit"} /\ q.phase = "stamped"

\* What is accepted is signed, in the row and in what a request will write to
\* it; an approval signs before it audits.  A job not yet generated has no
\* accepted item.
SignedIn(q, job, sig, aud) ==
    /\ q.phase # "idle" => q.job = job
    /\ job # 0 => \A i \in Items : aud[job][i].status = "accepted" => sig[i].st # "none"
    /\ CopyTaken(q) => \A i \in Items : aud[q.job][i].status = "accepted" => q.sig[i].st # "none"
    /\ (IsApp(q) /\ q.phase = "stamped") => \A i \in q.items : q.sig[i].st # "none"
    /\ (IsApp(q) /\ q.phase = "stored") => \A i \in q.items : sig[i].st # "none"

NoneBeyond(job, aud) == \A j \in Jobs, i \in Items : j > job => aud[j][i].status = "none"

SignedInv ==
    /\ NoneBeyond(row.job, audit)
    /\ \A r \in Requests : SignedIn(req[r], row.job, row.sig, audit)

\* The Audit page and the audit table agree on an item, except between the two
\* writes of an approval of it.  Until an approval writes, no item it saw
\* unchecked is checked, and every entry is older than its own.
Agree(status, participant) ==
    /\ participant = "approved" => status = "accepted"
    /\ participant = "rejected" => status = "rejected"

AgreeIn(q, job, aud, parts, now) ==
    /\ (IsApp(q) /\ q.phase \in {"checked", "stamped", "stored"}) =>
          \A i \in KindItems(q.op) \ q.seen : aud[q.job][i].status = "none"
    /\ (IsApp(q) /\ q.phase \in {"stamped", "stored"}) =>
          q.stamp < now /\ \A i \in Items : aud[q.job][i].stamp < q.stamp
    /\ (IsApp(q) /\ q.phase = "recorded") =>
          \A i \in q.own : aud[q.job][i].status = IF i \in q.items THEN "accepted" ELSE "rejected"
    /\ job # 0 => \A i \in Items :
          \/ IsApp(q) /\ q.phase = "recorded" /\ i \in q.own
          \/ Agree(aud[job][i].status, parts[job][i])

PastAndUnmarked(job, aud, parts, now) ==
    \A j \in Jobs, i \in Items :
        /\ aud[j][i].stamp < now
        /\ j > job => parts[j][i] \notin {"approved", "rejected"}

AgreeInv ==
    /\ PastAndUnmarked(row.job, audit, participants, clock)
    /\ \A r \in Requests : AgreeIn(req[r], row.job, audit, participants, clock)

\* Nothing to write back, no approval under way.
Plain(q) == ~CopyTaken(q) /\ ~(IsApp(q) /\ q.phase = "stored")

LEMMA IdlePlain == Plain(Idle)
  BY IdleFacts DEF Plain, CopyTaken, IsApp

\* A step that leaves signatures and audit entries alone.
LEMMA SignedFrame ==
    ASSUME OneSlot, SignedInv, NEW r \in Requests,
           row'.job = row.job, row'.sig = row.sig, UNCHANGED audit,
           SignedIn(req'[r], row.job, row.sig, audit)
    PROVE  SignedInv'
  BY DEF OneSlot, SignedInv, SignedIn, NoneBeyond

LEMMA SignedPlain ==
    ASSUME OneSlot, SignedInv, NEW r \in Requests,
           row'.job = row.job, row'.sig = row.sig, UNCHANGED audit,
           Plain(req'[r]), req'[r].phase # "idle" => req'[r].job = row.job
    PROVE  SignedInv'
<1>1. SignedIn(req[r], row.job, row.sig, audit)
  BY DEF SignedInv
<1>2. SignedIn(req'[r], row.job, row.sig, audit)
  BY <1>1 DEF SignedIn, Plain, CopyTaken
<1> QED
  BY <1>2, SignedFrame

LEMMA SignedEnd ==
    ASSUME IInv, OneSlot, SignedInv, NEW r \in Requests, End(r),
           row'.job = row.job, row'.sig = row.sig, UNCHANGED audit
    PROVE  SignedInv'
<1>1. req'[r] = Idle
  BY IdleFacts, SetEffect DEF End, Step, IInv
<1> QED
  BY <1>1, IdleFacts, IdlePlain, SignedPlain

\* A request that loads the row takes the signatures there are.
LEMMA SignedBegin ==
    ASSUME IInv, OneSlot, SignedInv, NEW r \in Requests, NEW who \in Providers,
           NEW sig \in [Items -> Signature], NEW op \in Ops \ {"none"}, NEW phase \in Phases,
           phase = "loaded" \/ op \in {"enable", "run", "withdraw", "edit"},
           Begin(r, op, phase, who, sig), UNCHANGED <<row, audit>>,
           \A i \in Items : row.sig[i].st # "none" => sig[i].st # "none"
    PROVE  SignedInv'
<1> DEFINE q == Call(op, phase, who, row.job, sig)
<1>1. req' = [req EXCEPT ![r] = q] /\ row.job # 0 /\ row.job \in 0..MaxJobs
  BY DEF Begin, IInv, TypeOK
<1>2. q \in Request /\ q.op = op /\ q.phase = phase /\ q.job = row.job /\ q.sig = sig
  BY <1>1, CallFacts
<1> HIDE DEF q
<1>3. req'[r] = q
  BY <1>1, <1>2, SetEffect DEF IInv
<1>4. SignedIn(req[r], row.job, row.sig, audit)
  BY DEF SignedInv
<1>5. SignedIn(q, row.job, row.sig, audit)
  BY <1>1, <1>2, <1>4 DEF SignedIn, IsApp
<1> QED
  BY <1>3, <1>5, SignedFrame

LEMMA SignedLoad ==
    ASSUME IInv, OneSlot, SignedInv, NEW r \in Requests,
           \/ \E op \in {"data", "infra"}, p \in Providers : ApproveLoad(r, op, p)
           \/ StatusLoad(r) \/ EnableGate(r) \/ RunGate(r) \/ EditLoad(r)
           \/ \E p \in Providers : WithdrawLoad(r, p)
    PROVE  SignedInv'
<1>1. row.sig \in [Items -> Signature]
  BY DEF IInv, TypeOK
<1>2. CASE \E p \in Providers : WithdrawLoad(r, p)
  <2>1. PICK p \in Providers : WithdrawLoad(r, p)
    BY <1>2
  <2> DEFINE sig == [i \in Items |-> IF i \in Own("data", p)
                                     THEN [NoSignature EXCEPT !.st = "withdrawn"]
                                     ELSE row.sig[i]]
  <2>2. Begin(r, "withdraw", "stamped", p, sig) /\ UNCHANGED <<row, audit>>
    BY <2>1 DEF WithdrawLoad
  <2>3. sig \in [Items -> Signature] /\ \A i \in Items : row.sig[i].st # "none" => sig[i].st # "none"
    BY <1>1, SignatureFacts
  <2>4. "withdraw" \in Ops \ {"none"} /\ "stamped" \in Phases
    BY DEF Ops, Phases
  <2> HIDE DEF sig
  <2> QED
    BY <2>2, <2>3, <2>4, SignedBegin
<1>3. CASE ~\E p \in Providers : WithdrawLoad(r, p)
  <2>1. PICK op \in Ops \ {"none"}, phase \in Phases, who \in Providers :
            /\ phase = "loaded" \/ op \in {"enable", "run", "withdraw", "edit"}
            /\ Begin(r, op, phase, who, row.sig)
            /\ UNCHANGED <<row, audit>>
    BY <1>3, ItemFacts DEF ApproveLoad, StatusLoad, EnableGate, RunGate, EditLoad, Ops, Phases
  <2> QED
    BY <1>1, <2>1, SignedBegin
<1> QED
  BY <1>2, <1>3

LEMMA SignedGenerate ==
    ASSUME IInv, OneSlot, SignedInv, NEW r \in Requests, Generate(r)
    PROVE  SignedInv'
<1> DEFINE j == row.job + 1
           q == Call("generate", "stored", Nobody, j, Unsigned)
<1>1. /\ j \in Jobs /\ req' = [req EXCEPT ![r] = q] /\ UNCHANGED audit
      /\ row'.job = j
  BY DEF Generate, StoreGeneratedContract
<1>2. j \in 0..MaxJobs /\ "generate" \in Ops /\ "stored" \in Phases
  BY <1>1, JobBoundsAssumption DEF Jobs, Ops, Phases
<1>3. q \in Request /\ q.op = "generate" /\ q.phase = "stored" /\ q.job = j
  BY <1>2, ItemFacts, SignatureFacts, CallFacts
<1> HIDE DEF q
<1>4. req'[r] = q
  BY <1>1, <1>3, SetEffect DEF IInv
<1>5. row.job \in Nat /\ j > row.job /\ \A k \in Jobs : k > j => k > row.job
  BY JobBoundsAssumption DEF IInv, TypeOK, Jobs
<1>6. \A i \in Items : audit[j][i].status = "none"
  BY <1>1, <1>5 DEF SignedInv, NoneBeyond
<1>7. NoneBeyond(row.job, audit)'
  BY <1>1, <1>5 DEF SignedInv, NoneBeyond
<1>8. SignedIn(q, j, row'.sig, audit)
  BY <1>3, <1>6 DEF SignedIn, CopyTaken, IsApp
<1> QED
  BY <1>1, <1>4, <1>7, <1>8 DEF SignedInv, OneSlot

\* An approval goes on: it checks what there is, and stamps a signature.
LEMMA SignedApproval ==
    ASSUME IInv, OneSlot, SignedInv, NEW r \in Requests,
           \/ ApproveCheck(r)
           \/ \E lost \in SUBSET Infras, ok \in SUBSET Items, good \in BOOLEAN :
                  ApproveStamp(r, lost, ok, good)
    PROVE  SignedInv'
<1> DEFINE q == req[r]
<1>1. q \in Request /\ SignedIn(q, row.job, row.sig, audit)
  BY Kept DEF SignedInv
<1>2. CASE ApproveCheck(r)
  <2> DEFINE seen == {i \in KindItems(q.op) : audit[q.job][i].status # "none"}
             h == [q EXCEPT !.phase = "checked", !.seen = seen]
  <2>1. /\ q.op \in {"data", "infra"} /\ q.phase = "loaded" /\ req' = [req EXCEPT ![r] = h]
        /\ UNCHANGED <<row, audit>>
    BY <1>2 DEF ApproveCheck, IsApproval, Step
  <2>2. seen \in SUBSET Items
    BY ItemFacts
  <2> HIDE DEF seen
  <2>3. h \in Request /\ h.phase = "checked" /\ h.op = q.op /\ h.job = q.job /\ h.sig = q.sig
    BY <1>1, <2>2 DEF Request, Phases
  <2> HIDE DEF h
  <2>4. req'[r] = h
    BY <2>1, <2>3, SetEffect DEF IInv
  <2>5. SignedIn(h, row.job, row.sig, audit)
    BY <1>1, <2>1, <2>3 DEF SignedIn, CopyTaken, IsApp
  <2> QED
    BY <2>1, <2>4, <2>5, SignedFrame
<1>3. ASSUME NEW lost \in SUBSET Infras, NEW ok \in SUBSET Items, NEW good \in BOOLEAN,
             ApproveStamp(r, lost, ok, good)
      PROVE  SignedInv'
  <2> DEFINE own == Own(q.op, q.who) \ lost
             s == [st |-> "signed", good |-> good, key |-> IF good THEN key[q.who] ELSE 0]
             sig == [i \in Items |-> IF i \in ok THEN s ELSE q.sig[i]]
             h == [q EXCEPT !.phase = "stamped", !.stamp = clock, !.own = own, !.items = ok,
                            !.lost = lost, !.sig = sig]
  <2>1. /\ q.op \in {"data", "infra"} /\ q.phase = "checked" /\ req' = [req EXCEPT ![r] = h]
        /\ UNCHANGED <<row, audit>>
    BY <1>3 DEF ApproveStamp, IsApproval, SignApprovedItems, Step
  <2>2. s \in Signature /\ s.st = "signed"
    <3>1. (IF good THEN key[q.who] ELSE 0) \in Nat
      BY <1>1 DEF IInv, TypeOK, Request
    <3> QED
      BY <3>1 DEF Signature
  <2>3. own \in SUBSET Items /\ clock \in Nat
    BY ItemFacts DEF Own, IInv, TypeOK
  <2> HIDE DEF s, own
  <2>4. /\ sig \in [Items -> Signature]
        /\ \A i \in Items : sig[i].st = "none" => i \notin ok /\ q.sig[i].st = "none"
    BY <1>1, <2>2 DEF Request
  <2> HIDE DEF sig
  <2>5. /\ h \in Request /\ h.phase = "stamped" /\ h.op = q.op /\ h.job = q.job
        /\ h.sig = sig /\ h.items = ok
    BY <1>1, <2>3, <2>4 DEF Request, Phases
  <2> HIDE DEF h
  <2>6. req'[r] = h
    BY <2>1, <2>5, SetEffect DEF IInv
  <2>7. SignedIn(h, row.job, row.sig, audit)
    BY <1>1, <2>1, <2>4, <2>5 DEF SignedIn, CopyTaken, IsApp
  <2> QED
    BY <2>1, <2>6, <2>7, SignedFrame
<1> QED
  BY <1>2, <1>3

\* Writing back the signatures taken, the row is the one they are of.
LEMMA SignedStore ==
    ASSUME IInv, OneSlot, SignedInv, NEW r \in Requests, ApproveStore(r) \/ Store(r)
    PROVE  SignedInv'
<1> DEFINE q == req[r]
           h == [q EXCEPT !.phase = "stored"]
<1>1. q \in Request /\ SignedIn(q, row.job, row.sig, audit) /\ UNCHANGED audit
  BY Kept DEF SignedInv, ApproveStore, Store
<1>2. /\ h \in Request /\ h.phase = "stored" /\ h.op = q.op /\ h.job = q.job /\ h.items = q.items
  BY <1>1 DEF Request, Phases
<1>3. row \in [job : 0..MaxJobs, sig : [Items -> Signature],
               finalized : BOOLEAN, teeEnabled : BOOLEAN]
  BY Kept
<1> HIDE DEF h
<1>4. ASSUME req' = [req EXCEPT ![r] = h] PROVE req'[r] = h
  BY <1>2, <1>4, SetEffect DEF IInv
<1>5. CASE ApproveStore(r)
  <2>1. q.op \in {"data", "infra"} /\ q.phase = "stamped" /\ q.job = row.job
    BY <1>1, <1>5 DEF ApproveStore, IsApproval, SignedIn
  <2>2. /\ row' = [row EXCEPT !.sig = IF q.items = {} THEN @ ELSE q.sig]
        /\ req' = [req EXCEPT ![r] = h]
    BY <1>5, <2>1 DEF ApproveStore, Step, h
  <2>3. row'.job = row.job /\ row'.sig = IF q.items = {} THEN row.sig ELSE q.sig
    BY <1>3, <2>2
  <2>4. /\ \A i \in Items : audit[row.job][i].status = "accepted" => q.sig[i].st # "none"
        /\ \A i \in q.items : q.sig[i].st # "none"
    BY <1>1, <2>1 DEF SignedIn, CopyTaken, IsApp
  <2>5. SignedIn(h, row.job, row'.sig, audit)
    <3>1. CASE q.items = {}
      BY <1>1, <1>2, <2>1, <2>3, <3>1 DEF SignedIn, CopyTaken, IsApp
    <3>2. CASE q.items # {}
      BY <1>1, <1>2, <2>1, <2>3, <2>4, <3>2 DEF SignedIn, CopyTaken, IsApp
    <3> QED
      BY <3>1, <3>2
  <2> QED
    BY <1>1, <1>4, <2>2, <2>3, <2>5 DEF SignedInv, OneSlot
<1>6. CASE Store(r)
  <2>1. q.op \in {"withdraw", "edit"} /\ q.phase = "stamped" /\ q.job = row.job
    BY <1>1, <1>6 DEF Store, SignedIn
  <2>2. row' = [row EXCEPT !.sig = q.sig]
    BY <1>6, <2>1 DEF Store
  <2>3. row'.job = row.job /\ row'.sig = q.sig
    BY <1>3, <2>2
  <2>4. \A i \in Items : audit[row.job][i].status = "accepted" => row'.sig[i].st # "none"
    BY <1>1, <2>1, <2>3 DEF SignedIn, CopyTaken
  <2>5. PICK x \in {Idle, h} : req' = [req EXCEPT ![r] = x]
    BY <1>6, <2>1 DEF Store, Step, End, h
  <2>6. /\ x \in Request /\ Plain(x) /\ (x.phase # "idle" => x.job = row.job)
    BY <1>2, <2>1, IdleFacts, IdlePlain DEF Plain, CopyTaken, IsApp
  <2>7. req'[r] = x
    BY <2>5, <2>6, SetEffect DEF IInv
  <2>8. SignedIn(x, row.job, row'.sig, audit)
    BY <2>4, <2>6 DEF SignedIn, Plain, CopyTaken
  <2> QED
    BY <1>1, <2>3, <2>7, <2>8 DEF SignedInv, OneSlot
<1> QED
  BY <1>5, <1>6

\* Only what the approval's own signature is stored for becomes accepted.
LEMMA SignedAudit ==
    ASSUME IInv, OneSlot, SignedInv, NEW r \in Requests, ApproveAudit(r)
    PROVE  SignedInv'
<1> DEFINE q == req[r]
           j == q.job
           rows == q.own \cup Awaiting(q)
           e(i) == [stamp |-> q.stamp, status |-> IF i \in q.items THEN "accepted" ELSE "rejected"]
           h == [q EXCEPT !.phase = "recorded"]
<1>1. q \in Request /\ RequestWell(q) /\ SignedIn(q, row.job, row.sig, audit)
  BY Kept DEF SignedInv
<1>2. /\ q.op \in {"data", "infra"} /\ q.phase = "stored" /\ req' = [req EXCEPT ![r] = h]
      /\ audit' = [audit EXCEPT ![j] =
            [i \in Items |-> IF i \in rows /\ q.stamp > audit[j][i].stamp THEN e(i) ELSE audit[j][i]]]
      /\ UNCHANGED row
  BY DEF ApproveAudit, IsApproval, Step
<1>3. j \in Jobs /\ j = row.job
  BY <1>1, <1>2, JobFacts DEF IInv, SignedIn
<1>4. \A i \in Items : e(i).status = "accepted" => i \in q.items
  OBVIOUS
<1>5. audit \in [Jobs -> [Items -> Entry]]
  BY DEF IInv, TypeOK
<1> HIDE DEF rows, e
<1>6. /\ \A k \in Jobs : k # j => audit'[k] = audit[k]
      /\ \A i \in Items : audit'[j][i] = audit[j][i] \/ audit'[j][i] = e(i)
  BY <1>2, <1>3, <1>5
<1>7. h \in Request /\ h.phase = "recorded" /\ h.op = q.op /\ h.job = j
  BY <1>1 DEF Request, Phases
<1> HIDE DEF h
<1>8. req'[r] = h
  BY <1>2, <1>7, SetEffect DEF IInv
<1>9. \A i \in Items : audit'[j][i].status = "accepted" => row.sig[i].st # "none"
  BY <1>1, <1>2, <1>3, <1>4, <1>6 DEF SignedIn, IsApp, Jobs
<1>10. SignedIn(h, row.job, row.sig, audit')
  BY <1>2, <1>3, <1>7, <1>9 DEF SignedIn, CopyTaken, IsApp
<1>11. NoneBeyond(row.job, audit')
  <2> SUFFICES ASSUME NEW k \in Jobs, NEW i \in Items, k > j PROVE audit'[k][i].status = "none"
    BY <1>3 DEF NoneBeyond
  <2>1. k # j
    BY <1>3 DEF Jobs
  <2> QED
    BY <1>3, <1>6, <2>1 DEF SignedInv, NoneBeyond
<1> QED
  BY <1>2, <1>8, <1>10, <1>11 DEF SignedInv, OneSlot

\* The other steps write neither signatures nor audit entries.
LEMMA SignedOther ==
    ASSUME IInv, OneSlot, SignedInv, NEW r \in Requests,
           \/ StatusCheck(r) \/ StatusCreate(r) \/ StatusMark(r) \/ StatusFinish(r)
           \/ EnableFinish(r) \/ RunStart(r) \/ GenerateFinish(r) \/ WithdrawFinish(r)
           \/ ApproveRefuse(r) \/ ApproveFinish(r) \/ Abort(r)
    PROVE  SignedInv'
<1> DEFINE q == req[r]
<1>1. q \in Request /\ SignedIn(q, row.job, row.sig, audit)
  BY Kept DEF SignedInv
<1>2. row'.job = row.job /\ row'.sig = row.sig /\ UNCHANGED audit
  BY Kept DEF StatusCheck, StatusCreate, StatusMark, StatusFinish, EnableFinish, RunStart,
     GenerateFinish, WithdrawFinish, ApproveRefuse, ApproveFinish, Abort
<1>3. CASE End(r)
  BY <1>2, <1>3, SignedEnd
<1>4. ASSUME NEW h \in Request, req' = [req EXCEPT ![r] = h], h.op = "status", q.phase # "idle",
             h.job = q.job
      PROVE  SignedInv'
  <2>1. req'[r] = h
    BY <1>4, SetEffect DEF IInv
  <2>2. Plain(h) /\ h.job = row.job
    BY <1>1, <1>4 DEF Plain, CopyTaken, IsApp, SignedIn
  <2> QED
    BY <1>2, <2>1, <2>2, SignedPlain
<1>5. CASE StatusCheck(r)
  <2> DEFINE ok == {i \in Items : audit[q.job][i].status = "accepted"}
             h == [q EXCEPT !.phase = "verified", !.items = ok]
  <2>1. q.op = "status" /\ q.phase = "loaded" /\ (End(r) \/ req' = [req EXCEPT ![r] = h])
    BY <1>5 DEF StatusCheck, At, Step
  <2>2. h \in Request /\ h.op = q.op /\ h.job = q.job
    BY <1>1 DEF Request, Phases
  <2> HIDE DEF h
  <2> QED
    BY <1>3, <1>4, <2>1, <2>2
<1>6. CASE StatusCreate(r) \/ StatusMark(r)
  <2> DEFINE g(ph) == [q EXCEPT !.phase = ph]
  <2>1. /\ q.op = "status" /\ q.phase # "idle"
        /\ \E ph \in {"created", "pending", "marked"} : req' = [req EXCEPT ![r] = g(ph)]
    BY <1>6 DEF StatusCreate, StatusMark, At, Step
  <2>2. \A ph \in {"created", "pending", "marked"} :
            g(ph) \in Request /\ g(ph).op = q.op /\ g(ph).job = q.job
    BY <1>1 DEF Request, Phases
  <2> HIDE DEF g
  <2> QED
    BY <1>4, <2>1, <2>2
<1> QED
  BY <1>3, <1>5, <1>6 DEF StatusFinish, EnableFinish, RunStart, GenerateFinish, WithdrawFinish,
     ApproveRefuse, ApproveFinish, Abort

LEMMA SignedStep == OneSlot /\ IInv /\ SignedInv /\ [Next]_vars => SignedInv'
<1> SUFFICES ASSUME OneSlot, IInv, SignedInv, [Next]_vars PROVE SignedInv'
  OBVIOUS
<1>1. ASSUME UNCHANGED <<row, audit, req>> PROVE SignedInv'
  BY <1>1 DEF SignedInv, SignedIn, NoneBeyond
<1>2. ASSUME NEW r \in Requests,
             \/ Generate(r)
             \/ \E op \in {"data", "infra"}, p \in Providers : ApproveLoad(r, op, p)
             \/ ApproveCheck(r)
             \/ \E lost \in SUBSET Infras, ok \in SUBSET Items, good \in BOOLEAN :
                    ApproveStamp(r, lost, ok, good)
             \/ ApproveStore(r) \/ ApproveAudit(r)
             \/ \E p \in Providers : WithdrawLoad(r, p)
             \/ Store(r) \/ StatusLoad(r) \/ EnableGate(r) \/ RunGate(r) \/ EditLoad(r)
      PROVE  SignedInv'
  BY <1>2, SignedGenerate, SignedLoad, SignedApproval, SignedStore, SignedAudit
<1>3. ASSUME NEW r \in Requests,
             \/ StatusCheck(r) \/ StatusCreate(r) \/ StatusMark(r) \/ StatusFinish(r)
             \/ EnableFinish(r) \/ RunStart(r) \/ GenerateFinish(r) \/ WithdrawFinish(r)
             \/ ApproveRefuse(r) \/ ApproveFinish(r) \/ Abort(r)
      PROVE  SignedInv'
  BY <1>3, SignedOther
<1> QED
  BY <1>1, <1>2, <1>3 DEF Next, vars, PutProviderKey

LEMMA SignedInit == Init => SignedInv
<1> SUFFICES ASSUME Init PROVE SignedInv
  OBVIOUS
<1>1. row.job = 0 /\ \A r \in Requests : req[r] = Idle
  BY DEF Init
<1>2. \A j \in Jobs, i \in Items : audit[j][i].status = "none"
  BY DEF Init, NoEntry
<1>3. SignedIn(Idle, 0, row.sig, audit)
  BY IdleFacts, IdlePlain DEF SignedIn, Plain, CopyTaken, IsApp
<1> QED
  BY <1>1, <1>2, <1>3 DEF SignedInv, NoneBeyond

(***************************************************************************)
(* The Audit page                                                          *)
(***************************************************************************)
\* A request on whose progress nothing here depends.
Apart(q) == ~(IsApp(q) /\ q.phase \in {"checked", "stamped", "stored", "recorded"})

LEMMA IdleApart == Apart(Idle)
  BY IdleFacts DEF Apart, IsApp

\* Nothing is between an approval's two writes, and its request goes on to q.
LEMMA AgreeFrame ==
    ASSUME OneSlot, AgreeInv, NEW r \in Requests,
           row'.job = row.job, UNCHANGED <<audit, clock, participants>>,
           AgreeIn(req'[r], row.job, audit, participants, clock)
    PROVE  AgreeInv'
  BY DEF OneSlot, AgreeInv, AgreeIn, PastAndUnmarked

LEMMA AgreeBegin ==
    ASSUME IInv, OneSlot, AgreeInv, NEW r \in Requests, NEW who \in Providers,
           NEW sig \in [Items -> Signature], NEW op \in Ops \ {"none"}, NEW phase \in Phases,
           phase = "loaded" \/ op \in {"enable", "run", "withdraw", "edit"},
           Begin(r, op, phase, who, sig), UNCHANGED <<row, audit, clock, participants>>
    PROVE  AgreeInv'
<1> DEFINE q == Call(op, phase, who, row.job, sig)
<1>1. /\ req' = [req EXCEPT ![r] = q] /\ row.job # 0 /\ row.job \in 0..MaxJobs
      /\ req[r] = Idle
  BY DEF Begin, IInv, TypeOK
<1>2. q \in Request /\ q.op = op /\ q.phase = phase /\ q.job = row.job
  BY <1>1, CallFacts
<1> HIDE DEF q
<1>3. req'[r] = q
  BY <1>1, <1>2, SetEffect DEF IInv
<1>4. AgreeIn(req[r], row.job, audit, participants, clock)
  BY DEF AgreeInv
<1>5. AgreeIn(q, row.job, audit, participants, clock)
  BY <1>1, <1>2, <1>4, IdleFacts DEF AgreeIn, IsApp
<1> QED
  BY <1>3, <1>5, AgreeFrame

LEMMA AgreeLoad ==
    ASSUME IInv, OneSlot, AgreeInv, NEW r \in Requests,
           \/ \E op \in {"data", "infra"}, p \in Providers : ApproveLoad(r, op, p)
           \/ StatusLoad(r) \/ EnableGate(r) \/ RunGate(r) \/ EditLoad(r)
           \/ \E p \in Providers : WithdrawLoad(r, p)
    PROVE  AgreeInv'
<1>1. row.sig \in [Items -> Signature]
  BY DEF IInv, TypeOK
<1>2. CASE \E p \in Providers : WithdrawLoad(r, p)
  <2>1. PICK p \in Providers : WithdrawLoad(r, p)
    BY <1>2
  <2> DEFINE sig == [i \in Items |-> IF i \in Own("data", p)
                                     THEN [NoSignature EXCEPT !.st = "withdrawn"]
                                     ELSE row.sig[i]]
  <2>2. Begin(r, "withdraw", "stamped", p, sig) /\ UNCHANGED <<row, audit, clock, participants>>
    BY <2>1 DEF WithdrawLoad
  <2>3. sig \in [Items -> Signature]
    BY <1>1, SignatureFacts
  <2>4. "withdraw" \in Ops \ {"none"} /\ "stamped" \in Phases
    BY DEF Ops, Phases
  <2> HIDE DEF sig
  <2> QED
    BY <2>2, <2>3, <2>4, AgreeBegin
<1>3. CASE ~\E p \in Providers : WithdrawLoad(r, p)
  <2>1. PICK op \in Ops \ {"none"}, phase \in Phases, who \in Providers :
            /\ phase = "loaded" \/ op \in {"enable", "run", "withdraw", "edit"}
            /\ Begin(r, op, phase, who, row.sig)
            /\ UNCHANGED <<row, audit, clock, participants>>
    BY <1>3, ItemFacts DEF ApproveLoad, StatusLoad, EnableGate, RunGate, EditLoad, Ops, Phases
  <2> QED
    BY <1>1, <2>1, AgreeBegin
<1> QED
  BY <1>2, <1>3

LEMMA AgreeGenerate ==
    ASSUME IInv, OneSlot, SignedInv, AgreeInv, NEW r \in Requests, Generate(r)
    PROVE  AgreeInv'
<1> DEFINE j == row.job + 1
           q == Call("generate", "stored", Nobody, j, Unsigned)
<1>1. /\ j \in Jobs /\ req' = [req EXCEPT ![r] = q] /\ UNCHANGED <<audit, clock, participants>>
      /\ row'.job = j
  BY DEF Generate, StoreGeneratedContract
<1>2. j \in 0..MaxJobs /\ "generate" \in Ops /\ "stored" \in Phases
  BY <1>1, JobBoundsAssumption DEF Jobs, Ops, Phases
<1>3. q \in Request /\ q.op = "generate"
  BY <1>2, ItemFacts, SignatureFacts, CallFacts
<1> HIDE DEF q
<1>4. req'[r] = q
  BY <1>1, <1>3, SetEffect DEF IInv
<1>5. row.job \in Nat /\ j > row.job /\ \A k \in Jobs : k > j => k > row.job
  BY JobBoundsAssumption DEF IInv, TypeOK, Jobs
<1>6. \A i \in Items : participants[j][i] \notin {"approved", "rejected"}
  BY <1>1, <1>5 DEF AgreeInv, PastAndUnmarked
<1>7. PastAndUnmarked(j, audit, participants, clock)
  BY <1>5 DEF AgreeInv, PastAndUnmarked
<1>8. AgreeIn(q, j, audit, participants, clock)
  BY <1>3, <1>6 DEF AgreeIn, IsApp, Agree
<1> QED
  BY <1>1, <1>4, <1>7, <1>8 DEF AgreeInv, OneSlot

LEMMA AgreeCheck ==
    ASSUME IInv, OneSlot, AgreeInv, NEW r \in Requests, ApproveCheck(r)
    PROVE  AgreeInv'
<1> DEFINE q == req[r]
           seen == {i \in KindItems(q.op) : audit[q.job][i].status # "none"}
           h == [q EXCEPT !.phase = "checked", !.seen = seen]
<1>1. /\ q.op \in {"data", "infra"} /\ q.phase = "loaded" /\ req' = [req EXCEPT ![r] = h]
      /\ UNCHANGED <<row, audit, clock, participants>>
  BY DEF ApproveCheck, IsApproval, Step
<1>2. q \in Request /\ AgreeIn(q, row.job, audit, participants, clock) /\ seen \in SUBSET Items
  BY Kept, ItemFacts DEF AgreeInv
<1>3. \A i \in KindItems(q.op) \ seen : audit[q.job][i].status = "none"
  OBVIOUS
<1> HIDE DEF seen
<1>4. h \in Request /\ h.phase = "checked" /\ h.op = q.op /\ h.job = q.job /\ h.seen = seen
  BY <1>2 DEF Request, Phases
<1> HIDE DEF h
<1>5. req'[r] = h
  BY <1>1, <1>4, SetEffect DEF IInv
<1>6. AgreeIn(h, row.job, audit, participants, clock)
  BY <1>1, <1>2, <1>3, <1>4 DEF AgreeIn, IsApp
<1> QED
  BY <1>1, <1>5, <1>6, AgreeFrame

\* The stamp of an approval is later than every entry.
LEMMA AgreeStamp ==
    ASSUME IInv, OneSlot, SignedInv, AgreeInv, NEW r \in Requests, NEW lost \in SUBSET Infras,
           NEW ok \in SUBSET Items, NEW good \in BOOLEAN, ApproveStamp(r, lost, ok, good)
    PROVE  AgreeInv'
<1> DEFINE q == req[r]
           own == Own(q.op, q.who) \ lost
           sig == SignApprovedItems(q.sig, ok,
                      [st |-> "signed", good |-> good, key |-> IF good THEN key[q.who] ELSE 0])
           h == [q EXCEPT !.phase = "stamped", !.stamp = clock, !.own = own, !.items = ok,
                          !.lost = lost, !.sig = sig]
<1>1. /\ q.op \in {"data", "infra"} /\ q.phase = "checked" /\ req' = [req EXCEPT ![r] = h]
      /\ clock' = clock + 1 /\ UNCHANGED <<row, audit, participants>>
  BY DEF ApproveStamp, IsApproval, Step
<1>2. /\ q \in Request /\ RequestWell(q) /\ AgreeIn(q, row.job, audit, participants, clock)
      /\ PastAndUnmarked(row.job, audit, participants, clock) /\ clock \in Nat
  BY Kept DEF AgreeInv, IInv, TypeOK
<1>3. q.job \in Jobs
  BY <1>1, <1>2, JobFacts DEF IInv
<1> HIDE DEF own, sig
<1>4. h.phase = "stamped" /\ h.op = q.op /\ h.job = q.job /\ h.seen = q.seen /\ h.stamp = clock
  BY <1>2 DEF Request
<1> HIDE DEF h
<1>5. req'[r] = h
  BY <1>1 DEF IInv, TypeOK
<1>6. \A j \in Jobs, i \in Items : audit[j][i].stamp \in Nat
  BY DEF IInv, TypeOK, Entry
<1>7. PastAndUnmarked(row.job, audit, participants, clock + 1)
  BY <1>2, <1>6 DEF PastAndUnmarked
<1>8. clock < clock + 1 /\ \A i \in Items : audit[q.job][i].stamp < clock
  BY <1>2, <1>3 DEF PastAndUnmarked
<1>9. AgreeIn(h, row.job, audit, participants, clock + 1)
  BY <1>1, <1>2, <1>4, <1>8 DEF AgreeIn, IsApp
<1> QED
  BY <1>1, <1>5, <1>7, <1>9 DEF AgreeInv, OneSlot

\* The entries an approval writes are on its own items, which it marks next,
\* or on items without an entry, which are not marked.
LEMMA AgreeAudit ==
    ASSUME IInv, OneSlot, SignedInv, AgreeInv, NEW r \in Requests, ApproveAudit(r)
    PROVE  AgreeInv'
<1> DEFINE q == req[r]
           j == q.job
           rows == q.own \cup Awaiting(q)
           e(i) == [stamp |-> q.stamp, status |-> IF i \in q.items THEN "accepted" ELSE "rejected"]
           h == [q EXCEPT !.phase = "recorded"]
<1>1. /\ q \in Request /\ RequestWell(q) /\ AgreeIn(q, row.job, audit, participants, clock)
      /\ SignedIn(q, row.job, row.sig, audit) /\ PastAndUnmarked(row.job, audit, participants, clock)
  BY Kept DEF AgreeInv, SignedInv
<1>2. /\ q.op \in {"data", "infra"} /\ q.phase = "stored" /\ req' = [req EXCEPT ![r] = h]
      /\ audit' = [audit EXCEPT ![j] =
            [i \in Items |-> IF i \in rows /\ q.stamp > audit[j][i].stamp THEN e(i) ELSE audit[j][i]]]
      /\ UNCHANGED <<row, clock, participants>>
  BY DEF ApproveAudit, IsApproval, Step
<1>3. j \in Jobs /\ j = row.job /\ j # 0
  BY <1>1, <1>2, JobFacts DEF IInv, SignedIn, Jobs
<1>4. /\ q.own \subseteq KindItems(q.op) /\ q.items \subseteq q.own /\ KindItems(q.op) \subseteq Items
      /\ q.stamp < clock /\ \A i \in Items : q.stamp > audit[j][i].stamp
      /\ \A i \in KindItems(q.op) \ q.seen : audit[j][i].status = "none"
  <2>1. q.stamp \in Nat /\ \A i \in Items : audit[j][i].stamp \in Nat
    BY <1>1, <1>3 DEF IInv, TypeOK, Entry, Request
  <2>2. q.stamp < clock /\ \A i \in Items : audit[j][i].stamp < q.stamp
    BY <1>1, <1>2 DEF AgreeIn, IsApp
  <2> QED
    BY <1>1, <1>2, <2>1, <2>2, ItemFacts DEF RequestWell, ApprovalWell, AgreeIn, IsApp
<1>5. audit \in [Jobs -> [Items -> Entry]]
  BY DEF IInv, TypeOK
<1>6. \A i \in Items : e(i).stamp = q.stamp
                    /\ e(i).status = IF i \in q.items THEN "accepted" ELSE "rejected"
  OBVIOUS
<1>7. \A i \in rows : i \in q.own \/ audit[j][i].status = "none"
  BY <1>4 DEF Awaiting
<1>8. q.own \subseteq rows
  OBVIOUS
<1> HIDE DEF rows, e
<1>9. /\ \A k \in Jobs : k # j => audit'[k] = audit[k]
      /\ \A i \in Items : audit'[j][i] = IF i \in rows THEN e(i) ELSE audit[j][i]
  BY <1>2, <1>3, <1>4, <1>5
<1>10. h.phase = "recorded" /\ h.op = q.op /\ h.job = j /\ h.own = q.own /\ h.items = q.items
  BY <1>1 DEF Request
<1> HIDE DEF h
<1>11. req'[r] = h
  BY <1>2 DEF IInv, TypeOK
<1>12. PastAndUnmarked(row.job, audit', participants, clock)
  <2> SUFFICES ASSUME NEW k \in Jobs, NEW i \in Items PROVE audit'[k][i].stamp < clock
    BY <1>1 DEF PastAndUnmarked
  <2>1. CASE k = j /\ i \in rows
    BY <1>4, <1>6, <1>9, <2>1
  <2>2. CASE ~(k = j /\ i \in rows)
    BY <1>1, <1>9, <2>2 DEF PastAndUnmarked
  <2> QED
    BY <2>1, <2>2
<1>13. \A i \in q.own : audit'[j][i].status = IF i \in q.items THEN "accepted" ELSE "rejected"
  BY <1>4, <1>6, <1>8, <1>9
<1>14. ASSUME NEW i \in Items, i \notin q.own PROVE Agree(audit'[j][i].status, participants[j][i])
  <2>1. Agree(audit[j][i].status, participants[j][i])
    BY <1>1, <1>2, <1>3 DEF AgreeIn
  <2>2. CASE i \in rows
    <3>1. participants[j][i] \notin {"approved", "rejected"}
      BY <1>7, <1>14, <2>1, <2>2 DEF Agree
    <3> QED
      BY <3>1 DEF Agree
  <2>3. CASE i \notin rows
    BY <1>9, <2>1, <2>3
  <2> QED
    BY <2>2, <2>3
<1>15. AgreeIn(h, row.job, audit', participants, clock)
  BY <1>2, <1>3, <1>10, <1>13, <1>14 DEF AgreeIn, IsApp
<1> QED
  BY <1>2, <1>11, <1>12, <1>15 DEF AgreeInv, OneSlot

\* A step that leaves row, audit table and page alone.
LEMMA AgreeApart ==
    ASSUME IInv, OneSlot, AgreeInv, NEW r \in Requests, NEW h \in Request,
           req' = [req EXCEPT ![r] = h], Apart(h), ~(IsApp(req[r]) /\ req[r].phase = "recorded"),
           row'.job = row.job, UNCHANGED <<audit, clock, participants>>
    PROVE  AgreeInv'
<1>1. req'[r] = h
  BY SetEffect DEF IInv
<1>2. AgreeIn(req[r], row.job, audit, participants, clock)
  BY DEF AgreeInv
<1>3. AgreeIn(h, row.job, audit, participants, clock)
  BY <1>2 DEF AgreeIn, Apart
<1> QED
  BY <1>1, <1>3, AgreeFrame

LEMMA AgreeStore ==
    ASSUME IInv, OneSlot, AgreeInv, NEW r \in Requests, ApproveStore(r) \/ Store(r)
    PROVE  AgreeInv'
<1> DEFINE q == req[r]
           h == [q EXCEPT !.phase = "stored"]
<1>1. /\ q \in Request /\ AgreeIn(q, row.job, audit, participants, clock)
      /\ UNCHANGED <<audit, clock, participants>> /\ row'.job = row.job
  BY Kept DEF AgreeInv, ApproveStore, Store
<1>2. /\ h \in Request /\ h.phase = "stored" /\ h.op = q.op /\ h.job = q.job
      /\ h.seen = q.seen /\ h.stamp = q.stamp
  BY <1>1 DEF Request, Phases
<1>3. /\ q.phase = "stamped" /\ q.op \in {"data", "infra", "withdraw", "edit"}
      /\ req' = [req EXCEPT ![r] = h] \/ req' = [req EXCEPT ![r] = Idle]
  BY DEF ApproveStore, Store, IsApproval, Step, End
<1> HIDE DEF h
<1>4. CASE req' = [req EXCEPT ![r] = Idle]
  BY <1>1, <1>3, <1>4, IdleFacts, IdleApart, AgreeApart
<1>5. CASE req' = [req EXCEPT ![r] = h]
  <2>1. req'[r] = h
    BY <1>2, <1>5, SetEffect DEF IInv
  <2>2. AgreeIn(h, row.job, audit, participants, clock)
    BY <1>1, <1>2, <1>3 DEF AgreeIn, IsApp
  <2> QED
    BY <1>1, <2>1, <2>2, AgreeFrame
<1> QED
  BY <1>3, <1>4, <1>5

LEMMA AgreeStatus ==
    ASSUME IInv, OneSlot, AgreeInv, NEW r \in Requests,
           StatusCheck(r) \/ StatusCreate(r) \/ StatusMark(r)
    PROVE  AgreeInv'
<1> DEFINE q == req[r]
           ok == {i \in Items : audit[q.job][i].status = "accepted"}
           h(ph) == [q EXCEPT !.phase = ph]
           v == [q EXCEPT !.phase = "verified", !.items = ok]
<1>1. q \in Request /\ UNCHANGED <<audit, clock, participants>> /\ row'.job = row.job
  BY Kept DEF StatusCheck, StatusCreate, StatusMark
<1>2. /\ \A ph \in {"created", "pending", "marked"} : h(ph) \in Request /\ h(ph).op = q.op
      /\ v \in Request /\ v.op = q.op
  BY <1>1 DEF Request, Phases
<1>3. /\ q.op = "status"
      /\ \/ req' = [req EXCEPT ![r] = Idle] \/ req' = [req EXCEPT ![r] = v]
         \/ \E ph \in {"created", "pending", "marked"} : req' = [req EXCEPT ![r] = h(ph)]
  BY DEF StatusCheck, StatusCreate, StatusMark, At, Step, End
<1> HIDE DEF h, v
<1>4. PICK x \in Request : x.op \in {"status", "none"} /\ req' = [req EXCEPT ![r] = x]
  BY <1>2, <1>3, IdleFacts
<1>5. Apart(x) /\ ~IsApp(q)
  BY <1>3, <1>4 DEF Apart, IsApp
<1> QED
  BY <1>1, <1>4, <1>5, AgreeApart

\* A request that ends may mark the page, which agrees after it again.
LEMMA AgreeMark ==
    ASSUME IInv, OneSlot, AgreeInv, NEW r \in Requests, End(r),
           row'.job = row.job, UNCHANGED <<audit, clock>>,
           \A j \in Jobs, i \in Items : \/ j = row.job \/ participants'[j][i] = participants[j][i]
                                        \/ participants'[j][i] \notin {"approved", "rejected"},
           row.job # 0 => \A i \in Items : Agree(audit[row.job][i].status, participants'[row.job][i])
    PROVE  AgreeInv'
<1>1. req'[r] = Idle
  BY IdleFacts, SetEffect DEF End, Step, IInv
<1>2. AgreeIn(Idle, row.job, audit, participants', clock)
  BY IdleApart DEF AgreeIn, Apart
<1>3. \A j \in Jobs : j > row.job => j # row.job
  BY DEF IInv, TypeOK, Jobs
<1>4. PastAndUnmarked(row.job, audit, participants', clock)
  BY <1>3 DEF AgreeInv, PastAndUnmarked
<1> QED
  BY <1>1, <1>2, <1>4 DEF AgreeInv, OneSlot

LEMMA AgreeUnmark ==
    ASSUME IInv, OneSlot, AgreeInv, NEW r \in Requests, End(r),
           ~(IsApp(req[r]) /\ req[r].phase = "recorded"),
           row'.job = row.job, UNCHANGED <<audit, clock>>,
           \A j \in Jobs, i \in Items : \/ participants'[j][i] = participants[j][i]
                                        \/ participants'[j][i] \notin {"approved", "rejected"}
    PROVE  AgreeInv'
<1>1. AgreeIn(req[r], row.job, audit, participants, clock)
  BY DEF AgreeInv
<1>2. ASSUME row.job # 0, NEW i \in Items
      PROVE  Agree(audit[row.job][i].status, participants'[row.job][i])
  <2>1. row.job \in Jobs
    BY <1>2, JobBoundsAssumption DEF IInv, TypeOK, Jobs
  <2> QED
    BY <1>1, <1>2, <2>1 DEF AgreeIn, Agree
<1> QED
  BY <1>2, AgreeMark

LEMMA MarkEffect ==
    ASSUME IInv, NEW job, NEW status, participants' = MarkParticipants(job, status)
    PROVE  \A j \in Jobs, i \in Items :
              participants'[j][i] = IF j = job /\ i \in DOMAIN status /\ participants[j][i] # "absent"
                                    THEN status[i] ELSE participants[j][i]
  BY DEF MarkParticipants, IInv, TypeOK

LEMMA AgreeEnds ==
    ASSUME IInv, OneSlot, AgreeInv, NEW r \in Requests,
           \/ GenerateFinish(r) \/ WithdrawFinish(r) \/ StatusFinish(r) \/ EnableFinish(r)
           \/ RunStart(r) \/ ApproveRefuse(r)
    PROVE  AgreeInv'
<1> DEFINE q == req[r]
<1>1. /\ End(r) /\ row'.job = row.job /\ UNCHANGED <<audit, clock>>
      /\ ~(IsApp(q) /\ q.phase = "recorded")
  BY Kept DEF GenerateFinish, WithdrawFinish, StatusFinish, EnableFinish, RunStart, ApproveRefuse,
     At, IsApp
<1>2. CASE GenerateFinish(r) \/ ApproveRefuse(r)
  BY <1>1, <1>2, AgreeUnmark DEF GenerateFinish, ApproveRefuse
<1>3. CASE UNCHANGED participants
  BY <1>1, <1>3, AgreeUnmark
<1>4. ASSUME NEW D \in SUBSET Items, NEW s \in {"withdrawn", "final", "tee_enabled"},
             participants' = MarkParticipants(q.job, [i \in D |-> s])
      PROVE  AgreeInv'
  <2> DEFINE status == [i \in D |-> s]
  <2>1. DOMAIN status = D /\ \A i \in D : status[i] = s
    OBVIOUS
  <2> HIDE DEF status
  <2>2. \A j \in Jobs, i \in Items : participants'[j][i] \in {s, participants[j][i]}
    BY <1>4, <2>1, MarkEffect DEF status
  <2> QED
    BY <1>1, <2>2, AgreeUnmark
<1>5. CASE WithdrawFinish(r) \/ StatusFinish(r) \/ EnableFinish(r) \/ RunStart(r)
  <2>1. Own("data", q.who) \in SUBSET Items /\ Items \in SUBSET Items
    BY ItemFacts DEF Own
  <2> QED
    BY <1>3, <1>4, <1>5, <2>1 DEF WithdrawFinish, StatusFinish, EnableFinish, RunStart
<1> QED
  BY <1>2, <1>5

\* An approval marks its own items as it has just recorded them.
LEMMA AgreeFinish ==
    ASSUME IInv, OneSlot, SignedInv, AgreeInv, NEW r \in Requests, ApproveFinish(r)
    PROVE  AgreeInv'
<1> DEFINE q == req[r]
           status == [i \in q.own |-> ParticipantStatus(i \in q.items)]
<1>1. /\ IsApp(q) /\ q.phase = "recorded" /\ End(r) /\ UNCHANGED <<row, audit, clock>>
      /\ participants' = MarkParticipants(q.job, status)
  BY DEF ApproveFinish, IsApproval, IsApp
<1>2. /\ AgreeIn(q, row.job, audit, participants, clock) /\ SignedIn(q, row.job, row.sig, audit)
      /\ RequestWell(q)
  BY Kept DEF AgreeInv, SignedInv
<1>3. q.job = row.job /\ row.job \in Jobs /\ row.job # 0
  BY <1>1, <1>2, JobFacts DEF IInv, SignedIn, Jobs
<1>4. /\ DOMAIN status = q.own
      /\ \A i \in q.own : status[i] = IF i \in q.items THEN "approved" ELSE "rejected"
  BY DEF ParticipantStatus
<1> HIDE DEF status
<1>5. \A j \in Jobs, i \in Items :
          participants'[j][i] = IF j = q.job /\ i \in q.own /\ participants[j][i] # "absent"
                                THEN status[i] ELSE participants[j][i]
  BY <1>1, <1>4, MarkEffect
<1>6. ASSUME NEW i \in Items PROVE Agree(audit[row.job][i].status, participants'[row.job][i])
  <2>1. CASE i \in q.own
    BY <1>1, <1>2, <1>3, <1>4, <1>5, <2>1 DEF AgreeIn, Agree
  <2>2. CASE i \notin q.own
    BY <1>1, <1>2, <1>3, <1>5, <2>2 DEF AgreeIn
  <2> QED
    BY <2>1, <2>2
<1>7. \A j \in Jobs, i \in Items : j = row.job \/ participants'[j][i] = participants[j][i]
  BY <1>3, <1>5
<1> QED
  BY <1>1, <1>6, <1>7, AgreeMark

LEMMA AgreeStep == OneSlot /\ ~Aborts /\ IInv /\ SignedInv /\ AgreeInv /\ [Next]_vars => AgreeInv'
<1> SUFFICES ASSUME OneSlot, ~Aborts, IInv, SignedInv, AgreeInv, [Next]_vars PROVE AgreeInv'
  OBVIOUS
<1>1. ASSUME UNCHANGED <<row, audit, req, participants, clock>> PROVE AgreeInv'
  BY <1>1 DEF AgreeInv, AgreeIn, PastAndUnmarked
<1>2. ASSUME NEW r \in Requests,
             \/ Generate(r)
             \/ \E op \in {"data", "infra"}, p \in Providers : ApproveLoad(r, op, p)
             \/ ApproveCheck(r)
             \/ \E lost \in SUBSET Infras, ok \in SUBSET Items, good \in BOOLEAN :
                    ApproveStamp(r, lost, ok, good)
             \/ ApproveStore(r) \/ ApproveAudit(r) \/ ApproveFinish(r)
             \/ \E p \in Providers : WithdrawLoad(r, p)
             \/ Store(r) \/ StatusLoad(r) \/ EnableGate(r) \/ RunGate(r) \/ EditLoad(r)
      PROVE  AgreeInv'
  BY <1>2, AgreeGenerate, AgreeLoad, AgreeCheck, AgreeStamp, AgreeStore, AgreeAudit, AgreeFinish
<1>3. ASSUME NEW r \in Requests,
             \/ StatusCheck(r) \/ StatusCreate(r) \/ StatusMark(r) \/ StatusFinish(r)
             \/ EnableFinish(r) \/ RunStart(r) \/ GenerateFinish(r) \/ WithdrawFinish(r)
             \/ ApproveRefuse(r)
      PROVE  AgreeInv'
  BY <1>3, AgreeStatus, AgreeEnds
<1>4. \A r \in Requests : ~Abort(r)
  BY DEF Abort
<1> QED
  BY <1>1, <1>2, <1>3, <1>4 DEF Next, vars, PutProviderKey

LEMMA AgreeInit == Init => AgreeInv
<1> SUFFICES ASSUME Init PROVE AgreeInv
  OBVIOUS
<1>1. row.job = 0 /\ clock = 1 /\ \A r \in Requests : req[r] = Idle
  BY DEF Init
<1>2. \A j \in Jobs, i \in Items : audit[j][i].stamp = 0 /\ participants[j][i] = "absent"
  BY DEF Init, NoEntry
<1>3. AgreeIn(Idle, 0, audit, participants, clock)
  BY IdleApart DEF AgreeIn, Apart
<1> QED
  BY <1>1, <1>2, <1>3 DEF AgreeInv, PastAndUnmarked

\* Approving is also signing, while requests run one at a time: in a quiet
\* moment an accepted item is signed, or was withdrawn, wherever a request died
\* (JobApprovalData, JobApprovalInfra, signApprovedItems).
THEOREM AcceptedSigned ==
    ASSUME OneSlot
    PROVE  Spec => []AcceptedAreSigned
<1>1. SignedInv => AcceptedAreSigned
  BY DEF OneSlot, SignedInv, SignedIn, AcceptedAreSigned
<1>2. IInv /\ SignedInv /\ [Next]_vars => SignedInv'
  BY SignedStep
<1> QED
  BY <1>1, <1>2, Invariance, SignedInit, PTL DEF Spec

\* While requests run one at a time and none dies half-way, the Audit page
\* never shows an item approved or rejected that its current check is not
\* (markApprovalParticipants after InsertAuditEntries).
THEOREM PageMatches ==
    ASSUME OneSlot, ~Aborts
    PROVE  Spec => []ParticipantsMatchAudit
<1>1. AgreeInv => ParticipantsMatchAudit
  <2> SUFFICES ASSUME AgreeInv, Quiet, row.job # 0
               PROVE  \A i \in Items : Agree(audit[row.job][i].status, participants[row.job][i])
    BY DEF ParticipantsMatchAudit, Agree
  <2>1. PICK r \in Requests : req[r] = Idle
    BY DEF OneSlot, Quiet
  <2>2. AgreeIn(Idle, row.job, audit, participants, clock)
    BY <2>1 DEF AgreeInv
  <2> QED
    BY <2>2, IdleApart DEF AgreeIn, Apart
<1>2. IInv /\ SignedInv /\ [Next]_vars => SignedInv'
  BY SignedStep
<1>3. IInv /\ SignedInv /\ AgreeInv /\ [Next]_vars => AgreeInv'
  BY AgreeStep
<1> QED
  BY <1>1, <1>2, <1>3, Invariance, SignedInit, AgreeInit, PTL DEF Spec
==============================================================================
