------------------------ MODULE ContractSigningProofs ------------------------
(***************************************************************************)
(* Proofs about ContractSigning, for every set of providers, every number  *)
(* of overlapping requests and every bound; at the end, what holds once    *)
(* requests run one at a time.                                             *)
(***************************************************************************)
EXTENDS ContractSigning, TLAPS, WellFoundedInduction

(***************************************************************************)
(* The operators on documents                                              *)
(***************************************************************************)

\* Every non-empty set of times has an earliest one.
LEMMA EarliestExists ==
    ASSUME NEW T, T \subseteq Nat, T # {}
    PROVE  \E t \in T : \A u \in T : t <= u
<1> DEFINE R == {ss \in Nat \X Nat : ss[1] < ss[2]}
<1>1. IsWellFoundedOn(R, Nat)
  BY NatLessThanWellFounded, Zenon DEF OpToRel
<1>2. PICK t \in T : \A u \in T : ~(<<u, t>> \in R)
  BY <1>1, WFMin
<1>3. ASSUME NEW u \in T PROVE t <= u
  <2>1. u \in Nat /\ t \in Nat
    OBVIOUS
  <2>2. u < t => <<u, t>> \in R
    BY <2>1
  <2> QED
    BY <1>2, <2>1, <2>2
<1> QED
  BY <1>3

\* earliestConsentExpiry returns a time no later than its fallback and than
\* every expiry that is set.
LEMMA EarliestConsentExpiryBound ==
    ASSUME NEW expiry \in [Providers -> Nat], NEW fallback \in Nat
    PROVE  /\ EarliestConsentExpiry(expiry, fallback) \in Nat
           /\ EarliestConsentExpiry(expiry, fallback) <= fallback
           /\ \A p \in Providers : expiry[p] # 0 =>
                 EarliestConsentExpiry(expiry, fallback) <= expiry[p]
<1> DEFINE ends == {fallback} \cup {expiry[p] : p \in {q \in Providers : expiry[q] # 0}}
<1>1. ends \subseteq Nat /\ ends # {}
  OBVIOUS
<1>2. \E t \in ends : \A u \in ends : t <= u
  BY <1>1, EarliestExists
<1>3. EarliestConsentExpiry(expiry, fallback) = CHOOSE t \in ends : \A u \in ends : t <= u
  BY DEF EarliestConsentExpiry
<1> HIDE DEF ends
<1>4. /\ EarliestConsentExpiry(expiry, fallback) \in ends
      /\ \A u \in ends : EarliestConsentExpiry(expiry, fallback) <= u
  BY <1>2, <1>3
<1> QED
  BY <1>1, <1>4 DEF ends

LEMMA NoContentType == NoContent \in Content
  BY DEF NoContent, Content

LEMMA NoSignatureType == NoSignature \in Signature
  BY NoContentType DEF NoSignature, Signature

LEMMA NoDocumentType == NoDocument \in Document
  BY NoContentType, NoSignatureType DEF NoDocument, Document

LEMMA DocumentFields ==
    ASSUME NEW d \in Document
    PROVE  /\ d.content \in Content /\ d.hash \in Content
           /\ d.gov \in Content /\ d.amend \in Content
           /\ d.sig \in [Providers -> Signature]
  BY DEF Document

LEMMA ContentFields ==
    ASSUME NEW c \in Content
    PROVE  /\ c.cid \in Nat /\ c.from \in Nat /\ c.until \in Nat /\ c.requested \in Nat
           /\ c.technique \in Techniques \cup {""} /\ c.text \in Texts \cup {""}
           /\ c.expiry \in [Providers -> Nat]
  BY DEF Content

\* A generated document: everything hashed, governance-signed, nobody signed.
LEMMA GeneratedDocumentType ==
    ASSUME NEW cid \in Nat, NEW t \in Techniques, NEW x \in Texts, now \in Nat
    PROVE  LET d == GeneratedDocument(cid, t, x)
           IN  /\ d \in Document
               /\ d.content.cid = cid
               /\ d.hash = d.content /\ d.gov = d.hash
               /\ d.sig = NoDocument.sig
               /\ \A p \in Providers : d.content.expiry[p] = 0
<1> DEFINE c == [cid |-> cid, technique |-> t, text |-> x, from |-> now,
                 until |-> now + Validity, requested |-> 0,
                 expiry |-> [p \in Providers |-> 0]]
<1>1. now + Validity \in Nat
  BY BoundsAssumption
<1>2. c \in Content /\ c.cid = cid /\ \A p \in Providers : c.expiry[p] = 0
  BY <1>1 DEF Content
<1>3. GeneratedDocument(cid, t, x) =
        [[NoDocument EXCEPT !.content = c, !.hash = c] EXCEPT !.gov = c]
  BY NoDocumentType DEF GeneratedDocument, GovernanceSign, Document
<1> HIDE DEF c
<1> QED
  BY <1>2, <1>3, NoDocumentType DEF Document

\* A document with one provider's signature replaced.
LEMMA SignatureUpdate ==
    ASSUME NEW d \in Document, NEW p \in Providers, NEW s \in Signature
    PROVE  LET e == [d EXCEPT !.sig[p] = s]
           IN  /\ e \in Document
               /\ e.content = d.content /\ e.hash = d.hash
               /\ e.gov = d.gov /\ e.amend = d.amend
               /\ e.sig[p] = s
               /\ \A q \in Providers : q # p => e.sig[q] = d.sig[q]
  BY DEF Document

LEMMA ExpiryContentType ==
    ASSUME NEW c \in Content, NEW p \in Providers, NEW u \in Nat
    PROVE  LET e == ExpiryContent(c, p, u)
           IN  /\ e \in Content
               /\ e.cid = c.cid
               /\ e.requested = RequestedEnd(c)
               /\ e.expiry = [c.expiry EXCEPT ![p] = u]
<1>1. [c.expiry EXCEPT ![p] = u] \in [Providers -> Nat]
  BY ContentFields
<1>2. RequestedEnd(c) \in Nat
  BY ContentFields DEF RequestedEnd
<1>3. EarliestConsentExpiry([c.expiry EXCEPT ![p] = u], RequestedEnd(c)) \in Nat
  BY <1>1, <1>2, EarliestConsentExpiryBound
<1> QED
  BY <1>1, <1>2, <1>3 DEF ExpiryContent, Content

\* The document an expiry request writes: hashed afresh, governance-signed
\* afresh, and no provider's signature left on it.
LEMMA WithConsentExpiryType ==
    ASSUME NEW d \in Document, NEW p \in Providers, NEW u \in Nat
    PROVE  LET e == WithConsentExpiry(d, p, u)
           IN  /\ e \in Document
               /\ e.content = ExpiryContent(d.content, p, u)
               /\ e.hash = e.content /\ e.gov = e.hash
               /\ \A q \in Providers : ~Signed(e, q)
<1> DEFINE c == ExpiryContent(d.content, p, u)
           s == ClearSignatures(d)
<1>1. c \in Content
  BY ExpiryContentType, DocumentFields
<1>2. s \in [Providers -> Signature] /\ \A q \in Providers : s[q].st # "signed"
  BY DocumentFields, NoSignatureType DEF ClearSignatures, Signed, NoSignature
<1>3. WithConsentExpiry(d, p, u) =
        [[d EXCEPT !.content = c, !.hash = c, !.sig = s] EXCEPT !.gov = c]
  BY DEF WithConsentExpiry, GovernanceSign, Document
<1> HIDE DEF c, s
<1>4. WithConsentExpiry(d, p, u) \in Document
  BY <1>1, <1>2, <1>3 DEF Document
<1>5. /\ WithConsentExpiry(d, p, u).content = c
      /\ WithConsentExpiry(d, p, u).hash = c
      /\ WithConsentExpiry(d, p, u).gov = c
      /\ WithConsentExpiry(d, p, u).sig = s
  BY <1>1, <1>2, <1>3 DEF Document
<1> QED
  BY <1>2, <1>4, <1>5 DEF c, Signed

LEMMA ApplyEditType ==
    ASSUME NEW c \in Content, NEW e \in Edits
    PROVE  ApplyEdit(c, e) \in Content /\ SameConsentTerms(ApplyEdit(c, e), c)
<1>1. e.text \in Texts \cup {""} /\ e.from \in Nat /\ e.until \in Nat
  BY InputsAssumption
<1> QED
  BY <1>1 DEF ApplyEdit, Content, SameConsentTerms

LEMMA AmendSignType ==
    ASSUME NEW d \in Document, NEW c \in Content
    PROVE  LET e == AmendSign([d EXCEPT !.content = c])
           IN  /\ e \in Document
               /\ e.content = c /\ e.amend = c
               /\ e.hash = d.hash /\ e.gov = d.gov /\ e.sig = d.sig
  BY DEF AmendSign, ComputeHash, Document

(***************************************************************************)
(* Type correctness                                                        *)
(***************************************************************************)
LEMMA IdleType == Idle \in Request
  BY NoDocumentType DEF Idle, Request, Ops

LEMMA RequestFields ==
    ASSUME TypeOK, NEW r \in Requests
    PROVE  /\ req[r] \in Request
           /\ req[r].doc \in Document
           /\ req[r].who \in Providers \cup {Consumer}
           /\ req[r].resigners \in SUBSET Providers
           /\ Cid(r) \in Nat
<1>1. req[r] \in Request
  BY DEF TypeOK
<1>2. req[r].doc \in Document
  BY <1>1 DEF Request
<1>3. Cid(r) \in Nat
  BY <1>2, DocumentFields, ContentFields DEF Cid
<1> QED
  BY <1>1, <1>2, <1>3 DEF Request

LEMMA RowFields ==
    ASSUME TypeOK
    PROVE  /\ row.doc \in Document
           /\ row.doc.content \in Content
           /\ row.doc.content.cid \in Nat
<1>1. row.doc \in Document
  BY DEF TypeOK
<1> QED
  BY <1>1, DocumentFields, ContentFields

LEMMA BeginType ==
    ASSUME TypeOK, NEW r \in Requests, NEW op \in Ops,
           NEW phase \in {"idle", "loaded", "stored"},
           NEW who \in Providers \cup {Consumer}, NEW d \in Document,
           op \in {"sign", "withdraw", "expiry"} => who \in Providers,
           NEW rs \in SUBSET Providers, Begin(r, op, phase, who, d, rs)
    PROVE  /\ req' \in [Requests -> Request]
           /\ served' \in Nat
<1>1. [phase |-> phase, op |-> op, who |-> who, doc |-> d, resigners |-> rs] \in Request
  BY DEF Request
<1> QED
  BY <1>1 DEF TypeOK, Begin

LEMMA EndType ==
    ASSUME TypeOK, NEW r \in Requests, End(r)
    PROVE  /\ req' \in [Requests -> Request]
           /\ served' \in Nat
  BY IdleType DEF TypeOK, End

LEMMA MarkParticipantsType ==
    ASSUME TypeOK, NEW cid, NEW who, NEW status \in Statuses
    PROVE  /\ MarkParticipants(cid, who, status) \in [ContractIds -> [Providers -> Statuses]]
           /\ MarkById(cid, who, status) \in [ContractIds -> [Providers -> Statuses]]
  BY DEF TypeOK, MarkParticipants, MarkById

LEMMA SignRequestsType ==
    ASSUME NEW d \in Document
    PROVE  SignRequests(d) \subseteq [to : Providers, hash : Content]
  BY DocumentFields, ProvidersAssumption DEF SignRequests

LEMMA TypeOKInit == Init => TypeOK
<1> SUFFICES ASSUME Init PROVE TypeOK
  OBVIOUS
<1>1. row \in [doc : Document, teeEnabled : BOOLEAN, signRequestsSent : BOOLEAN]
  BY NoDocumentType DEF Init
<1>2. req \in [Requests -> Request]
  BY IdleType DEF Init
<1>3. participants \in [ContractIds -> [Providers -> Statuses]]
  BY DEF Init, Statuses
<1> QED
  BY <1>1, <1>2, <1>3 DEF Init, TypeOK

LEMMA TypeOKNext == TypeOK /\ [Next]_vars => TypeOK'
<1> SUFFICES ASSUME TypeOK, [Next]_vars PROVE TypeOK'
  OBVIOUS
<1>a. Consumer \in Providers \cup {Consumer} /\ {} \in SUBSET Providers
  OBVIOUS
<1>1. ASSUME NEW r \in Requests, NEW t \in Techniques, NEW x \in Texts, Generate(r, t, x)
      PROVE  TypeOK'
  <2> DEFINE cid == row.doc.content.cid + 1
             d == GeneratedDocument(cid, t, x)
  <2>1. cid \in Nat
    BY RowFields
  <2>2. d \in Document
    BY <2>1, GeneratedDocumentType DEF TypeOK
  <2>3. row' = StoreGeneratedContract(d) /\ Begin(r, "generate", "stored", Consumer, d, {})
    BY <1>1 DEF Generate
  <2> HIDE DEF cid, d
  <2>4. row' \in [doc : Document, teeEnabled : BOOLEAN, signRequestsSent : BOOLEAN]
    BY <2>2, <2>3 DEF StoreGeneratedContract
  <2>5. req' \in [Requests -> Request] /\ served' \in Nat
    BY <1>a, <2>2, <2>3, BeginType DEF Ops
  <2> QED
    BY <1>1, <2>4, <2>5 DEF Generate, TypeOK
<1>2. ASSUME NEW r \in Requests, GenerateFinish(r) PROVE TypeOK'
  <2>1. participants' \in [ContractIds -> [Providers -> Statuses]]
    BY <1>2 DEF GenerateFinish, TypeOK, Statuses
  <2>2. asks' \subseteq [to : Providers, hash : Content]
    BY <1>2, RequestFields, SignRequestsType DEF GenerateFinish, TypeOK
  <2>3. row' \in [doc : Document, teeEnabled : BOOLEAN, signRequestsSent : BOOLEAN]
    BY <1>2 DEF GenerateFinish, TypeOK
  <2>4. req' \in [Requests -> Request] /\ served' \in Nat
    BY <1>2, EndType DEF GenerateFinish
  <2> QED
    BY <1>2, <2>1, <2>2, <2>3, <2>4 DEF GenerateFinish, history, TypeOK
<1>3. ASSUME NEW r \in Requests, NEW p \in Providers, SignLoad(r, p) PROVE TypeOK'
  <2> DEFINE s == [st |-> "signed", hash |-> row.doc.hash, key |-> key[p]]
  <2>1. s \in Signature /\ row.doc.hash \in Content
    BY RowFields, DocumentFields DEF Signature, TypeOK
  <2>2. [row.doc EXCEPT !.sig[p] = s] \in Document
    BY <2>1, RowFields, SignatureUpdate
  <2>3. Begin(r, "sign", "loaded", p, [row.doc EXCEPT !.sig[p] = s], {})
    BY <1>3 DEF SignLoad
  <2> HIDE DEF s
  <2>4. req' \in [Requests -> Request] /\ served' \in Nat
    BY <1>a, <2>2, <2>3, BeginType DEF Ops
  <2> QED
    BY <1>3, <2>1, <2>4 DEF SignLoad, TypeOK
<1>4. ASSUME NEW r \in Requests, SignFinish(r) PROVE TypeOK'
  <2>1. participants' \in [ContractIds -> [Providers -> Statuses]]
    BY <1>4, MarkParticipantsType DEF SignFinish, Statuses
  <2>2. req' \in [Requests -> Request] /\ served' \in Nat
    BY <1>4, EndType DEF SignFinish
  <2> QED
    BY <1>4, <2>1, <2>2 DEF SignFinish, history, TypeOK
<1>5. ASSUME NEW r \in Requests, NEW p \in Providers, WithdrawLoad(r, p) PROVE TypeOK'
  <2> DEFINE s == Withdrawn(row.doc.sig[p])
  <2>1. s \in Signature
    BY NoSignatureType DEF Withdrawn, Signature
  <2>2. [row.doc EXCEPT !.sig[p] = s] \in Document
    BY <2>1, RowFields, SignatureUpdate
  <2>3. Begin(r, "withdraw", "loaded", p, [row.doc EXCEPT !.sig[p] = s], {})
    BY <1>5 DEF WithdrawLoad
  <2> HIDE DEF s
  <2>4. req' \in [Requests -> Request] /\ served' \in Nat
    BY <1>a, <2>2, <2>3, BeginType DEF Ops
  <2> QED
    BY <1>5, <2>4 DEF WithdrawLoad, history, TypeOK
<1>6. ASSUME NEW r \in Requests, WithdrawFinish(r) PROVE TypeOK'
  <2>1. participants' \in [ContractIds -> [Providers -> Statuses]]
    BY <1>6, MarkParticipantsType DEF WithdrawFinish, Statuses
  <2>2. req' \in [Requests -> Request] /\ served' \in Nat
    BY <1>6, EndType DEF WithdrawFinish
  <2> QED
    BY <1>6, <2>1, <2>2 DEF WithdrawFinish, history, TypeOK
<1>7. ASSUME NEW r \in Requests, NEW p \in Providers, NEW u \in Expiries, ExpiryLoad(r, p, u)
      PROVE  TypeOK'
  <2> DEFINE d == WithConsentExpiry(row.doc, p, u)
             resigners == {q \in Providers : Signed(row.doc, q)}
  <2>1. d \in Document
    BY RowFields, WithConsentExpiryType, InputsAssumption
  <2>2. Begin(r, "expiry", "loaded", p, d, resigners)
    BY <1>7 DEF ExpiryLoad
  <2>3. resigners \in SUBSET Providers
    OBVIOUS
  <2> HIDE DEF d, resigners
  <2>4. req' \in [Requests -> Request] /\ served' \in Nat
    BY <2>1, <2>2, <2>3, BeginType DEF Ops
  <2> QED
    BY <1>7, <2>4 DEF ExpiryLoad, TypeOK
<1>8. ASSUME NEW r \in Requests, ExpiryFinish(r) PROVE TypeOK'
  <2>1. participants' \in [ContractIds -> [Providers -> Statuses]]
    BY <1>8, MarkParticipantsType DEF ExpiryFinish, Statuses
  <2>2. asks' \subseteq [to : Providers, hash : Content]
    BY <1>8, RequestFields, SignRequestsType DEF ExpiryFinish, TypeOK
  <2>3. req' \in [Requests -> Request] /\ served' \in Nat
    BY <1>8, EndType DEF ExpiryFinish
  <2> QED
    BY <1>8, <2>1, <2>2, <2>3 DEF ExpiryFinish, history, TypeOK
<1>9. ASSUME NEW r \in Requests, NEW e \in Edits, EditLoad(r, e) PROVE TypeOK'
  <2> DEFINE c == ApplyEdit(row.doc.content, e)
             d == AmendSign([row.doc EXCEPT !.content = c])
  <2>1. c \in Content
    BY RowFields, ApplyEditType
  <2>2. d \in Document
    BY <2>1, RowFields, AmendSignType
  <2>3. Begin(r, "edit", "loaded", Consumer, d, {}) /\ amended' = amended \cup {c}
    BY <1>9 DEF EditLoad
  <2> HIDE DEF c, d
  <2>4. req' \in [Requests -> Request] /\ served' \in Nat
    BY <1>a, <2>2, <2>3, BeginType DEF Ops
  <2> QED
    BY <1>9, <2>1, <2>3, <2>4 DEF EditLoad, TypeOK
<1>10. ASSUME NEW r \in Requests, Store(r) PROVE TypeOK'
  <2>1. req[r] \in Request /\ req[r].doc \in Document
    BY RequestFields
  <2>2. [req[r] EXCEPT !.phase = "stored"] \in Request
    BY <2>1 DEF Request
  <2>3. CASE StoreMatches(r)
    <3>1. row' \in [doc : Document, teeEnabled : BOOLEAN, signRequestsSent : BOOLEAN]
      BY <1>10, <2>1, <2>3 DEF Store, TypeOK
    <3>2. req' \in [Requests -> Request]
      BY <1>10, <2>2, <2>3, IdleType DEF Store, TypeOK
    <3>3. req[r].doc.content.expiry \in [Providers -> Nat]
      BY <2>1, DocumentFields, ContentFields
    <3>4. limit' \in [Providers -> Nat]
      BY <1>10, <2>3, <3>3 DEF Store, TypeOK
    <3>5. req[r].op = "withdraw" => req[r].who \in Providers
      BY <2>1 DEF Request
    <3>6. revoked' \subseteq Providers
      BY <1>10, <2>3, <3>5 DEF Store, TypeOK
    <3> QED
      BY <1>10, <2>3, <3>1, <3>2, <3>4, <3>6 DEF Store, TypeOK
  <2>4. CASE ~StoreMatches(r)
    <3>1. req' \in [Requests -> Request] /\ served' \in Nat
      BY <1>10, <2>4, EndType DEF Store
    <3> QED
      BY <1>10, <2>4, <3>1 DEF Store, TypeOK
  <2> QED
    BY <2>3, <2>4
<1>11. ASSUME NEW r \in Requests, RunGate(r) PROVE TypeOK'
  <2>1. req' \in [Requests -> Request] /\ served' \in Nat
    BY <1>11, <1>a, RowFields, BeginType DEF RunGate, Ops
  <2> QED
    BY <1>11, <2>1 DEF RunGate, history, TypeOK
<1>12. ASSUME NEW r \in Requests, RunStart(r) PROVE TypeOK'
  <2>1. participants' \in [ContractIds -> [Providers -> Statuses]]
    BY <1>12, MarkParticipantsType DEF RunStart, Statuses
  <2>2. req' \in [Requests -> Request] /\ served' \in Nat
    BY <1>12, EndType DEF RunStart
  <2>3. runs' \subseteq [hash : Content, content : Content]
    BY <1>12, RequestFields, DocumentFields DEF RunStart, TypeOK
  <2>4. row' \in [doc : Document, teeEnabled : BOOLEAN, signRequestsSent : BOOLEAN]
    BY <1>12 DEF RunStart, TypeOK
  <2> QED
    BY <1>12, <2>1, <2>2, <2>3, <2>4 DEF RunStart, TypeOK
<1>17. ASSUME NEW r \in Requests, RunLost(r) PROVE TypeOK'
  <2>1. req' \in [Requests -> Request] /\ served' \in Nat
    BY <1>17, EndType DEF RunLost
  <2>2. runs' \subseteq [hash : Content, content : Content]
    BY <1>17, RequestFields, DocumentFields DEF RunLost, TypeOK
  <2> QED
    BY <1>17, <2>1, <2>2 DEF RunLost, TypeOK
<1>13. ASSUME NEW r \in Requests, RunFail(r) \/ Abort(r) PROVE TypeOK'
  <2>1. req' \in [Requests -> Request] /\ served' \in Nat
    BY <1>13, EndType DEF RunFail, Abort
  <2> QED
    BY <1>13, <2>1 DEF RunFail, Abort, history, TypeOK
<1>14. ASSUME NEW p \in Providers, PutProviderKey(p) PROVE TypeOK'
  BY <1>14 DEF PutProviderKey, history, TypeOK
<1>15. CASE Tick
  BY <1>15 DEF Tick, history, TypeOK
<1>16. CASE UNCHANGED vars
  BY <1>16 DEF vars, history, TypeOK
<1> QED
  BY <1>1, <1>2, <1>3, <1>4, <1>5, <1>6, <1>7, <1>8, <1>9, <1>10, <1>11, <1>12,
     <1>13, <1>14, <1>15, <1>16, <1>17 DEF Next

\* Every reachable state of every handler, whatever the interleaving, is well
\* typed: documents keep their shape through regeneration, edits, expiries
\* and the unconditional overwrite.
THEOREM TypeCorrect == Spec => []TypeOK
<1>1. Init => TypeOK
  BY TypeOKInit
<1>2. TypeOK /\ [Next]_vars => TypeOK'
  BY TypeOKNext
<1> QED
  BY <1>1, <1>2, PTL DEF Spec

(***************************************************************************)
(* Consent                                                                 *)
(*                                                                         *)
(* RunsFullyConsented alone is not inductive: a run is created from the    *)
(* copy the gate saw, so the invariant must say what every copy of the     *)
(* document satisfies (GoodDocument) and that the gate's copy carries      *)
(* every provider's signature (GatePassed).  g and a are the history       *)
(* variables given and amended.                                            *)
(***************************************************************************)
GoodDocument(d, g, a) ==
    /\ \A p \in Providers : Signed(d, p) => d.sig[p].hash = d.hash /\ d.hash \in g[p]
    /\ d.gov = d.hash
    /\ d.content = d.hash \/ (d.content \in a /\ d.amend = d.content)
    /\ SameConsentTerms(d.content, d.hash)
    /\ \A p \in Providers :
         d.content.expiry[p] # 0 => d.content.expiry[p] <= d.content.requested

GatePassed == \A r \in Requests : req[r].op = "run" =>
                 \A p \in Providers : Signed(req[r].doc, p)

IInv ==
    /\ TypeOK
    /\ GoodDocument(row.doc, given, amended)
    /\ \A r \in Requests : GoodDocument(req[r].doc, given, amended)
    /\ GatePassed
    /\ RunsFullyConsented

\* Consents and amendments are never forgotten, so a good document stays good.
LEMMA GoodDocumentStays ==
    ASSUME NEW d, NEW g, NEW g2, NEW a, NEW a2,
           \A p \in Providers : g[p] \subseteq g2[p], a \subseteq a2,
           GoodDocument(d, g, a)
    PROVE  GoodDocument(d, g2, a2)
  BY DEF GoodDocument

LEMMA NoDocumentGood ==
    ASSUME NEW g, NEW a
    PROVE  GoodDocument(NoDocument, g, a)
  BY DEF GoodDocument, NoDocument, NoContent, NoSignature, Signed, SameConsentTerms

\* Only three kinds of step touch the consents, the amendments and the runs.
LEMMA HistorySteps ==
    ASSUME [Next]_vars
    PROVE  \/ UNCHANGED <<given, amended, runs>>
           \/ \E r \in Requests, p \in Providers : SignLoad(r, p)
           \/ \E r \in Requests, e \in Edits : EditLoad(r, e)
           \/ \E r \in Requests : RunStart(r) \/ RunLost(r)
<1>1. ASSUME NEW r \in Requests, NEW t \in Techniques, NEW x \in Texts, Generate(r, t, x)
      PROVE  UNCHANGED <<given, amended, runs>>
  BY <1>1 DEF Generate
<1>2. ASSUME NEW r \in Requests,
             \/ GenerateFinish(r) \/ SignFinish(r) \/ WithdrawFinish(r) \/ ExpiryFinish(r)
             \/ RunGate(r) \/ RunFail(r) \/ Abort(r)
      PROVE  UNCHANGED history
  BY <1>2, Zenon DEF GenerateFinish, SignFinish, WithdrawFinish, ExpiryFinish, RunGate, RunFail, Abort
<1>3. ASSUME NEW r \in Requests, NEW p \in Providers, WithdrawLoad(r, p)
      PROVE  UNCHANGED history
  BY <1>3, Zenon DEF WithdrawLoad
<1>4. ASSUME NEW r \in Requests, NEW p \in Providers, NEW u \in Expiries, ExpiryLoad(r, p, u)
      PROVE  UNCHANGED <<given, amended, runs>>
  BY <1>4 DEF ExpiryLoad
<1>5. ASSUME NEW r \in Requests, Store(r)
      PROVE  UNCHANGED <<given, amended, runs>>
  BY <1>5 DEF Store
<1>6. ASSUME (\E p \in Providers : PutProviderKey(p)) \/ Tick \/ UNCHANGED vars
      PROVE  UNCHANGED history
  BY <1>6 DEF PutProviderKey, Tick, vars
<1>7. UNCHANGED history => UNCHANGED <<given, amended, runs>>
  BY DEF history
<1> QED
  BY <1>1, <1>2, <1>3, <1>4, <1>5, <1>6, <1>7 DEF Next

\* The history variables only grow.
LEMMA HistoryGrows ==
    ASSUME TypeOK, [Next]_vars
    PROVE  /\ \A p \in Providers : given[p] \subseteq given'[p]
           /\ amended \subseteq amended'
<1>1. ASSUME NEW r \in Requests, NEW p \in Providers, SignLoad(r, p)
      PROVE  (\A q \in Providers : given[q] \subseteq given'[q]) /\ amended \subseteq amended'
  BY <1>1 DEF SignLoad, TypeOK
<1>2. ASSUME NEW r \in Requests, NEW e \in Edits, EditLoad(r, e)
      PROVE  given' = given /\ amended \subseteq amended'
  BY <1>2 DEF EditLoad
<1>3. ASSUME NEW r \in Requests, RunStart(r) \/ RunLost(r)
      PROVE  given' = given /\ amended' = amended
  BY <1>3 DEF RunStart, RunLost
<1> QED
  BY <1>1, <1>2, <1>3, HistorySteps

\* A step that begins a request with a good document keeps every request's
\* document good.
LEMMA BeginGood ==
    ASSUME TypeOK, GatePassed, NEW r \in Requests, NEW op, NEW phase, NEW who, NEW d, NEW rs,
           Begin(r, op, phase, who, d, rs),
           NEW g, NEW a,
           \A q \in Requests : GoodDocument(req[q].doc, g, a),
           GoodDocument(d, g, a),
           op = "run" => \A p \in Providers : Signed(d, p)
    PROVE  (\A q \in Requests : GoodDocument(req'[q].doc, g, a)) /\ GatePassed'
<1>1. /\ req'[r].doc = d /\ req'[r].op = op
      /\ \A q \in Requests : q # r => req'[q] = req[q]
  BY DEF TypeOK, Begin
<1> QED
  BY <1>1 DEF GatePassed, Signed

LEMMA EndGood ==
    ASSUME TypeOK, GatePassed, NEW r \in Requests, End(r), NEW g, NEW a,
           \A q \in Requests : GoodDocument(req[q].doc, g, a)
    PROVE  (\A q \in Requests : GoodDocument(req'[q].doc, g, a)) /\ GatePassed'
<1>1. /\ req'[r].doc = NoDocument /\ req'[r].op = "none"
      /\ \A q \in Requests : q # r => req'[q] = req[q]
  BY DEF TypeOK, End, Idle
<1> QED
  BY <1>1, NoDocumentGood DEF GatePassed, Signed

\* A consent expiry taken from a good document makes a good document: every
\* expiry on it lies within the requested end.
LEMMA WithConsentExpiryGood ==
    ASSUME NEW d \in Document, NEW p \in Providers, NEW u \in Nat, NEW g, NEW a,
           GoodDocument(d, g, a), u <= RequestedEnd(d.content)
    PROVE  GoodDocument(WithConsentExpiry(d, p, u), g, a)
<1> DEFINE e == WithConsentExpiry(d, p, u)
           c == d.content
<1>1. c \in Content
  BY DocumentFields
<1>2. /\ e.content.requested = RequestedEnd(c)
      /\ e.content.expiry = [c.expiry EXCEPT ![p] = u]
      /\ e.hash = e.content /\ e.gov = e.hash
      /\ \A q \in Providers : ~Signed(e, q)
  BY <1>1, ExpiryContentType, WithConsentExpiryType
<1>3. ASSUME NEW q \in Providers, e.content.expiry[q] # 0
      PROVE  e.content.expiry[q] <= e.content.requested
  <2>1. c.requested \in Nat /\ c.expiry \in [Providers -> Nat]
    BY <1>1, ContentFields
  <2>2. CASE q = p
    BY <1>2, <2>1, <2>2
  <2>3. CASE q # p
    <3>1. e.content.expiry[q] = c.expiry[q]
      BY <1>2, <2>1, <2>3
    <3>2. c.expiry[q] <= c.requested /\ c.requested # 0
      BY <1>3, <2>1, <3>1 DEF GoodDocument
    <3> QED
      BY <1>2, <3>1, <3>2 DEF RequestedEnd
  <2> QED
    BY <2>2, <2>3
<1> HIDE DEF e
<1> QED
  BY <1>2, <1>3 DEF e, GoodDocument, SameConsentTerms

LEMMA IInvInit == Init => IInv
<1> SUFFICES ASSUME Init PROVE IInv
  OBVIOUS
<1>1. GoodDocument(row.doc, given, amended)
  BY NoDocumentGood DEF Init
<1>2. ASSUME NEW r \in Requests
      PROVE  GoodDocument(req[r].doc, given, amended) /\ req[r].op # "run"
  BY NoDocumentGood DEF Init, Idle
<1> QED
  BY TypeOKInit, <1>1, <1>2 DEF Init, IInv, GatePassed, RunsFullyConsented

LEMMA IInvNext == IInv /\ [Next]_vars => IInv'
<1> SUFFICES ASSUME IInv, [Next]_vars PROVE IInv'
  OBVIOUS
<1> DEFINE Good(d) == GoodDocument(d, given', amended')
<1>a. TypeOK /\ GatePassed /\ RunsFullyConsented
  BY DEF IInv
<1>b. TypeOK'
  BY <1>a, TypeOKNext
<1>c. Good(row.doc) /\ \A r \in Requests : Good(req[r].doc)
  BY <1>a, HistoryGrows, GoodDocumentStays DEF IInv
<1>d. RunsFullyConsented'
  <2>1. ASSUME NEW x \in runs
        PROVE  /\ \A p \in Providers : x.hash \in given'[p]
               /\ SameConsentTerms(x.content, x.hash)
               /\ x.content = x.hash \/ x.content \in amended'
    BY <1>a, HistoryGrows DEF RunsFullyConsented
  <2>2. ASSUME NEW r \in Requests, RunStart(r) \/ RunLost(r) PROVE RunsFullyConsented'
    <3> DEFINE d == req[r].doc
    <3>1. runs' = runs \cup {[hash |-> d.hash, content |-> d.content]}
      BY <2>2 DEF RunStart, RunLost
    <3>2. \A p \in Providers : Signed(d, p)
      BY <1>a, <2>2 DEF RunStart, RunLost, At, GatePassed
    <3>3. /\ \A p \in Providers : d.hash \in given'[p]
          /\ SameConsentTerms(d.content, d.hash)
          /\ d.content = d.hash \/ d.content \in amended'
      BY <1>c, <3>2 DEF GoodDocument
    <3> QED
      BY <2>1, <3>1, <3>3 DEF RunsFullyConsented, SameConsentTerms
  <2>3. ASSUME runs' = runs PROVE RunsFullyConsented'
    BY <2>1, <2>3 DEF RunsFullyConsented, SameConsentTerms
  <2>4. ASSUME NEW r \in Requests, NEW p \in Providers, SignLoad(r, p) PROVE runs' = runs
    BY <2>4 DEF SignLoad
  <2>5. ASSUME NEW r \in Requests, NEW e \in Edits, EditLoad(r, e) PROVE runs' = runs
    BY <2>5 DEF EditLoad
  <2> QED
    BY <2>2, <2>3, <2>4, <2>5, HistorySteps
<1> DEFINE Goal == Good(row'.doc) /\ (\A r \in Requests : Good(req'[r].doc)) /\ GatePassed'
<1> SUFFICES Goal
  BY <1>b, <1>d DEF IInv
<1> HIDE DEF Good
<1>e. ASSUME NEW r \in Requests, NEW op, op # "run", NEW phase, NEW who, NEW d, NEW rs,
             Begin(r, op, phase, who, d, rs), Good(d), row'.doc = row.doc \/ row'.doc = d
      PROVE  Goal
  BY <1>a, <1>c, <1>e, BeginGood DEF Good
<1>f. ASSUME NEW r \in Requests, End(r), row'.doc = row.doc PROVE Goal
  BY <1>a, <1>c, <1>f, EndGood DEF Good
<1>1. ASSUME NEW r \in Requests, NEW t \in Techniques, NEW x \in Texts, Generate(r, t, x)
      PROVE  Goal
  <2> DEFINE cid == row.doc.content.cid + 1
             d == GeneratedDocument(cid, t, x)
  <2>1. cid \in Nat /\ now \in Nat
    BY <1>a, RowFields DEF TypeOK
  <2>2. /\ d.hash = d.content /\ d.gov = d.hash /\ d.sig = NoDocument.sig
        /\ \A p \in Providers : d.content.expiry[p] = 0
    BY <2>1, GeneratedDocumentType
  <2>3. row' = StoreGeneratedContract(d) /\ Begin(r, "generate", "stored", Consumer, d, {})
    BY <1>1 DEF Generate
  <2> HIDE DEF d
  <2>4. Good(d)
    BY <2>2 DEF Good, GoodDocument, SameConsentTerms, Signed, NoDocument, NoSignature
  <2> QED
    BY <1>e, <2>3, <2>4 DEF StoreGeneratedContract
<1>2. ASSUME NEW r \in Requests, NEW p \in Providers, SignLoad(r, p) PROVE Goal
  <2> DEFINE s == [st |-> "signed", hash |-> row.doc.hash, key |-> key[p]]
             d == [row.doc EXCEPT !.sig[p] = s]
  <2>1. s \in Signature /\ row.doc \in Document
    BY <1>a, RowFields, DocumentFields DEF Signature, TypeOK
  <2> HIDE DEF s
  <2>2. /\ d.content = row.doc.content /\ d.hash = row.doc.hash
        /\ d.gov = row.doc.gov /\ d.amend = row.doc.amend /\ d.sig[p] = s
        /\ \A q \in Providers : q # p => d.sig[q] = row.doc.sig[q]
    BY <2>1 DEF Document
  <2>3. row.doc.hash \in given'[p]
    BY <1>2, <1>a DEF SignLoad, TypeOK
  <2>4. Begin(r, "sign", "loaded", p, d, {}) /\ row' = row
    BY <1>2 DEF SignLoad, s
  <2>5. s.hash = row.doc.hash
    BY DEF s
  <2> HIDE DEF d
  <2>6. Good(d)
    BY <1>c, <2>2, <2>3, <2>5 DEF Good, GoodDocument, SameConsentTerms, Signed
  <2> QED
    BY <1>e, <2>4, <2>6
<1>3. ASSUME NEW r \in Requests, NEW p \in Providers, WithdrawLoad(r, p) PROVE Goal
  <2> DEFINE s == Withdrawn(row.doc.sig[p])
             d == [row.doc EXCEPT !.sig[p] = s]
  <2>1. s \in Signature /\ s.st = "withdrawn" /\ row.doc \in Document
    BY <1>a, RowFields, NoSignatureType DEF Withdrawn, Signature
  <2> HIDE DEF s
  <2>2. /\ d.content = row.doc.content /\ d.hash = row.doc.hash
        /\ d.gov = row.doc.gov /\ d.amend = row.doc.amend /\ d.sig[p] = s
        /\ \A q \in Providers : q # p => d.sig[q] = row.doc.sig[q]
    BY <2>1 DEF Document
  <2>3. Begin(r, "withdraw", "loaded", p, d, {}) /\ row' = row
    BY <1>3 DEF WithdrawLoad, s
  <2> HIDE DEF d
  <2>4. Good(d)
    BY <1>c, <2>1, <2>2 DEF Good, GoodDocument, SameConsentTerms, Signed
  <2> QED
    BY <1>e, <2>3, <2>4
<1>4. ASSUME NEW r \in Requests, NEW p \in Providers, NEW u \in Expiries, ExpiryLoad(r, p, u)
      PROVE  Goal
  <2> DEFINE d == WithConsentExpiry(row.doc, p, u)
             resigners == {q \in Providers : Signed(row.doc, q)}
  <2>1. row.doc \in Document /\ u \in Nat /\ u <= RequestedEnd(row.doc.content)
    BY <1>4, <1>a, RowFields, InputsAssumption DEF ExpiryLoad
  <2>2. Good(d)
    BY <1>c, <2>1, WithConsentExpiryGood DEF Good
  <2>3. Begin(r, "expiry", "loaded", p, d, resigners) /\ row' = row
    BY <1>4 DEF ExpiryLoad
  <2> HIDE DEF d, resigners
  <2> QED
    BY <1>e, <2>2, <2>3
<1>5. ASSUME NEW r \in Requests, NEW e \in Edits, EditLoad(r, e) PROVE Goal
  <2> DEFINE c == ApplyEdit(row.doc.content, e)
             d == AmendSign([row.doc EXCEPT !.content = c])
  <2>1. /\ c \in Content /\ SameConsentTerms(c, row.doc.content)
        /\ row.doc \in Document
    BY <1>a, RowFields, ApplyEditType
  <2>2. /\ d.content = c /\ d.amend = c
        /\ d.hash = row.doc.hash /\ d.gov = row.doc.gov /\ d.sig = row.doc.sig
    BY <2>1, AmendSignType
  <2>3. c \in amended'
    BY <1>5 DEF EditLoad
  <2>4. Begin(r, "edit", "loaded", Consumer, d, {}) /\ row' = row
    BY <1>5 DEF EditLoad
  <2> HIDE DEF c, d
  <2>5. Good(d)
    BY <1>c, <2>1, <2>2, <2>3 DEF Good, GoodDocument, SameConsentTerms, Signed
  <2> QED
    BY <1>e, <2>4, <2>5
<1>6. ASSUME NEW r \in Requests, Store(r) PROVE Goal
  <2>1. req[r].op # "run"
    BY <1>6 DEF Store
  <2>2. CASE StoreMatches(r)
    <3>1. row'.doc = req[r].doc
      BY <1>6, <1>a, <2>2 DEF Store, TypeOK
    <3>2. /\ \A q \in Requests : q # r => req'[q] = req[q]
          /\ req'[r] = Idle \/ req'[r] = [req[r] EXCEPT !.phase = "stored"]
      BY <1>6, <1>a, <2>2 DEF Store, TypeOK
    <3>3. \/ req'[r].doc = NoDocument /\ req'[r].op = "none"
          \/ req'[r].doc = req[r].doc /\ req'[r].op = req[r].op
      BY <1>a, <3>2, RequestFields DEF Idle, Request
    <3> QED
      BY <1>a, <1>c, <2>1, <3>1, <3>2, <3>3, NoDocumentGood DEF Good, GatePassed, Signed
  <2>3. CASE ~StoreMatches(r)
    BY <1>6, <1>f, <2>3 DEF Store
  <2> QED
    BY <2>2, <2>3
<1>7. ASSUME NEW r \in Requests, RunGate(r) PROVE Goal
  <2>1. \A p \in Providers : Signed(row.doc, p)
    BY <1>7 DEF RunGate, RequireAllProvidersSigned, VerifyContractSignatures,
       ProviderSignatureValid
  <2>2. Begin(r, "run", "loaded", Consumer, row.doc, {}) /\ row' = row
    BY <1>7 DEF RunGate
  <2> QED
    BY <1>a, <1>c, <2>1, <2>2, BeginGood DEF Good
<1>8. ASSUME NEW r \in Requests,
             GenerateFinish(r) \/ SignFinish(r) \/ WithdrawFinish(r) \/ ExpiryFinish(r)
      PROVE  Goal
  <2>1. End(r)
    BY <1>8, Zenon DEF GenerateFinish, SignFinish, WithdrawFinish, ExpiryFinish
  <2>2. GenerateFinish(r) => row'.doc = row.doc
    BY <1>a DEF GenerateFinish, TypeOK
  <2>3. SignFinish(r) \/ WithdrawFinish(r) \/ ExpiryFinish(r) => row' = row
    BY Zenon DEF SignFinish, WithdrawFinish, ExpiryFinish
  <2> QED
    BY <1>8, <1>f, <2>1, <2>2, <2>3
<1>9. ASSUME NEW r \in Requests, RunStart(r) \/ RunLost(r) \/ RunFail(r) \/ Abort(r) PROVE Goal
  <2>1. End(r)
    BY <1>9, Zenon DEF RunStart, RunLost, RunFail, Abort
  <2>2. RunStart(r) => row'.doc = row.doc
    BY <1>a DEF RunStart, TypeOK
  <2>3. RunLost(r) \/ RunFail(r) \/ Abort(r) => row' = row
    BY Zenon DEF RunLost, RunFail, Abort
  <2> QED
    BY <1>9, <1>f, <2>1, <2>2, <2>3
<1>10. ASSUME (\E p \in Providers : PutProviderKey(p)) \/ Tick \/ UNCHANGED vars PROVE Goal
  <2>1. row' = row /\ req' = req
    BY <1>10 DEF PutProviderKey, Tick, vars
  <2> QED
    BY <1>a, <1>c, <2>1 DEF GatePassed, Signed
<1> HIDE DEF Goal
<1> QED
  BY <1>1, <1>2, <1>3, <1>4, <1>5, <1>6, <1>7, <1>8, <1>9, <1>10 DEF Next

LEMMA IInvInductive == Spec => []IInv
<1>1. Init => IInv
  BY IInvInit
<1>2. IInv /\ [Next]_vars => IInv'
  BY IInvNext
<1> QED
  BY <1>1, <1>2, PTL DEF Spec

\* However many requests overlap: no run is created on a contract hash some
\* data provider has not signed, nor with consent terms other than the signed
\* ones (runTEEJob, requireAllProvidersSigned).
THEOREM Consented == Spec => []RunsFullyConsented
<1>1. IInv => RunsFullyConsented
  BY DEF IInv
<1> QED
  BY <1>1, IInvInductive, PTL

\* No lost update, regeneration, edit or expiry moves a provider's signature
\* under a contract hash it does not cover.
THEOREM SignaturesStay == Spec => []SignaturesCoverHash
<1>1. IInv => SignaturesCoverHash
  BY DEF IInv, SignaturesCoverHash, Documents, GoodDocument
<1> QED
  BY <1>1, IInvInductive, PTL

\* Every document a request reads or writes is the governance-signed content
\* or an accepted edit of it.
THEOREM ContentStays == Spec => []ContentAccountedFor
<1>1. IInv => ContentAccountedFor
  BY DEF IInv, ContentAccountedFor, Documents, GoodDocument
<1> QED
  BY <1>1, IInvInductive, PTL

\* No order of expiries and edits lets a provider's consent outlast the end
\* the contract was requested with (handleSetConsentExpiry).
THEOREM ExpiryStays == Spec => []ExpiryWithinRequestedEnd
<1>1. IInv => ExpiryWithinRequestedEnd
  BY DEF IInv, ExpiryWithinRequestedEnd, Documents, GoodDocument
<1> QED
  BY <1>1, IInvInductive, PTL

(***************************************************************************)
(* Refinement of ConsentLedger                                             *)
(***************************************************************************)
LEMMA LedgerInit == Init => Ledger!Init
  BY DEF Init, Ledger!Init

LEMMA LedgerNext == IInv /\ [Next]_vars => [Ledger!Next]_(Ledger!vars)
<1> SUFFICES ASSUME IInv, [Next]_vars PROVE [Ledger!Next]_(Ledger!vars)
  OBVIOUS
<1> DEFINE hashes == {x.hash : x \in runs}
<1>1. ASSUME UNCHANGED <<given, amended, runs>> PROVE UNCHANGED Ledger!vars
  BY <1>1 DEF Ledger!vars
<1>2. ASSUME NEW r \in Requests, NEW p \in Providers, SignLoad(r, p)
      PROVE  Ledger!Consent(p)
  <2>1. given' = [given EXCEPT ![p] = @ \cup {row.doc.hash}] /\ runs' = runs
    BY <1>2 DEF SignLoad
  <2>2. row.doc.hash \in given'[p]
    BY <2>1 DEF IInv, TypeOK
  <2> QED
    BY <2>1, <2>2 DEF Ledger!Consent
<1>3. ASSUME NEW r \in Requests, NEW e \in Edits, EditLoad(r, e)
      PROVE  UNCHANGED Ledger!vars
  BY <1>3 DEF EditLoad, Ledger!vars
<1>4. ASSUME NEW r \in Requests, RunStart(r) \/ RunLost(r)
      PROVE  Ledger!Run
  <2> DEFINE h == req[r].doc.hash
  <2>1. runs' = runs \cup {[hash |-> h, content |-> req[r].doc.content]} /\ given' = given
    BY <1>4 DEF RunStart, RunLost
  <2>2. {x.hash : x \in runs'} = hashes \cup {h}
    <3> DEFINE new == [hash |-> h, content |-> req[r].doc.content]
    <3>1. new.hash = h /\ runs' = runs \cup {new}
      BY <2>1
    <3> HIDE DEF new, h
    <3> QED
      BY <3>1
  <2>3. \A p \in Providers : Signed(req[r].doc, p)
    BY <1>4 DEF RunStart, RunLost, At, IInv, GatePassed
  <2>4. \A p \in Providers : h \in given[p]
    BY <2>3 DEF IInv, GoodDocument
  <2> QED
    BY <2>1, <2>2, <2>4 DEF Ledger!Run
<1> QED
  BY <1>1, <1>2, <1>3, <1>4, HistorySteps DEF Ledger!Next

\* The signing endpoints, the edits, the expiries, the withdrawals and the run
\* gate together implement the promise of ConsentLedger.
THEOREM Refinement == Spec => ImplementsLedger
<1>1. Init => Ledger!Init
  BY LedgerInit
<1>2. IInv /\ [Next]_vars => [Ledger!Next]_(Ledger!vars)
  BY LedgerNext
<1> QED
  BY <1>1, <1>2, IInvInductive, PTL DEF Spec, ImplementsLedger, Ledger!Spec

(***************************************************************************)
(* Regeneration                                                            *)
(***************************************************************************)
\* How a step may change the row: regenerate it, overwrite the document of
\* the same contract, or leave the document alone.
LEMMA RowSteps ==
    ASSUME TypeOK, [Next]_vars
    PROVE  \/ /\ row'.doc.content.cid = row.doc.content.cid + 1
              /\ row'.teeEnabled = FALSE
              /\ runs' = runs
           \/ /\ row'.doc.content.cid = row.doc.content.cid
              /\ row'.teeEnabled = row.teeEnabled
              /\ runs \subseteq runs'
           \/ /\ row'.doc.content.cid = row.doc.content.cid
              /\ \E x \in runs' : x.content.cid = row.doc.content.cid
<1>1. ASSUME NEW r \in Requests, NEW t \in Techniques, NEW x \in Texts, Generate(r, t, x)
      PROVE  /\ row'.doc.content.cid = row.doc.content.cid + 1
             /\ row'.teeEnabled = FALSE /\ runs' = runs
  <2> DEFINE cid == row.doc.content.cid + 1
             d == GeneratedDocument(cid, t, x)
  <2>1. cid \in Nat /\ now \in Nat
    BY RowFields DEF TypeOK
  <2>2. d.content.cid = cid
    BY <2>1, GeneratedDocumentType
  <2>3. row' = StoreGeneratedContract(d) /\ runs' = runs
    BY <1>1 DEF Generate
  <2> HIDE DEF d
  <2> QED
    BY <2>2, <2>3 DEF StoreGeneratedContract
<1> DEFINE Same == /\ row'.doc.content.cid = row.doc.content.cid
                   /\ row'.teeEnabled = row.teeEnabled
                   /\ runs \subseteq runs'
<1>2. ASSUME NEW r \in Requests, GenerateFinish(r) PROVE Same
  <2>1. row'.doc = row.doc /\ row'.teeEnabled = row.teeEnabled
    BY <1>2 DEF GenerateFinish, TypeOK
  <2>2. runs' = runs
    BY <1>2, Zenon DEF GenerateFinish, history
  <2> QED
    BY <2>1, <2>2
<1>3. ASSUME NEW r \in Requests, Store(r) PROVE Same
  <2>1. runs' = runs
    BY <1>3 DEF Store
  <2>2. CASE StoreMatches(r)
    <3>1. row' = [row EXCEPT !.doc = req[r].doc]
      BY <1>3, <2>2 DEF Store
    <3>2. row'.doc = req[r].doc /\ row'.teeEnabled = row.teeEnabled
      BY <3>1 DEF TypeOK
    <3> QED
      BY <2>1, <2>2, <3>2 DEF StoreMatches, Cid
  <2>3. CASE ~StoreMatches(r)
    BY <1>3, <2>1, <2>3 DEF Store
  <2> QED
    BY <2>2, <2>3
<1>4. ASSUME NEW r \in Requests, RunStart(r)
      PROVE  Same \/ /\ row'.doc.content.cid = row.doc.content.cid
                     /\ \E x \in runs' : x.content.cid = row.doc.content.cid
  <2>1. row'.doc = row.doc
    BY <1>4 DEF RunStart, TypeOK
  <2>2. /\ runs \subseteq runs'
        /\ [hash |-> req[r].doc.hash, content |-> req[r].doc.content] \in runs'
    BY <1>4 DEF RunStart
  <2>3. CASE row.doc.content.cid = Cid(r)
    BY <2>1, <2>2, <2>3 DEF Cid
  <2>4. CASE row.doc.content.cid # Cid(r)
    <3>1. row'.teeEnabled = row.teeEnabled
      BY <1>4, <2>4 DEF RunStart, TypeOK
    <3> QED
      BY <2>1, <2>2, <3>1
  <2> QED
    BY <2>3, <2>4
<1>5. ASSUME row' = row, runs' = runs PROVE Same
  BY <1>5
<1>10. ASSUME NEW r \in Requests, RunLost(r) PROVE Same
  BY <1>10 DEF RunLost
<1>6. ASSUME NEW r \in Requests,
             \/ SignFinish(r) \/ WithdrawFinish(r) \/ ExpiryFinish(r)
             \/ RunGate(r) \/ RunFail(r) \/ Abort(r)
             \/ \E p \in Providers : WithdrawLoad(r, p)
      PROVE  row' = row /\ runs' = runs
  BY <1>6, Zenon DEF SignFinish, WithdrawFinish, ExpiryFinish, RunGate, RunFail, Abort,
     WithdrawLoad, history
<1>7. ASSUME NEW r \in Requests,
             \/ \E p \in Providers : SignLoad(r, p)
             \/ \E p \in Providers, u \in Expiries : ExpiryLoad(r, p, u)
             \/ \E e \in Edits : EditLoad(r, e)
      PROVE  row' = row /\ runs' = runs
  BY <1>7 DEF SignLoad, ExpiryLoad, EditLoad
<1>8. ASSUME (\E p \in Providers : PutProviderKey(p)) \/ Tick \/ UNCHANGED vars
      PROVE  row' = row /\ runs' = runs
  BY <1>8 DEF PutProviderKey, Tick, vars, history
<1> HIDE DEF Same
<1>9. Same => /\ row'.doc.content.cid = row.doc.content.cid
              /\ row'.teeEnabled = row.teeEnabled
              /\ runs \subseteq runs'
  BY DEF Same
<1> QED
  BY <1>1, <1>2, <1>3, <1>4, <1>5, <1>6, <1>7, <1>8, <1>9, <1>10 DEF Next

\* A request that began before a regeneration never brings the replaced
\* contract back (UpdateContractByContractID matches on contract_id).
THEOREM Regenerated == Spec => RegeneratedStaysRegenerated
<1>1. TypeOK /\ [Next]_vars => [row'.doc.content.cid >= row.doc.content.cid]_row
  <2> SUFFICES ASSUME TypeOK, [Next]_vars
               PROVE  row'.doc.content.cid >= row.doc.content.cid
    OBVIOUS
  <2>1. row.doc.content.cid \in Nat
    BY RowFields
  <2>2. \/ row'.doc.content.cid = row.doc.content.cid + 1
        \/ row'.doc.content.cid = row.doc.content.cid
    BY RowSteps
  <2> QED
    BY <2>1, <2>2
<1> QED
  BY <1>1, TypeCorrect, PTL DEF Spec, RegeneratedStaysRegenerated

\* tee_enabled_at marks a row only when a run of that very contract was
\* created, also when the run overlaps a regeneration.
THEOREM EnabledMeansRun == Spec => []TEEEnabledMeansRun
<1>1. Init => TEEEnabledMeansRun
  BY DEF Init, TEEEnabledMeansRun
<1>2. TypeOK /\ TEEEnabledMeansRun /\ [Next]_vars => TEEEnabledMeansRun'
  BY RowSteps DEF TEEEnabledMeansRun
<1> QED
  BY <1>1, <1>2, TypeCorrect, PTL DEF Spec

(***************************************************************************)
(* Requests that run one at a time                                         *)
(***************************************************************************)
OneSlot == \E r : Requests = {r}

\* What the request's copy says of a signature, given what the row said.
TakenState(q, p, st) ==
    CASE q.op \in {"sign", "withdraw"} /\ p = q.who ->
            IF q.op = "sign" THEN "signed" ELSE "withdrawn"
      [] q.op = "expiry" /\ st = "signed" -> "none"
      [] OTHER -> st

\* The copy is of the contract in the row: what the handler does not mean to
\* change is as it is there, and once written it is the row's document.
Copy(q, d) ==
    /\ (q.phase # "idle" \/ d # NoDocument) => d.content.cid \in ContractIds
    /\ q.phase # "idle" => q.doc.content.cid = d.content.cid
    /\ q.op = "generate" => q.phase = "stored" /\ \A p \in Providers : q.doc.sig[p].st = "none"
    /\ q.op = "sign" => q.doc.sig[q.who].st = "signed"
    /\ q.op = "withdraw" => q.doc.sig[q.who].st = "withdrawn"
    /\ q.op = "expiry" => \A p \in q.resigners : q.doc.sig[p].st = "none"
    /\ q.phase = "loaded" =>
          /\ \A p \in Providers : q.doc.sig[p].st = TakenState(q, p, d.sig[p].st)
          /\ q.op # "expiry" => q.doc.hash = d.hash
          /\ \A p \in Providers : (q.op = "expiry" /\ p = q.who)
                                    \/ q.doc.content.expiry[p] = d.content.expiry[p]
          /\ q.op = "expiry" => \A p \in Providers : d.sig[p].st = "signed" => p \in q.resigners
          /\ q.op = "run" => \A p \in Providers : d.sig[p].st = "signed"
    /\ q.phase = "stored" => q.doc = d /\ q.op \in {"generate", "sign", "withdraw", "expiry"}

CopyInv == \A r \in Requests : Copy(req[r], row.doc)

\* A confirmed withdrawal or expiry is in the row.
Confirmed(d, rev, lim) ==
    /\ \A p \in rev : d.sig[p].st # "signed"
    /\ \A p \in Providers : d.content.expiry[p] = lim[p]

ConfirmedInv == Confirmed(row.doc, revoked, limit)

\* The participant rows a stored request has still to write.
Unmarked(q, p) ==
    /\ q.phase = "stored"
    /\ \/ q.op = "generate"
       \/ q.op \in {"sign", "withdraw"} /\ p = q.who
       \/ q.op = "expiry" /\ p \in q.resigners

Shown(st) == CASE st = "none"      -> {"requested"}
               [] st = "signed"    -> {"signed", "tee_enabled"}
               [] st = "withdrawn" -> {"withdrawn"}

Page(q, d, parts) ==
    d.content.cid \in ContractIds => \A p \in Identified :
        /\ Unmarked(q, p) \/ parts[d.content.cid][p] \in Shown(d.sig[p].st)
        /\ (q.phase = "stored" /\ q.op = "generate") \/ parts[d.content.cid][p] # "absent"

AskedOf(q, d, as, sent) ==
    /\ d.content.cid \in ContractIds => \A p \in Identified :
          d.sig[p].st = "none" =>
             \/ q.phase = "stored" /\ q.op \in {"generate", "expiry"}
             \/ [to |-> p, hash |-> d.hash] \in as
    /\ (q.phase = "stored" /\ q.op = "generate") => ~sent

PageInv ==
    \A r \in Requests :
        /\ Page(req[r], row.doc, participants)
        /\ AskedOf(req[r], row.doc, asks, row.signRequestsSent)

LEMMA IdentifiedIn == Identified \subseteq Providers
  BY ProvidersAssumption

LEMMA IdleRequest ==
    /\ Idle \in Request /\ Idle.phase = "idle" /\ Idle.op = "none" /\ Idle.doc = NoDocument
  BY IdleType DEF Idle

LEMMA SoloFrame ==
    ASSUME OneSlot, NEW r \in Requests, Copy(req'[r], row'.doc),
           Confirmed(row'.doc, revoked', limit')
    PROVE  CopyInv' /\ ConfirmedInv'
  BY DEF OneSlot, CopyInv, ConfirmedInv

LEMMA PageFrame ==
    ASSUME OneSlot, NEW r \in Requests, Page(req'[r], row'.doc, participants'),
           AskedOf(req'[r], row'.doc, asks', row'.signRequestsSent)
    PROVE  PageInv'
  BY DEF OneSlot, PageInv

\* A request takes its copy of a contract that exists.
LEMMA Taken ==
    ASSUME TypeOK, OneSlot, CopyInv, ConfirmedInv, NEW r \in Requests,
           NEW op \in {"sign", "withdraw", "expiry", "edit", "run"},
           NEW who \in Providers \cup {Consumer}, NEW d \in Document, NEW rs \in SUBSET Providers,
           Begin(r, op, "loaded", who, d, rs), UNCHANGED <<row, revoked, limit, participants, asks>>,
           row.doc # NoDocument, d.content.cid = row.doc.content.cid,
           op # "expiry" => d.hash = row.doc.hash,
           op \in {"sign", "withdraw", "expiry"} => who \in Providers,
           \A p \in Providers : (op = "expiry" /\ p = who)
                                  \/ d.content.expiry[p] = row.doc.content.expiry[p],
           \A p \in Providers : d.sig[p].st =
               CASE op \in {"sign", "withdraw"} /\ p = who -> IF op = "sign" THEN "signed" ELSE "withdrawn"
                 [] op = "expiry" /\ row.doc.sig[p].st = "signed" -> "none"
                 [] OTHER -> row.doc.sig[p].st,
           op = "expiry" => rs = {p \in Providers : row.doc.sig[p].st = "signed"},
           op = "run" => \A p \in Providers : row.doc.sig[p].st = "signed"
    PROVE  /\ CopyInv' /\ ConfirmedInv'
           /\ PageInv => PageInv'
<1> DEFINE q == [phase |-> "loaded", op |-> op, who |-> who, doc |-> d, resigners |-> rs]
<1>1. req[r] = Idle /\ req' = [req EXCEPT ![r] = q]
  BY DEF Begin
<1>2. q.phase = "loaded" /\ q.op = op /\ q.who = who /\ q.doc = d /\ q.resigners = rs
  OBVIOUS
<1> HIDE DEF q
<1>3. req'[r] = q
  BY <1>1 DEF TypeOK
<1>4. row.doc.content.cid \in ContractIds
  BY DEF CopyInv, Copy
<1>5. \A p \in Providers : d.sig[p].st = TakenState(q, p, row.doc.sig[p].st)
  BY <1>2 DEF TakenState
<1>6. Copy(q, row.doc)
  <2>1. op = "sign" => d.sig[who].st = "signed"
    OBVIOUS
  <2>2. op = "withdraw" => d.sig[who].st = "withdrawn"
    OBVIOUS
  <2>3. op = "expiry" => \A p \in rs : d.sig[p].st = "none"
    OBVIOUS
  <2>4. op = "expiry" => \A p \in Providers : row.doc.sig[p].st = "signed" => p \in rs
    OBVIOUS
  <2> QED
    BY <1>2, <1>4, <1>5, <2>1, <2>2, <2>3, <2>4 DEF Copy
<1>7. CopyInv' /\ ConfirmedInv'
  BY <1>3, <1>6, SoloFrame DEF ConfirmedInv
<1>8. ASSUME PageInv PROVE PageInv'
  <2>1. /\ Page(Idle, row.doc, participants)
        /\ AskedOf(Idle, row.doc, asks, row.signRequestsSent)
    BY <1>1, <1>8 DEF PageInv
  <2>2. /\ Page(q, row.doc, participants)
        /\ AskedOf(q, row.doc, asks, row.signRequestsSent)
    BY <1>2, <2>1, IdleRequest DEF Page, AskedOf, Unmarked
  <2> QED
    BY <1>3, <2>2, PageFrame
<1> QED
  BY <1>7, <1>8

LEMMA NoDocumentFacts ==
    /\ NoDocument.content.technique = ""
    /\ \A p \in Providers : NoDocument.sig[p].st = "none" /\ NoDocument.content.expiry[p] = 0
  BY NoDocumentType DEF NoDocument, NoContent, NoSignature

LEMMA SignTaken ==
    ASSUME TypeOK, OneSlot, CopyInv, ConfirmedInv, NEW r \in Requests, NEW p \in Providers,
           SignLoad(r, p)
    PROVE  /\ CopyInv' /\ ConfirmedInv'
           /\ PageInv => PageInv'
<1> DEFINE s == [st |-> "signed", hash |-> row.doc.hash, key |-> key[p]]
           d == [row.doc EXCEPT !.sig[p] = s]
<1>1. s \in Signature /\ s.st = "signed" /\ row.doc \in Document
  BY RowFields, DocumentFields DEF Signature, TypeOK
<1> HIDE DEF s
<1>2. /\ d \in Document /\ d.content = row.doc.content /\ d.hash = row.doc.hash
      /\ d.sig[p] = s /\ \A x \in Providers : x # p => d.sig[x] = row.doc.sig[x]
  BY <1>1, SignatureUpdate
<1>3. /\ Begin(r, "sign", "loaded", p, d, {}) /\ row.doc # NoDocument
      /\ UNCHANGED <<row, revoked, limit, participants, asks>>
  BY DEF SignLoad, s
<1> HIDE DEF d
<1> QED
  BY <1>1, <1>2, <1>3, Taken

LEMMA WithdrawTaken ==
    ASSUME TypeOK, OneSlot, CopyInv, ConfirmedInv, NEW r \in Requests, NEW p \in Providers,
           WithdrawLoad(r, p)
    PROVE  /\ CopyInv' /\ ConfirmedInv'
           /\ PageInv => PageInv'
<1> DEFINE s == Withdrawn(row.doc.sig[p])
           d == [row.doc EXCEPT !.sig[p] = s]
<1>1. s \in Signature /\ s.st = "withdrawn" /\ row.doc \in Document
  BY RowFields, NoSignatureType DEF Withdrawn, Signature, NoSignature
<1>3. /\ Begin(r, "withdraw", "loaded", p, d, {}) /\ row.doc # NoDocument
      /\ UNCHANGED <<row, revoked, limit, participants, asks>>
  BY NoDocumentFacts DEF WithdrawLoad, Withdrawn, history, Signed
<1> HIDE DEF s
<1>2. /\ d \in Document /\ d.content = row.doc.content /\ d.hash = row.doc.hash
      /\ d.sig[p] = s /\ \A x \in Providers : x # p => d.sig[x] = row.doc.sig[x]
  BY <1>1, SignatureUpdate
<1> HIDE DEF d
<1> QED
  BY <1>1, <1>2, <1>3, Taken

LEMMA ExpiryTaken ==
    ASSUME TypeOK, OneSlot, CopyInv, ConfirmedInv, NEW r \in Requests, NEW p \in Providers,
           NEW u \in Expiries, ExpiryLoad(r, p, u)
    PROVE  /\ CopyInv' /\ ConfirmedInv'
           /\ PageInv => PageInv'
<1> DEFINE c == ExpiryContent(row.doc.content, p, u)
           sig == ClearSignatures(row.doc)
           d == WithConsentExpiry(row.doc, p, u)
           rs == {q \in Providers : Signed(row.doc, q)}
<1>1. row.doc \in Document /\ row.doc.content \in Content /\ u \in Nat
  BY RowFields, InputsAssumption
<1>2. /\ c \in Content /\ c.cid = row.doc.content.cid
      /\ c.expiry = [row.doc.content.expiry EXCEPT ![p] = u]
  BY <1>1, ExpiryContentType
<1>3. \A x \in Providers : x # p => c.expiry[x] = row.doc.content.expiry[x]
  BY <1>1, <1>2, ContentFields
<1>4. \A x \in Providers : sig[x].st = IF row.doc.sig[x].st = "signed" THEN "none"
                                       ELSE row.doc.sig[x].st
  BY DEF ClearSignatures, Signed, NoSignature
<1>5. d = [[row.doc EXCEPT !.content = c, !.hash = c, !.sig = sig] EXCEPT !.gov = c]
  BY <1>1 DEF WithConsentExpiry, GovernanceSign, Document
<1>6. d \in Document
  BY <1>1, WithConsentExpiryType
<1>7. /\ Begin(r, "expiry", "loaded", p, d, rs) /\ row.doc # NoDocument
      /\ UNCHANGED <<row, revoked, limit, participants, asks>>
  BY NoDocumentFacts DEF ExpiryLoad
<1>8. rs \in SUBSET Providers /\ rs = {q \in Providers : row.doc.sig[q].st = "signed"}
  BY DEF Signed
<1> HIDE DEF c, sig, rs, d
<1>9. d.content = c /\ d.sig = sig
  BY <1>1, <1>5 DEF Document
<1>10. /\ d.content.cid = row.doc.content.cid
       /\ \A x \in Providers : x = p \/ d.content.expiry[x] = row.doc.content.expiry[x]
       /\ \A x \in Providers : d.sig[x].st = IF row.doc.sig[x].st = "signed" THEN "none"
                                             ELSE row.doc.sig[x].st
  BY <1>2, <1>3, <1>4, <1>9
<1> QED
  BY <1>6, <1>7, <1>8, <1>10, Taken

LEMMA EditTaken ==
    ASSUME TypeOK, OneSlot, CopyInv, ConfirmedInv, NEW r \in Requests, NEW e \in Edits,
           EditLoad(r, e)
    PROVE  /\ CopyInv' /\ ConfirmedInv'
           /\ PageInv => PageInv'
<1> DEFINE c == ApplyEdit(row.doc.content, e)
           d == AmendSign([row.doc EXCEPT !.content = c])
<1>1. row.doc \in Document /\ row.doc.content \in Content
  BY RowFields
<1>2. c \in Content /\ c.cid = row.doc.content.cid /\ c.expiry = row.doc.content.expiry
  BY <1>1, ApplyEditType DEF SameConsentTerms
<1>3. /\ Begin(r, "edit", "loaded", Consumer, d, {}) /\ row.doc # NoDocument
      /\ UNCHANGED <<row, revoked, limit, participants, asks>>
  BY NoDocumentFacts DEF EditLoad
<1> HIDE DEF c
<1>4. d \in Document /\ d.content = c /\ d.hash = row.doc.hash /\ d.sig = row.doc.sig
  BY <1>1, <1>2, AmendSignType
<1> HIDE DEF d
<1> QED
  BY <1>2, <1>3, <1>4, Taken

LEMMA RunTaken ==
    ASSUME TypeOK, OneSlot, CopyInv, ConfirmedInv, NEW r \in Requests, RunGate(r)
    PROVE  /\ CopyInv' /\ ConfirmedInv'
           /\ PageInv => PageInv'
<1>1. row.doc \in Document
  BY RowFields
<1>2. /\ Begin(r, "run", "loaded", Consumer, row.doc, {}) /\ row.doc # NoDocument
      /\ \A p \in Providers : row.doc.sig[p].st = "signed"
      /\ UNCHANGED <<row, revoked, limit, participants, asks>>
  BY DEF RunGate, history, RequireAllProvidersSigned, VerifyContractSignatures,
     ProviderSignatureValid, Signed
<1> QED
  BY <1>1, <1>2, Taken

\* A generated contract is new: nobody is on record, asked or shown yet.
LEMMA Generated ==
    ASSUME TypeOK, OneSlot, CopyInv, NEW r \in Requests,
           NEW t \in Techniques, NEW x \in Texts, Generate(r, t, x)
    PROVE  /\ CopyInv' /\ ConfirmedInv'
           /\ PageInv'
<1> DEFINE cid == row.doc.content.cid + 1
           d == GeneratedDocument(cid, t, x)
           q == [phase |-> "stored", op |-> "generate", who |-> Consumer, doc |-> d, resigners |-> {}]
<1>1. /\ cid \in ContractIds /\ row' = StoreGeneratedContract(d) /\ req' = [req EXCEPT ![r] = q]
      /\ revoked' = {} /\ limit' = [p \in Providers |-> 0] /\ UNCHANGED <<participants, asks>>
  BY DEF Generate, Begin
<1>2. cid \in Nat /\ now \in Nat
  BY RowFields DEF TypeOK
<1> HIDE DEF cid
<1>3. /\ d.content.cid = cid
      /\ \A p \in Providers : d.sig[p].st = "none" /\ d.content.expiry[p] = 0
  BY <1>2, GeneratedDocumentType, NoDocumentFacts
<1> HIDE DEF d
<1>4. q.phase = "stored" /\ q.op = "generate" /\ q.doc = d
  OBVIOUS
<1> HIDE DEF q
<1>5. req'[r] = q /\ row'.doc = d /\ row'.signRequestsSent = FALSE
  BY <1>1 DEF TypeOK, StoreGeneratedContract
<1>6. Copy(q, d) /\ Confirmed(d, {}, [p \in Providers |-> 0])
  BY <1>1, <1>3, <1>4 DEF Copy, Confirmed
<1>7. Page(q, d, participants) /\ AskedOf(q, d, asks, FALSE)
  BY <1>4 DEF Page, AskedOf, Unmarked
<1>8. CopyInv' /\ ConfirmedInv'
  BY <1>1, <1>5, <1>6, SoloFrame
<1>9. PageInv'
  BY <1>1, <1>5, <1>7, PageFrame
<1> QED
  BY <1>8, <1>9

\* The UPDATE of a copy that is still of the row.
LEMMA StoredSolo ==
    ASSUME TypeOK, OneSlot, CopyInv, ConfirmedInv, NEW r \in Requests, Store(r)
    PROVE  /\ CopyInv' /\ ConfirmedInv'
           /\ PageInv => PageInv'
<1> DEFINE q == req[r]
           d == q.doc
           h == [q EXCEPT !.phase = "stored"]
           n == IF q.op = "edit" THEN Idle ELSE h
<1>1. /\ q \in Request /\ Copy(q, row.doc) /\ Confirmed(row.doc, revoked, limit)
      /\ q.op \in {"sign", "withdraw", "expiry"} => q.who \in Providers
      /\ q.op \in {"sign", "withdraw", "expiry", "edit"} /\ q.phase = "loaded"
  BY DEF CopyInv, ConfirmedInv, TypeOK, Request, Store
<1>2. StoreMatches(r) /\ d.content.cid = row.doc.content.cid /\ d.content.cid \in ContractIds
  BY <1>1 DEF StoreMatches, Cid, Copy
<1>3. /\ row' = [row EXCEPT !.doc = d] /\ req' = [req EXCEPT ![r] = n]
      /\ revoked' = CASE q.op = "withdraw" -> revoked \cup {q.who}
                      [] q.op = "sign"     -> revoked \ {q.who}
                      [] OTHER             -> revoked
      /\ limit' = IF q.op = "expiry"
                  THEN [limit EXCEPT ![q.who] = d.content.expiry[q.who]] ELSE limit
      /\ UNCHANGED <<participants, asks>>
  BY <1>2 DEF Store
<1>4. /\ h.phase = "stored" /\ h.op = q.op /\ h.who = q.who /\ h.doc = d
      /\ h.resigners = q.resigners
  BY <1>1 DEF Request
<1>5. IF q.op = "edit" THEN n = Idle ELSE n = h
  OBVIOUS
<1> HIDE DEF h, n
<1>6. req'[r] = n /\ row'.doc = d /\ row'.signRequestsSent = row.signRequestsSent
  BY <1>3 DEF TypeOK
<1>7. Copy(n, d)
  BY <1>1, <1>2, <1>4, <1>5, IdleRequest DEF Copy
<1>8. \A p \in Providers : d.sig[p].st = TakenState(q, p, row.doc.sig[p].st)
  BY <1>1 DEF Copy
<1>9. Confirmed(d, revoked', limit')
  <2>1. revoked' \subseteq Providers /\ revoked \subseteq Providers
    BY <1>1, <1>3 DEF TypeOK
  <2>2. ASSUME NEW p \in revoked' PROVE d.sig[p].st # "signed"
    <3>1. q.op \in {"sign", "withdraw"} /\ p = q.who => q.op = "withdraw"
      BY <1>3, <2>2
    <3>2. ~(q.op \in {"sign", "withdraw"} /\ p = q.who) => row.doc.sig[p].st # "signed"
      BY <1>1, <1>3, <2>2 DEF Confirmed
    <3> QED
      BY <1>1, <1>8, <2>1, <2>2, <3>1, <3>2 DEF TakenState
  <2>3. ASSUME NEW p \in Providers PROVE d.content.expiry[p] = limit'[p]
    <3>1. CASE q.op = "expiry" /\ p = q.who
      BY <1>1, <1>3, <3>1 DEF TypeOK
    <3>2. CASE ~(q.op = "expiry" /\ p = q.who)
      <4>1. limit'[p] = limit[p]
        BY <1>1, <1>3, <3>2 DEF TypeOK
      <4>2. d.content.expiry[p] = row.doc.content.expiry[p]
        BY <1>1, <3>2 DEF Copy
      <4> QED
        BY <1>1, <2>3, <4>1, <4>2 DEF Confirmed
    <3> QED
      BY <3>1, <3>2
  <2> QED
    BY <2>2, <2>3 DEF Confirmed
<1>10. CopyInv' /\ ConfirmedInv'
  BY <1>6, <1>7, <1>9, SoloFrame
<1>11. ASSUME PageInv PROVE PageInv'
  <2>1. /\ Page(q, row.doc, participants)
        /\ AskedOf(q, row.doc, asks, row.signRequestsSent)
    BY <1>11 DEF PageInv
  <2> USE IdentifiedIn
  <2>2. ASSUME NEW p \in Identified
        PROVE  /\ Unmarked(n, p) \/ participants[d.content.cid][p] \in Shown(d.sig[p].st)
               /\ participants[d.content.cid][p] # "absent"
    <3>1. /\ participants[d.content.cid][p] \in Shown(row.doc.sig[p].st)
          /\ participants[d.content.cid][p] # "absent"
      BY <1>1, <1>2, <2>1 DEF Page, Unmarked
    <3>2. Unmarked(n, p) \/ d.sig[p].st = row.doc.sig[p].st
      <4>1. CASE q.op = "expiry" /\ row.doc.sig[p].st = "signed"
        BY <1>1, <1>4, <1>5, <4>1 DEF Unmarked, Copy
      <4>2. CASE q.op \in {"sign", "withdraw"} /\ p = q.who
        BY <1>4, <1>5, <4>2 DEF Unmarked
      <4>3. CASE ~(q.op = "expiry" /\ row.doc.sig[p].st = "signed")
                 /\ ~(q.op \in {"sign", "withdraw"} /\ p = q.who)
        BY <1>8, <4>3 DEF TakenState
      <4> QED
        BY <4>1, <4>2, <4>3
    <3> QED
      BY <3>1, <3>2
  <2>3. Page(n, d, participants)
    BY <2>2 DEF Page
  <2>4. ASSUME NEW p \in Identified, d.sig[p].st = "none", q.op # "expiry"
        PROVE  [to |-> p, hash |-> d.hash] \in asks
    <3>1. row.doc.sig[p].st = "none"
      BY <1>8, <2>4 DEF TakenState
    <3>2. d.hash = row.doc.hash
      BY <1>1, <2>4 DEF Copy
    <3> QED
      BY <1>1, <1>2, <2>1, <3>1, <3>2 DEF AskedOf
  <2>5. AskedOf(n, d, asks, row.signRequestsSent)
    BY <1>1, <1>4, <1>5, <2>4, IdleRequest DEF AskedOf
  <2> QED
    BY <1>3, <1>6, <2>3, <2>5, PageFrame
<1> QED
  BY <1>10, <1>11

\* A request that ends without another write to the document.
LEMMA EndedSolo ==
    ASSUME TypeOK, OneSlot, CopyInv, ConfirmedInv, NEW r \in Requests, End(r),
           row'.doc = row.doc, UNCHANGED <<revoked, limit>>
    PROVE  /\ CopyInv' /\ ConfirmedInv'
           /\ req'[r] = Idle /\ Copy(req[r], row.doc)
<1>1. req'[r] = Idle /\ Copy(req[r], row.doc)
  BY DEF End, TypeOK, CopyInv
<1>2. Copy(Idle, row.doc)
  BY <1>1, IdleRequest DEF Copy
<1> QED
  BY <1>1, <1>2, SoloFrame DEF ConfirmedInv

LEMMA EndsSolo ==
    ASSUME TypeOK, OneSlot, CopyInv, ConfirmedInv, NEW r \in Requests,
           \/ GenerateFinish(r) \/ SignFinish(r) \/ WithdrawFinish(r) \/ ExpiryFinish(r)
           \/ RunStart(r) \/ RunLost(r) \/ RunFail(r) \/ Abort(r)
    PROVE  CopyInv' /\ ConfirmedInv'
<1>1. End(r) /\ row'.doc = row.doc /\ UNCHANGED <<revoked, limit>>
  BY DEF GenerateFinish, SignFinish, WithdrawFinish, ExpiryFinish, RunStart, RunLost, RunFail,
     Abort, history, TypeOK
<1> QED
  BY <1>1, EndedSolo

LEMMA SoloStep == OneSlot /\ TypeOK /\ CopyInv /\ ConfirmedInv /\ [Next]_vars
                      => CopyInv' /\ ConfirmedInv'
<1> SUFFICES ASSUME OneSlot, TypeOK, CopyInv, ConfirmedInv, [Next]_vars
             PROVE  CopyInv' /\ ConfirmedInv'
  OBVIOUS
<1>1. ASSUME UNCHANGED <<row, req, revoked, limit>> PROVE CopyInv' /\ ConfirmedInv'
  BY <1>1 DEF CopyInv, Copy, TakenState, ConfirmedInv, Confirmed
<1>2. ASSUME NEW r \in Requests,
             \/ \E t \in Techniques, x \in Texts : Generate(r, t, x)
             \/ \E p \in Providers : SignLoad(r, p) \/ WithdrawLoad(r, p)
             \/ \E p \in Providers, u \in Expiries : ExpiryLoad(r, p, u)
             \/ \E e \in Edits : EditLoad(r, e)
             \/ Store(r) \/ RunGate(r)
      PROVE  CopyInv' /\ ConfirmedInv'
  BY <1>2, Generated, SignTaken, WithdrawTaken, ExpiryTaken, EditTaken, StoredSolo, RunTaken
<1> QED
  BY <1>1, <1>2, EndsSolo DEF Next, vars, PutProviderKey, Tick, history

LEMMA SoloInit == Init => CopyInv /\ ConfirmedInv
<1> SUFFICES ASSUME Init PROVE CopyInv /\ ConfirmedInv
  OBVIOUS
<1>1. row.doc = NoDocument /\ revoked = {} /\ \A p \in Providers : limit[p] = 0
  BY DEF Init
<1>2. Copy(Idle, NoDocument)
  BY IdleRequest DEF Copy
<1> QED
  BY <1>1, <1>2, NoDocumentFacts DEF Init, CopyInv, ConfirmedInv, Confirmed

(***************************************************************************)
(* The Audit page and the sign requests                                    *)
(***************************************************************************)
LEMMA PageEnd ==
    ASSUME TypeOK, OneSlot, CopyInv, ConfirmedInv, NEW r \in Requests, End(r),
           row'.doc = row.doc, UNCHANGED <<revoked, limit>>,
           Page(Idle, row.doc, participants'), AskedOf(Idle, row.doc, asks', row'.signRequestsSent)
    PROVE  PageInv'
  BY EndedSolo, PageFrame

LEMMA MarkEffect ==
    ASSUME TypeOK, NEW cid \in ContractIds, NEW who, NEW status,
           participants' = MarkParticipants(cid, who, status)
    PROVE  \A p \in Providers :
              participants'[cid][p] = IF p \in who /\ participants[cid][p] # "absent"
                                      THEN status ELSE participants[cid][p]
  BY DEF MarkParticipants, TypeOK

LEMMA MarkByIdEffect ==
    ASSUME TypeOK, NEW cid \in ContractIds, NEW who, NEW status,
           participants' = MarkById(cid, who, status)
    PROVE  \A p \in Identified :
              participants'[cid][p] = IF p \in who /\ participants[cid][p] # "absent"
                                      THEN status ELSE participants[cid][p]
  BY MarkEffect, IdentifiedIn DEF MarkById

\* The notification a provider answers is one that was sent to them.
LEMMA AnsweredOwn ==
    ASSUME NEW r \in Requests, NEW a \in Answers(r)
    PROVE  \A b \in a : b.to = req[r].who
  BY DEF Answers

\* The marks of a signature or a withdrawal; its answered request goes.
LEMMA PageAnswer ==
    ASSUME TypeOK, OneSlot, CopyInv, ConfirmedInv, PageInv, NEW r \in Requests,
           SignFinish(r) \/ WithdrawFinish(r)
    PROVE  PageInv'
<1> DEFINE q == req[r]
           d == row.doc
           st == IF q.op = "sign" THEN "signed" ELSE "withdrawn"
<1>1. /\ q.op \in {"sign", "withdraw"} /\ q.phase = "stored"
      /\ participants' = MarkById(Cid(r), {q.who}, st)
      /\ End(r) /\ UNCHANGED <<row, revoked, limit>>
      /\ \E a \in Answers(r) : asks' = asks \ a
  BY DEF SignFinish, WithdrawFinish, At, history
<1>2. /\ Copy(q, d) /\ Page(q, d, participants) /\ AskedOf(q, d, asks, row.signRequestsSent)
  BY DEF CopyInv, PageInv
<1>3. /\ Cid(r) = d.content.cid /\ d.content.cid \in ContractIds /\ d.sig[q.who].st = st
  BY <1>1, <1>2 DEF Cid, Copy
<1>4. \A p \in Identified :
          participants'[d.content.cid][p] =
              IF p \in {q.who} /\ participants[d.content.cid][p] # "absent"
              THEN st ELSE participants[d.content.cid][p]
  <2> HIDE DEF st
  <2>1. participants' = MarkById(d.content.cid, {q.who}, st)
    BY <1>1, <1>3
  <2> QED
    BY <1>3, <2>1, MarkByIdEffect
<1> USE IdentifiedIn
<1>5. st \in {"signed", "withdrawn"} /\ st \in Shown(st)
  BY DEF Shown
<1> HIDE DEF st
<1>6. Page(Idle, d, participants')
  <2> SUFFICES ASSUME NEW p \in Identified
               PROVE  /\ participants'[d.content.cid][p] \in Shown(d.sig[p].st)
                      /\ participants'[d.content.cid][p] # "absent"
    BY DEF Page
  <2>1. participants[d.content.cid][p] # "absent"
    BY <1>1, <1>2, <1>3 DEF Page
  <2>2. CASE p = q.who
    BY <1>3, <1>4, <1>5, <2>1, <2>2
  <2>3. CASE p # q.who
    BY <1>1, <1>2, <1>3, <1>4, <2>1, <2>3 DEF Page, Unmarked
  <2> QED
    BY <2>2, <2>3
<1>7. AskedOf(Idle, d, asks', row.signRequestsSent)
  <2> SUFFICES ASSUME NEW p \in Identified, d.sig[p].st = "none"
               PROVE  [to |-> p, hash |-> d.hash] \in asks'
    BY IdleRequest DEF AskedOf
  <2> DEFINE b == [to |-> p, hash |-> d.hash]
  <2>1. b \in asks /\ b.to = p /\ p # q.who
    BY <1>1, <1>2, <1>3, <1>5 DEF AskedOf
  <2> HIDE DEF b
  <2> QED
    BY <1>1, <2>1, AnsweredOwn DEF b
<1> QED
  BY <1>1, <1>6, <1>7, PageEnd

\* Generating and setting an expiry ask everyone, under the hash in the row.
LEMMA PageAsk ==
    ASSUME TypeOK, OneSlot, CopyInv, ConfirmedInv, PageInv, NEW r \in Requests,
           GenerateFinish(r) \/ ExpiryFinish(r)
    PROVE  PageInv'
<1> DEFINE q == req[r]
           d == row.doc
<1>1. /\ q.op \in {"generate", "expiry"} /\ q.phase = "stored" /\ End(r)
      /\ row'.doc = row.doc /\ UNCHANGED <<revoked, limit>>
  BY DEF GenerateFinish, ExpiryFinish, At, history, TypeOK
<1>2. /\ Copy(q, d) /\ Page(q, d, participants) /\ AskedOf(q, d, asks, row.signRequestsSent)
  BY DEF CopyInv, PageInv
<1>3. /\ q.doc = d /\ Cid(r) = d.content.cid /\ d.content.cid \in ContractIds
  BY <1>1, <1>2 DEF Cid, Copy
<1>4. SignRequests(d) \subseteq asks'
  <2>1. CASE GenerateFinish(r)
    BY <1>2, <1>3, <2>1 DEF GenerateFinish, AskedOf, At
  <2>2. CASE ExpiryFinish(r)
    BY <1>3, <2>2 DEF ExpiryFinish
  <2> QED
    BY <2>1, <2>2
<1>5. AskedOf(Idle, d, asks', row'.signRequestsSent)
  BY <1>4, IdleRequest DEF AskedOf, SignRequests
<1> USE IdentifiedIn
<1>6. ASSUME NEW p \in Identified
      PROVE  /\ participants'[d.content.cid][p] \in Shown(d.sig[p].st)
             /\ participants'[d.content.cid][p] # "absent"
  <2>1. CASE GenerateFinish(r)
    <3>1. participants'[d.content.cid][p] = "requested" /\ d.sig[p].st = "none"
      BY <1>2, <1>3, <2>1 DEF GenerateFinish, At, Copy
    <3> QED
      BY <3>1 DEF Shown
  <2>2. CASE ExpiryFinish(r)
    <3>1. /\ q.op = "expiry"
          /\ participants'[d.content.cid][p] =
               IF p \in q.resigners /\ participants[d.content.cid][p] # "absent"
               THEN "requested" ELSE participants[d.content.cid][p]
      BY <1>3, <2>2, MarkByIdEffect DEF ExpiryFinish, At
    <3>2. participants[d.content.cid][p] # "absent"
      BY <1>2, <1>3, <3>1 DEF Page
    <3>3. CASE p \in q.resigners
      BY <1>2, <1>3, <3>1, <3>2, <3>3 DEF Copy, Shown
    <3>4. CASE p \notin q.resigners
      BY <1>2, <1>3, <3>1, <3>2, <3>4 DEF Page, Unmarked
    <3> QED
      BY <3>3, <3>4
  <2> QED
    BY <2>1, <2>2
<1>7. Page(Idle, d, participants')
  BY <1>6 DEF Page
<1> QED
  BY <1>1, <1>5, <1>7, PageEnd

\* A run that starts is of a contract everyone has signed.
LEMMA PageRun ==
    ASSUME TypeOK, OneSlot, CopyInv, ConfirmedInv, PageInv, NEW r \in Requests,
           RunStart(r) \/ RunLost(r) \/ RunFail(r)
    PROVE  PageInv'
<1> DEFINE q == req[r]
           d == row.doc
<1>1. /\ q.op = "run" /\ q.phase = "loaded" /\ End(r) /\ row'.doc = row.doc
      /\ row'.signRequestsSent = row.signRequestsSent /\ UNCHANGED <<revoked, limit, asks>>
      /\ UNCHANGED participants \/ participants' = MarkParticipants(Cid(r), Providers, "tee_enabled")
  BY DEF RunStart, RunLost, RunFail, At, history, TypeOK
<1>2. /\ Copy(q, d) /\ Page(q, d, participants) /\ AskedOf(q, d, asks, row.signRequestsSent)
  BY DEF CopyInv, PageInv
<1>3. /\ Cid(r) = d.content.cid /\ d.content.cid \in ContractIds
      /\ \A p \in Providers : d.sig[p].st = "signed"
  BY <1>1, <1>2 DEF Cid, Copy
<1> USE IdentifiedIn
<1>4. AskedOf(Idle, d, asks, row.signRequestsSent)
  BY <1>3, IdleRequest DEF AskedOf
<1>5. ASSUME NEW p \in Identified
      PROVE  /\ participants'[d.content.cid][p] \in Shown(d.sig[p].st)
             /\ participants'[d.content.cid][p] # "absent"
  <2>1. /\ participants[d.content.cid][p] \in Shown(d.sig[p].st)
        /\ participants[d.content.cid][p] # "absent"
    BY <1>1, <1>2, <1>3 DEF Page, Unmarked
  <2>2. participants'[d.content.cid][p] \in {participants[d.content.cid][p], "tee_enabled"}
    BY <1>1, <1>3, MarkEffect
  <2> QED
    BY <1>3, <2>1, <2>2 DEF Shown
<1>6. Page(Idle, d, participants')
  BY <1>5 DEF Page
<1> QED
  BY <1>1, <1>4, <1>6, PageEnd

LEMMA PageStep == OneSlot /\ ~Aborts /\ TypeOK /\ CopyInv /\ ConfirmedInv /\ PageInv /\ [Next]_vars
                      => PageInv'
<1> SUFFICES ASSUME OneSlot, ~Aborts, TypeOK, CopyInv, ConfirmedInv, PageInv, [Next]_vars
             PROVE  PageInv'
  OBVIOUS
<1>1. ASSUME UNCHANGED <<row, req, participants, asks>> PROVE PageInv'
  BY <1>1 DEF PageInv, Page, Unmarked, AskedOf
<1>2. ASSUME NEW r \in Requests,
             \/ \E t \in Techniques, x \in Texts : Generate(r, t, x)
             \/ \E p \in Providers : SignLoad(r, p) \/ WithdrawLoad(r, p)
             \/ \E p \in Providers, u \in Expiries : ExpiryLoad(r, p, u)
             \/ \E e \in Edits : EditLoad(r, e)
             \/ Store(r) \/ RunGate(r)
      PROVE  PageInv'
  BY <1>2, Generated, SignTaken, WithdrawTaken, ExpiryTaken, EditTaken, StoredSolo, RunTaken
<1>3. \A r \in Requests : ~Abort(r)
  BY DEF Abort
<1> QED
  BY <1>1, <1>2, <1>3, PageAnswer, PageAsk, PageRun DEF Next, vars, PutProviderKey, Tick, history

LEMMA PageInit == Init => PageInv
<1> SUFFICES ASSUME Init PROVE PageInv
  OBVIOUS
<1>1. NoDocument.content.cid \notin ContractIds
  <2>1. NoDocument.content.cid = 0
    BY DEF NoDocument, NoContent
  <2> QED
    BY <2>1, BoundsAssumption DEF ContractIds
<1>2. Page(Idle, NoDocument, participants) /\ AskedOf(Idle, NoDocument, asks, row.signRequestsSent)
  BY <1>1, IdleRequest DEF Page, AskedOf
<1> QED
  BY <1>2 DEF Init, PageInv

\* Only RunGate turns a request into a run.
LEMMA GateStep ==
    ASSUME TypeOK, Next, NEW r \in Requests, PassesGate(r)
    PROVE  RequireAllProvidersSigned(row.doc)
<1> DEFINE Only(s, op) == /\ \A x \in Requests : x # s => req'[x] = req[x]
                          /\ req'[s].op = req[s].op \/ req'[s].op = op
<1>1. ASSUME NEW s \in Requests, NEW op \in Ops, NEW phase, NEW who, NEW d, NEW rs,
             Begin(s, op, phase, who, d, rs)
      PROVE  Only(s, op)
  <2> DEFINE q == [phase |-> phase, op |-> op, who |-> who, doc |-> d, resigners |-> rs]
  <2>1. q.op = op
    OBVIOUS
  <2>2. req' = [req EXCEPT ![s] = q]
    BY <1>1 DEF Begin
  <2> HIDE DEF q
  <2> QED
    BY <2>1, <2>2 DEF TypeOK
<1>2. ASSUME NEW s \in Requests, End(s) PROVE Only(s, "none")
  BY <1>2, IdleRequest DEF End, TypeOK
<1>3. ASSUME NEW s \in Requests, Store(s) PROVE Only(s, "none")
  <2> DEFINE h == [req[s] EXCEPT !.phase = "stored"]
  <2>1. req' = [req EXCEPT ![s] = Idle] \/ req' = [req EXCEPT ![s] = h]
    BY <1>3 DEF Store, End
  <2>2. h.op = req[s].op
    BY DEF TypeOK, Request
  <2> HIDE DEF h
  <2> QED
    BY <2>1, <2>2, IdleRequest DEF TypeOK
<1>4. req'[r].op = "run" /\ req[r].op # "run"
  BY DEF PassesGate
<1>5. ASSUME NEW s \in Requests, NEW op \in Ops \ {"run"}, Only(s, op) PROVE FALSE
  BY <1>4, <1>5
<1> HIDE DEF Only
<1>6. ASSUME NEW s \in Requests,
             \/ \E t \in Techniques, x \in Texts : Generate(s, t, x)
             \/ \E p \in Providers : SignLoad(s, p) \/ WithdrawLoad(s, p)
             \/ \E p \in Providers, u \in Expiries : ExpiryLoad(s, p, u)
             \/ \E e \in Edits : EditLoad(s, e)
      PROVE  FALSE
  <2>1. \E op \in Ops \ {"run"} : Only(s, op)
    BY <1>1, <1>6 DEF Generate, SignLoad, WithdrawLoad, ExpiryLoad, EditLoad, Ops
  <2> QED
    BY <1>5, <2>1
<1>7. ASSUME NEW s \in Requests,
             \/ GenerateFinish(s) \/ SignFinish(s) \/ WithdrawFinish(s) \/ ExpiryFinish(s)
             \/ Store(s) \/ RunStart(s) \/ RunLost(s) \/ RunFail(s) \/ Abort(s)
      PROVE  FALSE
  <2>1. End(s) \/ Store(s)
    BY <1>7, Zenon DEF GenerateFinish, SignFinish, WithdrawFinish, ExpiryFinish, RunStart,
       RunLost, RunFail, Abort
  <2>2. "none" \in Ops \ {"run"}
    BY DEF Ops
  <2> QED
    BY <1>2, <1>3, <1>5, <2>1, <2>2
<1>8. ASSUME (\E p \in Providers : PutProviderKey(p)) \/ Tick PROVE FALSE
  BY <1>4, <1>8 DEF PutProviderKey, Tick
<1>9. ASSUME NEW s \in Requests, RunGate(s) PROVE RequireAllProvidersSigned(row.doc)
  BY <1>9 DEF RunGate
<1> QED
  BY <1>6, <1>7, <1>8, <1>9 DEF Next

\* While requests run one at a time: once a withdrawal was confirmed, the gate
\* refuses every run until that provider signs again (consent_withdrawal.go,
\* header), wherever requests die.
THEOREM WithdrawalHolds ==
    ASSUME OneSlot
    PROVE  Spec => NoRunAfterWithdrawal
<1> DEFINE Held == \A r \in Requests : PassesGate(r) => revoked = {}
<1>1. TypeOK /\ CopyInv /\ ConfirmedInv /\ [Next]_vars => [Held]_vars
  <2> SUFFICES ASSUME TypeOK, CopyInv, ConfirmedInv, Next, NEW r \in Requests, PassesGate(r)
               PROVE  revoked = {}
    BY DEF vars
  <2>1. RequireAllProvidersSigned(row.doc)
    BY GateStep
  <2>2. \A p \in Providers : row.doc.sig[p].st = "signed"
    BY <2>1 DEF RequireAllProvidersSigned, VerifyContractSignatures, ProviderSignatureValid, Signed
  <2> QED
    BY <2>2 DEF ConfirmedInv, Confirmed, TypeOK
<1>2. TypeOK /\ CopyInv /\ ConfirmedInv /\ [Next]_vars => CopyInv' /\ ConfirmedInv'
  BY SoloStep
<1>3. Spec => [][Held]_vars
  BY <1>1, <1>2, SoloInit, TypeCorrect, PTL DEF Spec
<1> QED
  BY <1>3 DEF NoRunAfterWithdrawal

\* While requests run one at a time, wherever they die: the gate admits a run
\* only under the confirmed expiries, which everybody signed, and before the
\* first of them passes (consentExpiryError).
THEOREM ExpiryHolds ==
    ASSUME OneSlot
    PROVE  Spec => GateKeepsExpiries
<1> DEFINE Held == \A r \in Requests : PassesGate(r) =>
                       \A p \in Providers :
                           /\ row.doc.hash.expiry[p] = limit[p]
                           /\ limit[p] # 0 => now <= limit[p]
<1>1. TypeOK /\ ContentAccountedFor /\ CopyInv /\ ConfirmedInv /\ [Next]_vars => [Held]_vars
  <2> SUFFICES ASSUME TypeOK, ContentAccountedFor, CopyInv, ConfirmedInv, Next,
                      NEW r \in Requests, PassesGate(r), NEW p \in Providers
               PROVE  /\ row.doc.hash.expiry[p] = limit[p]
                      /\ limit[p] # 0 => now <= limit[p]
    BY DEF vars
  <2>1. RequireAllProvidersSigned(row.doc)
    BY GateStep
  <2>2. row.doc.content.expiry[p] = limit[p]
    BY DEF ConfirmedInv, Confirmed
  <2>3. row.doc.content.expiry = row.doc.hash.expiry
    BY DEF ContentAccountedFor, Documents, SameConsentTerms
  <2>4. limit[p] # 0 => ~(now > limit[p])
    BY <2>1, <2>2 DEF RequireAllProvidersSigned, ConsentExpired
  <2>5. now \in Nat /\ limit[p] \in Nat
    BY DEF TypeOK
  <2> QED
    BY <2>2, <2>3, <2>4, <2>5
<1>2. TypeOK /\ CopyInv /\ ConfirmedInv /\ [Next]_vars => CopyInv' /\ ConfirmedInv'
  BY SoloStep
<1>3. Spec => [][Held]_vars
  BY <1>1, <1>2, SoloInit, TypeCorrect, ContentStays, PTL DEF Spec
<1> QED
  BY <1>3 DEF GateKeepsExpiries

\* While requests run one at a time and none dies half-way: a provider with an
\* id who has neither signed nor withdrawn holds a sign request with the current hash
\* (notifyContractSigners, handleSetConsentExpiry).
THEOREM Asked ==
    ASSUME OneSlot, ~Aborts
    PROVE  Spec => []UnsignedAreAsked
<1>1. CopyInv /\ PageInv => UnsignedAreAsked
  <2> SUFFICES ASSUME CopyInv, PageInv, Quiet, row.doc # NoDocument,
                      NEW p \in Identified, row.doc.sig[p].st = "none"
               PROVE  [to |-> p, hash |-> row.doc.hash] \in asks
    BY DEF UnsignedAreAsked
  <2>1. /\ Copy(Idle, row.doc) /\ AskedOf(Idle, row.doc, asks, row.signRequestsSent)
    BY DEF OneSlot, Quiet, CopyInv, PageInv
  <2> QED
    BY <2>1, IdleRequest DEF Copy, AskedOf
<1>2. TypeOK /\ CopyInv /\ ConfirmedInv /\ [Next]_vars => CopyInv' /\ ConfirmedInv'
  BY SoloStep
<1>3. TypeOK /\ CopyInv /\ ConfirmedInv /\ PageInv /\ [Next]_vars => PageInv'
  BY PageStep
<1> QED
  BY <1>1, <1>2, <1>3, SoloInit, PageInit, TypeCorrect, PTL DEF Spec

\* While requests run one at a time and none dies half-way: the Audit page
\* shows the state of every provider's signature (markJobParticipants).
THEOREM PageMatches ==
    ASSUME OneSlot, ~Aborts
    PROVE  Spec => []ParticipantsMatchSignatures
<1>1. CopyInv /\ PageInv => ParticipantsMatchSignatures
  <2> SUFFICES ASSUME CopyInv, PageInv, Quiet, row.doc # NoDocument, NEW p \in Identified
               PROVE  participants[row.doc.content.cid][p] \in Shown(row.doc.sig[p].st)
    BY DEF ParticipantsMatchSignatures, Shown
  <2>1. /\ Copy(Idle, row.doc) /\ Page(Idle, row.doc, participants)
    BY DEF OneSlot, Quiet, CopyInv, PageInv
  <2> QED
    BY <2>1, IdleRequest DEF Copy, Page, Unmarked
<1>2. TypeOK /\ CopyInv /\ ConfirmedInv /\ [Next]_vars => CopyInv' /\ ConfirmedInv'
  BY SoloStep
<1>3. TypeOK /\ CopyInv /\ ConfirmedInv /\ PageInv /\ [Next]_vars => PageInv'
  BY PageStep
<1> QED
  BY <1>1, <1>2, <1>3, SoloInit, PageInit, TypeCorrect, PTL DEF Spec
=============================================================================
