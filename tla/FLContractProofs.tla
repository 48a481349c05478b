--------------------------- MODULE FLContractProofs ---------------------------
(***************************************************************************)
(* Proofs about FLContract, for any providers, any number of overlapping   *)
(* handlers, contracts, certificates and faults.                           *)
(***************************************************************************)
EXTENDS FLContract, SequenceTheorems, TLAPS

(***************************************************************************)
(* Sequences, handlers and rows                                            *)
(***************************************************************************)
LEMMA SeqFacts ==
    ASSUME NEW S, NEW s \in Seq(S)
    PROVE  /\ Len(s) \in Nat /\ DOMAIN s = 1..Len(s)
           /\ \A i \in DOMAIN s : s[i] \in S
  BY LenProperties, ElementOfSeq

LEMMA AppendFacts ==
    ASSUME NEW S, NEW s \in Seq(S), NEW e \in S
    PROVE  /\ Append(s, e) \in Seq(S)
           /\ Len(s) \in Nat /\ Len(Append(s, e)) = Len(s) + 1
           /\ DOMAIN s = 1..Len(s) /\ DOMAIN Append(s, e) = 1 .. Len(s) + 1
           /\ Append(s, e)[Len(s) + 1] = e
           /\ \A i \in 1..Len(s) : Append(s, e)[i] = s[i]
  BY AppendProperties, LenProperties

LEMMA UnsignedType == Unsigned \in [Providers -> Marks]
  BY DEF Unsigned, Marks

LEMMA IdleType == Idle \in CallType /\ Idle.pc = "idle"
  BY UnsignedType DEF Idle, Handler, CallType

\* A handler that ends, or goes on in its code, leaves the others as they are.
LEMMA EndEffect ==
    ASSUME TypeOK, NEW c \in Calls, End(c)
    PROVE  /\ call' \in [Calls -> CallType]
           /\ call'[c].pc = "idle"
           /\ \A d \in Calls : d = c \/ call'[d] = call[d]
  BY IdleType DEF End, TypeOK

LEMMA GotoEffect ==
    ASSUME TypeOK, NEW c \in Calls, NEW pc \in {"ask", "return"}, Goto(c, pc)
    PROVE  /\ call' \in [Calls -> CallType]
           /\ call'[c].pc = pc /\ call'[c].row = call[c].row
           /\ \A d \in Calls : d = c \/ call'[d] = call[d]
  BY DEF Goto, TypeOK, CallType

\* What a handler becomes when it is given a new state.
LEMMA SetEffect ==
    ASSUME TypeOK, NEW c \in Calls, NEW h \in CallType, call' = [call EXCEPT ![c] = h]
    PROVE  /\ call' \in [Calls -> CallType]
           /\ call'[c] = h
           /\ \A d \in Calls : d = c \/ call'[d] = call[d]
  BY DEF TypeOK

\* A written document replaces the marks of one row.
LEMMA StoreEffect ==
    ASSUME TypeOK, NEW c \in Calls, call[c].pc \in {"mark", "sign"}, StoreDocument(c)
    PROVE  LET r == call[c].row IN
           /\ r \in DOMAIN rows
           /\ rows' \in Seq(RowType) /\ Len(rows') = Len(rows) /\ DOMAIN rows' = DOMAIN rows
           /\ rows'[r].final = rows[r].final /\ rows'[r].roster = rows[r].roster
           /\ rows'[r].sig = call[c].sig
           /\ \A q \in DOMAIN rows : q = r \/ rows'[q] = rows[q]
           /\ latest' = r /\ End(c)
<1> DEFINE r == call[c].row
<1>1. rows \in Seq(RowType) /\ r \in DOMAIN rows /\ DOMAIN rows = 1..Len(rows) /\ Len(rows) \in Nat
  BY SeqFacts DEF TypeOK
<1>2. rows[r] \in RowType /\ call[c].sig \in [Providers -> Marks]
  BY <1>1, SeqFacts DEF TypeOK, CallType
<1> DEFINE new == Row(rows[r].final, rows[r].roster, call[c].sig)
<1>3. new \in RowType
  BY <1>2 DEF Row, RowType
<1>4. rows' = [q \in 1..Len(rows) |-> IF q = r THEN new ELSE rows[q]]
  BY <1>1 DEF StoreDocument, StoreMatches
<1>5. \A q \in 1..Len(rows) : rows[q] \in RowType
  BY <1>1, SeqFacts
<1> HIDE DEF new
<1>6. rows' \in [1..Len(rows) -> RowType]
  BY <1>3, <1>4, <1>5
<1>7. rows' \in Seq(RowType) /\ Len(rows') = Len(rows)
  BY <1>1, <1>6, SeqDef, LenProperties
<1>8. rows'[r] = new /\ \A q \in DOMAIN rows : q = r \/ rows'[q] = rows[q]
  BY <1>1, <1>4
<1>9. new.final = rows[r].final /\ new.roster = rows[r].roster /\ new.sig = call[c].sig
  BY DEF new, Row
<1>10. latest' = r /\ End(c)
  BY DEF StoreDocument, Touch
<1> QED
  BY <1>1, <1>4, <1>7, <1>8, <1>9, <1>10

LEMMA SeqMonotone ==
    ASSUME NEW S, NEW T, S \subseteq T, NEW s \in Seq(S)
    PROVE  s \in Seq(T)
<1>1. Len(s) \in Nat /\ s \in [1..Len(s) -> S]
  BY LenProperties
<1> QED
  BY <1>1, SeqDef

(***************************************************************************)
(* Type correctness                                                        *)
(***************************************************************************)
LEMMA InitType == Init => TypeOK
<1> SUFFICES ASSUME Init PROVE TypeOK
  OBVIOUS
<1>1. rows \in Seq(RowType) /\ projects \in Seq(DOMAIN rows) /\ issued \in Seq(DOMAIN rows)
  BY EmptySeq DEF Init
<1>2. call \in [Calls -> CallType] /\ \A c \in Calls : call[c].pc = "idle"
  BY IdleType DEF Init
<1>3. latest \in 0..Len(rows) /\ faults \in Nat
  BY DEF Init
<1>4. /\ overlapped \in BOOLEAN
      /\ asked \subseteq (DOMAIN rows) \X Providers /\ signers \subseteq (DOMAIN rows) \X Providers
      /\ recorded \subseteq DOMAIN issued /\ handed \subseteq DOMAIN issued
  BY DEF Init
<1> QED
  BY <1>1, <1>2, <1>3, <1>4 DEF TypeOK

\* Whatever the state the handler is given, provided it names what there is.
LEMMA CallsTyped ==
    ASSUME TypeOK, NEW c \in Calls, NEW h \in CallType,
           call' \in [Calls -> CallType], call'[c] = h,
           \A d \in Calls : d = c \/ call'[d] = call[d],
           DOMAIN rows \subseteq DOMAIN rows', DOMAIN issued \subseteq DOMAIN issued',
           h.pc \in {"project", "ask", "mark", "sign"} => h.row \in DOMAIN rows',
           h.pc \in {"record", "return"} => h.row \in DOMAIN issued',
           h.pc = "sign" => h.to \in Providers
    PROVE  \A d \in Calls :
              /\ call'[d].pc \in {"project", "ask", "mark", "sign"} => call'[d].row \in DOMAIN rows'
              /\ call'[d].pc \in {"record", "return"} => call'[d].row \in DOMAIN issued'
              /\ call'[d].pc = "sign" => call'[d].to \in Providers
  BY DEF TypeOK

LEMMA FaultType == TypeOK /\ (Fault \/ NoFault) => faults' \in Nat
  BY DEF TypeOK, Fault, NoFault

LEMMA StartType == TypeOK => \A c \in Calls : Start(c) => overlapped' \in BOOLEAN
  BY DEF TypeOK, Start

\* A row read at its number has its fields.
LEMMA RowFields ==
    ASSUME TypeOK, NEW r \in DOMAIN rows
    PROVE  /\ rows[r].final \in BOOLEAN /\ rows[r].roster \subseteq Providers
           /\ rows[r].sig \in [Providers -> Marks] /\ r \in Nat
<1>1. rows[r] \in RowType /\ r \in Nat
  BY SeqFacts DEF TypeOK
<1> QED
  BY <1>1 DEF RowType

\* The steps that start a handler on rows as they are.
LEMMA StartsType ==
    ASSUME TypeOK, NEW c \in Calls, NEW h \in CallType, Start(c), Fault \/ NoFault,
           call' = [call EXCEPT ![c] = h],
           UNCHANGED <<rows, latest, projects, asked, certVars, signers>>,
           h.pc \in {"store", "mark", "sign"},
           h.pc \in {"mark", "sign"} => h.row \in DOMAIN rows,
           h.pc = "sign" => h.to \in Providers
    PROVE  TypeOK'
<1>1. /\ call' \in [Calls -> CallType] /\ call'[c] = h
      /\ \A d \in Calls : d = c \/ call'[d] = call[d]
  BY SetEffect
<1>2. UNCHANGED <<rows, latest, projects, asked, issued, recorded, handed, signers>>
  BY DEF certVars
<1>3. \A d \in Calls :
          /\ call'[d].pc \in {"project", "ask", "mark", "sign"} => call'[d].row \in DOMAIN rows'
          /\ call'[d].pc \in {"record", "return"} => call'[d].row \in DOMAIN issued'
          /\ call'[d].pc = "sign" => call'[d].to \in Providers
  BY <1>1, <1>2, CallsTyped
<1>4. overlapped' \in BOOLEAN /\ faults' \in Nat
  BY FaultType, StartType
<1> QED
  BY <1>1, <1>2, <1>3, <1>4 DEF TypeOK

LEMMA BuildType ==
    ASSUME TypeOK, NEW c \in Calls, NEW roster \in SUBSET Providers, NEW final \in BOOLEAN,
           BuildContract(c, roster, final)
    PROVE  TypeOK'
<1>1. PICK carry : call' = [call EXCEPT ![c] = Handler("store", 0, roster, final,
          [p \in Providers |-> IF p \in carry \cap roster THEN "marker" ELSE "none"], None)]
  BY DEF BuildContract
<1> DEFINE sig == [p \in Providers |-> IF p \in carry \cap roster THEN "marker" ELSE "none"]
<1>2. sig \in [Providers -> Marks]
  BY DEF Marks
<1> HIDE DEF sig
<1>3. Handler("store", 0, roster, final, sig, None) \in CallType
  BY <1>2 DEF Handler, CallType
<1>4. Fault \/ NoFault
  BY DEF BuildContract
<1>5. Handler("store", 0, roster, final, sig, None).pc = "store"
  BY DEF Handler
<1> QED
  BY <1>1, <1>3, <1>4, <1>5, StartsType DEF BuildContract, sig

LEMMA AcceptType ==
    ASSUME TypeOK, NEW c \in Calls, NEW p \in Providers, Accept(c, p)
    PROVE  TypeOK'
<1>1. latest \in DOMAIN rows
  BY SeqFacts DEF Accept, TypeOK
<1> DEFINE sig == [rows[latest].sig EXCEPT ![p] = "marker"]
           h == Handler("mark", latest, {}, FALSE, sig, None)
<1>2. sig \in [Providers -> Marks] /\ latest \in Nat
  BY <1>1, RowFields DEF Marks
<1> HIDE DEF sig
<1>3. h \in CallType /\ h.pc = "mark" /\ h.row = latest
  BY <1>2 DEF Handler, CallType
<1>4. Start(c) /\ NoFault /\ call' = [call EXCEPT ![c] = h]
      /\ UNCHANGED <<rows, latest, projects, asked, certVars, signers>>
  BY DEF Accept, NoFault, sig
<1> HIDE DEF h
<1> QED
  BY <1>1, <1>3, <1>4, StartsType

LEMMA SignType ==
    ASSUME TypeOK, NEW c \in Calls, NEW r \in DOMAIN rows, NEW p \in Providers, SignContract(c, r, p)
    PROVE  TypeOK'
<1> DEFINE sig == [rows[r].sig EXCEPT ![p] = "signed"]
           h == Handler("sign", r, {}, FALSE, sig, p)
<1>2. sig \in [Providers -> Marks] /\ r \in Nat
  BY RowFields DEF Marks
<1> HIDE DEF sig
<1>3. h \in CallType /\ h.pc = "sign" /\ h.row = r /\ h.to = p
  BY <1>2 DEF Handler, CallType
<1>4. Start(c) /\ NoFault /\ call' = [call EXCEPT ![c] = h]
      /\ UNCHANGED <<rows, latest, projects, asked, certVars, signers>>
  BY DEF SignContract, NoFault, sig
<1> HIDE DEF h
<1> QED
  BY <1>3, <1>4, StartsType

LEMMA StoreContractType ==
    ASSUME TypeOK, NEW c \in Calls, StoreContract(c)
    PROVE  TypeOK'
<1> DEFINE n == Len(rows)
           new == Row(call[c].final, call[c].roster, call[c].sig)
           h == Handler("project", n + 1, call[c].roster, call[c].final, Unsigned, None)
<1>1. new \in RowType /\ rows \in Seq(RowType) /\ n \in Nat
  BY SeqFacts DEF Row, RowType, TypeOK, CallType
<1>2. rows' = Append(rows, new) /\ call' = [call EXCEPT ![c] = h] /\ latest' = n + 1
  BY DEF StoreContract, Touch
<1>3. h \in CallType /\ h.pc = "project" /\ h.row = n + 1
  BY <1>1, UnsignedType DEF Handler, CallType, TypeOK
<1> HIDE DEF new, h
<1>4. /\ rows' \in Seq(RowType) /\ Len(rows') = n + 1
      /\ DOMAIN rows = 1..n /\ DOMAIN rows' = 1 .. n + 1
  BY <1>1, <1>2, AppendFacts
<1>5. UNCHANGED <<projects, asked, issued, recorded, handed, signers, overlapped, faults>>
  BY DEF StoreContract, certVars
<1>6. DOMAIN rows \subseteq DOMAIN rows'
  BY <1>1, <1>4
<1>7. projects' \in Seq(DOMAIN rows') /\ issued' \in Seq(DOMAIN rows')
  BY <1>5, <1>6, SeqMonotone DEF TypeOK
<1>8. /\ call' \in [Calls -> CallType] /\ call'[c] = h
      /\ \A d \in Calls : d = c \/ call'[d] = call[d]
  BY <1>2, <1>3, SetEffect
<1>9. n + 1 \in DOMAIN rows'
  BY <1>1, <1>4
<1>10. \A d \in Calls :
          /\ call'[d].pc \in {"project", "ask", "mark", "sign"} => call'[d].row \in DOMAIN rows'
          /\ call'[d].pc \in {"record", "return"} => call'[d].row \in DOMAIN issued'
          /\ call'[d].pc = "sign" => call'[d].to \in Providers
  BY <1>3, <1>5, <1>6, <1>8, <1>9, CallsTyped
<1>11. latest' \in 0..Len(rows')
  BY <1>1, <1>2, <1>4
<1>12. /\ asked' \subseteq (DOMAIN rows') \X Providers /\ signers' \subseteq (DOMAIN rows') \X Providers
       /\ recorded' \subseteq DOMAIN issued' /\ handed' \subseteq DOMAIN issued'
       /\ overlapped' \in BOOLEAN /\ faults' \in Nat
  BY <1>5, <1>6 DEF TypeOK
<1> QED
  BY <1>4, <1>7, <1>8, <1>10, <1>11, <1>12 DEF TypeOK

\* A handler that ends or goes on to its next call, on rows as they are.
LEMMA MovesType ==
    ASSUME TypeOK, NEW c \in Calls, End(c) \/ Goto(c, "ask") \/ Goto(c, "return"),
           Goto(c, "ask") => call[c].pc = "project",
           Goto(c, "return") => call[c].pc = "record",
           UNCHANGED <<rows, issued>>
    PROVE  /\ call' \in [Calls -> CallType]
           /\ \A d \in Calls :
                 /\ call'[d].pc \in {"project", "ask", "mark", "sign"} => call'[d].row \in DOMAIN rows'
                 /\ call'[d].pc \in {"record", "return"} => call'[d].row \in DOMAIN issued'
                 /\ call'[d].pc = "sign" => call'[d].to \in Providers
<1>1. call' \in [Calls -> CallType] /\ \A d \in Calls : d = c \/ call'[d] = call[d]
  BY EndEffect, GotoEffect
<1>2. \/ call'[c].pc = "idle"
      \/ call'[c].pc = "ask" /\ call'[c].row \in DOMAIN rows
      \/ call'[c].pc = "return" /\ call'[c].row \in DOMAIN issued
  BY EndEffect, GotoEffect DEF TypeOK
<1> QED
  BY <1>1, <1>2 DEF TypeOK

LEMMA PostType ==
    ASSUME TypeOK, NEW c \in Calls, UpsertProject(c) \/ NotifyContractSigners(c)
    PROVE  TypeOK'
<1>1. UNCHANGED <<rows, latest, issued, recorded, handed, signers, overlapped>>
  BY DEF UpsertProject, NotifyContractSigners, certVars
<1>2. faults' \in Nat
  BY FaultType DEF UpsertProject, NotifyContractSigners
<1>3. CASE UpsertProject(c)
  <2>1. call[c].pc = "project" /\ (Goto(c, "ask") \/ End(c))
    BY <1>3 DEF UpsertProject
  <2>2. call[c].row \in DOMAIN rows
    BY <2>1 DEF TypeOK
  <2>3. projects' \in Seq(DOMAIN rows)
    <3>1. projects \in Seq(DOMAIN rows)
      BY DEF TypeOK
    <3>2. Append(projects, call[c].row) \in Seq(DOMAIN rows)
      BY <2>2, <3>1, AppendFacts
    <3>3. projects' = Append(projects, call[c].row) \/ projects' = projects
      BY <1>3 DEF UpsertProject
    <3> QED
      BY <3>1, <3>2, <3>3
  <2>4. Goto(c, "return") => call[c].pc = "record"
    <3>1. SUFFICES ASSUME Goto(c, "return") PROVE FALSE
      OBVIOUS
    <3>2. call'[c].pc = "return"
      BY <3>1, GotoEffect
    <3> QED
      BY <2>1, <3>2, GotoEffect, EndEffect
  <2>5. /\ call' \in [Calls -> CallType]
        /\ \A d \in Calls :
              /\ call'[d].pc \in {"project", "ask", "mark", "sign"} => call'[d].row \in DOMAIN rows'
              /\ call'[d].pc \in {"record", "return"} => call'[d].row \in DOMAIN issued'
              /\ call'[d].pc = "sign" => call'[d].to \in Providers
    BY <1>1, <2>1, <2>4, MovesType
  <2>6. UNCHANGED asked
    BY <1>3 DEF UpsertProject
  <2> QED
    BY <1>1, <1>2, <2>3, <2>5, <2>6 DEF TypeOK
<1>4. CASE NotifyContractSigners(c)
  <2>1. call[c].pc = "ask" /\ End(c) /\ UNCHANGED projects
    BY <1>4 DEF NotifyContractSigners
  <2>2. call[c].row \in DOMAIN rows /\ call[c].roster \subseteq Providers
    BY <2>1 DEF TypeOK, CallType
  <2>3. asked' \subseteq (DOMAIN rows) \X Providers
    BY <1>4, <2>2 DEF NotifyContractSigners, ToAsk, TypeOK
  <2>4. call'[c].pc = "idle" /\ call' \in [Calls -> CallType]
        /\ \A d \in Calls : d = c \/ call'[d] = call[d]
    BY <2>1, EndEffect
  <2> QED
    BY <1>1, <1>2, <2>1, <2>3, <2>4 DEF TypeOK
<1> QED
  BY <1>3, <1>4

LEMMA StoreType ==
    ASSUME TypeOK, NEW c \in Calls, StoreMark(c) \/ StoreSignature(c)
    PROVE  TypeOK'
<1>1. call[c].pc \in {"mark", "sign"} /\ StoreDocument(c)
  BY DEF StoreMark, StoreSignature
<1>2. UNCHANGED <<projects, asked, issued, recorded, handed, overlapped, faults>>
  BY DEF StoreMark, StoreSignature, certVars
<1>3. /\ rows' \in Seq(RowType) /\ DOMAIN rows' = DOMAIN rows /\ Len(rows') = Len(rows)
      /\ call[c].row \in DOMAIN rows /\ latest' = call[c].row /\ End(c)
  BY <1>1, StoreEffect
<1>4. latest' \in 0..Len(rows')
  BY <1>3, SeqFacts DEF TypeOK
<1>5. signers' \subseteq (DOMAIN rows') \X Providers
  BY <1>3 DEF StoreMark, StoreSignature, TypeOK
<1>6. /\ call'[c].pc = "idle" /\ call' \in [Calls -> CallType]
      /\ \A d \in Calls : d = c \/ call'[d] = call[d]
  BY <1>3, EndEffect
<1> QED
  BY <1>2, <1>3, <1>4, <1>5, <1>6 DEF TypeOK

LEMMA CertType ==
    ASSUME TypeOK, NEW c \in Calls,
           (\E r \in DOMAIN rows : VerifyAndIssue(c, r)) \/ InsertGatewayCert(c) \/ ReturnCert(c)
    PROVE  TypeOK'
<1>1. UNCHANGED <<rows, latest, projects, asked, signers, faults>>
  BY DEF VerifyAndIssue, InsertGatewayCert, ReturnCert
<1>2. ASSUME NEW r \in DOMAIN rows, VerifyAndIssue(c, r) PROVE TypeOK'
  <2> DEFINE h == Handler("record", Len(issued) + 1, {}, FALSE, Unsigned, None)
  <2>1. issued' = Append(issued, r) /\ call' = [call EXCEPT ![c] = h] /\ UNCHANGED <<recorded, handed>>
    BY <1>2 DEF VerifyAndIssue
  <2>2. /\ issued' \in Seq(DOMAIN rows) /\ Len(issued) \in Nat
        /\ DOMAIN issued = 1..Len(issued) /\ DOMAIN issued' = 1 .. Len(issued) + 1
    BY <2>1, AppendFacts DEF TypeOK
  <2>3. h \in CallType /\ h.pc = "record" /\ h.row = Len(issued) + 1
    BY <2>2, UnsignedType DEF Handler, CallType
  <2> HIDE DEF h
  <2>4. /\ call' \in [Calls -> CallType] /\ call'[c] = h
        /\ \A d \in Calls : d = c \/ call'[d] = call[d]
    BY <2>1, <2>3, SetEffect
  <2>5. DOMAIN issued \subseteq DOMAIN issued' /\ Len(issued) + 1 \in DOMAIN issued'
    BY <2>2
  <2>6. \A d \in Calls :
          /\ call'[d].pc \in {"project", "ask", "mark", "sign"} => call'[d].row \in DOMAIN rows'
          /\ call'[d].pc \in {"record", "return"} => call'[d].row \in DOMAIN issued'
          /\ call'[d].pc = "sign" => call'[d].to \in Providers
    BY <1>1, <2>3, <2>4, <2>5, CallsTyped
  <2>7. overlapped' \in BOOLEAN
    BY <1>2, StartType DEF VerifyAndIssue
  <2>8. recorded' \subseteq DOMAIN issued' /\ handed' \subseteq DOMAIN issued'
    BY <2>1, <2>5 DEF TypeOK
  <2> QED
    BY <1>1, <2>2, <2>4, <2>6, <2>7, <2>8 DEF TypeOK
<1>3. CASE InsertGatewayCert(c)
  <2>1. call[c].pc = "record" /\ Goto(c, "return") /\ UNCHANGED <<issued, handed, overlapped>>
    BY <1>3 DEF InsertGatewayCert
  <2>2. recorded' \subseteq DOMAIN issued
    BY <1>3, <2>1 DEF InsertGatewayCert, TypeOK
  <2>3. /\ call' \in [Calls -> CallType] /\ call'[c].pc = "return" /\ call'[c].row = call[c].row
        /\ \A d \in Calls : d = c \/ call'[d] = call[d]
    BY <2>1, GotoEffect
  <2> QED
    BY <1>1, <2>1, <2>2, <2>3 DEF TypeOK
<1>4. CASE ReturnCert(c)
  <2>1. call[c].pc = "return" /\ End(c) /\ UNCHANGED <<issued, recorded, overlapped>>
    BY <1>4 DEF ReturnCert
  <2>2. handed' \subseteq DOMAIN issued
    BY <1>4, <2>1 DEF ReturnCert, TypeOK
  <2>3. /\ call' \in [Calls -> CallType] /\ call'[c].pc = "idle"
        /\ \A d \in Calls : d = c \/ call'[d] = call[d]
    BY <2>1, EndEffect
  <2> QED
    BY <1>1, <2>1, <2>2, <2>3 DEF TypeOK
<1> QED
  BY <1>2, <1>3, <1>4

LEMMA AbortType ==
    ASSUME TypeOK, NEW c \in Calls, Abort(c)
    PROVE  TypeOK'
<1>1. UNCHANGED <<rows, latest, projects, asked, issued, recorded, handed, signers, overlapped>>
  BY DEF Abort, certVars
<1>2. faults' \in Nat
  BY FaultType DEF Abort
<1>3. /\ call'[c].pc = "idle" /\ call' \in [Calls -> CallType]
      /\ \A d \in Calls : d = c \/ call'[d] = call[d]
  BY EndEffect DEF Abort
<1> QED
  BY <1>1, <1>2, <1>3 DEF TypeOK

\* Every step keeps the state well typed.
LEMMA TypeStep == TypeOK /\ [Next]_vars => TypeOK'
<1> SUFFICES ASSUME TypeOK, [Next]_vars PROVE TypeOK'
  OBVIOUS
<1>1. ASSUME NEW c \in Calls, NEW roster \in SUBSET Providers, NEW final \in BOOLEAN,
             BuildContract(c, roster, final)
      PROVE  TypeOK'
  BY <1>1, BuildType
<1>2. ASSUME NEW c \in Calls, NEW p \in Providers, Accept(c, p) PROVE TypeOK'
  BY <1>2, AcceptType
<1>3. ASSUME NEW c \in Calls, NEW r \in DOMAIN rows, NEW p \in Providers, SignContract(c, r, p)
      PROVE  TypeOK'
  BY <1>3, SignType
<1>4. ASSUME NEW c \in Calls, (\E r \in DOMAIN rows : VerifyAndIssue(c, r)) \/ CertStep(c)
      PROVE  TypeOK'
  BY <1>4, CertType DEF CertStep
<1>5. ASSUME NEW c \in Calls, PostStep(c) PROVE TypeOK'
  BY <1>5, StoreContractType, PostType DEF PostStep
<1>6. ASSUME NEW c \in Calls, SignStep(c) PROVE TypeOK'
  BY <1>6, StoreType DEF SignStep
<1>7. ASSUME NEW c \in Calls, Abort(c) PROVE TypeOK'
  BY <1>7, AbortType
<1>8. CASE UNCHANGED vars
  BY <1>8 DEF vars, TypeOK
<1> QED
  BY <1>1, <1>2, <1>3, <1>4, <1>5, <1>6, <1>7, <1>8 DEF Next

(***************************************************************************)
(* The inductive invariant                                                 *)
(***************************************************************************)
\* A signature on a row, or on a copy about to be written, was stored or is
\* the one its handler is about to store.
SignaturesStored ==
    /\ \A r \in DOMAIN rows, p \in Providers : rows[r].sig[p] = "signed" => <<r, p>> \in signers
    /\ \A c \in Calls, p \in Providers :
          (call[c].pc \in {"store", "mark", "sign"} /\ call[c].sig[p] = "signed") =>
              \/ call[c].pc # "store" /\ <<call[c].row, p>> \in signers
              \/ call[c].pc = "sign" /\ p = call[c].to

\* While handlers run one at a time, the copy about to be written has every
\* mark and signature of its row.
Alone ==
    ~overlapped => \A c, d \in Calls : (call[c].pc # "idle" /\ call[d].pc # "idle") => c = d
CopiesFresh ==
    ~overlapped => \A c \in Calls, p \in Providers :
        call[c].pc \in {"mark", "sign"} =>
            /\ rows[call[c].row].sig[p] = "signed" => call[c].sig[p] = "signed"
            /\ rows[call[c].row].sig[p] = "marker" => call[c].sig[p] # "none"

\* What a serial is returned for is on record.
RecordedFirst == \A c \in Calls : call[c].pc = "return" => call[c].row \in recorded

IInv ==
    /\ TypeOK /\ SignaturesStored /\ Alone /\ CopiesFresh /\ RecordedFirst
    /\ CertNamesSignedRoster

\* What a handler may do next.
ActionOf(c) ==
    \/ \E roster \in SUBSET Providers, final \in BOOLEAN : BuildContract(c, roster, final)
    \/ \E p \in Providers : Accept(c, p)
    \/ \E r \in DOMAIN rows, p \in Providers : SignContract(c, r, p)
    \/ \E r \in DOMAIN rows : VerifyAndIssue(c, r)
    \/ PostStep(c) \/ SignStep(c) \/ CertStep(c) \/ Abort(c)

LEMMA InitInv == Init => IInv
<1> SUFFICES ASSUME Init PROVE IInv
  OBVIOUS
<1>1. TypeOK
  BY InitType
<1>2. rows = <<>> /\ issued = <<>> /\ handed = {} /\ recorded = {}
  BY DEF Init
<1>3. \A c \in Calls : call[c].pc = "idle"
  BY IdleType DEF Init
<1>4. DOMAIN rows = {} /\ DOMAIN issued = {}
  BY <1>2
<1> QED
  BY <1>1, <1>2, <1>3, <1>4
  DEF IInv, SignaturesStored, Alone, CopiesFresh, RecordedFirst, CertNamesSignedRoster

\* The handlers that go on without writing a document: rows stay, and c is
\* left with no copy to write.
Passes(c) ==
    UpsertProject(c) \/ NotifyContractSigners(c) \/ CertStep(c) \/ Abort(c)

LEMMA PassEffect ==
    ASSUME TypeOK, NEW c \in Calls, Passes(c)
    PROVE  /\ UNCHANGED <<rows, issued, signers, overlapped>>
           /\ call'[c].pc \in {"idle", "ask", "return"}
           /\ \A d \in Calls : d = c \/ call'[d] = call[d]
           /\ call'[c].pc # "idle" => call[c].pc # "idle"
<1>1. UNCHANGED <<rows, issued, signers, overlapped>>
  BY DEF Passes, UpsertProject, NotifyContractSigners, CertStep, InsertGatewayCert, ReturnCert,
         Abort, certVars
<1>2. \/ End(c)
      \/ call[c].pc = "project" /\ Goto(c, "ask")
      \/ call[c].pc = "record" /\ Goto(c, "return")
  BY DEF Passes, UpsertProject, NotifyContractSigners, CertStep, InsertGatewayCert, ReturnCert, Abort
<1> QED
  BY <1>1, <1>2, EndEffect, GotoEffect

\* A handler that starts has been idle, and overlaps with the ones in flight.
LEMMA StartEffect ==
    ASSUME TypeOK, NEW c \in Calls, Start(c)
    PROVE  ~overlapped' => ~overlapped /\ \A d \in Calls : call[d].pc = "idle"
  BY IdleType DEF Start

LEMMA BuildEffect ==
    ASSUME TypeOK, NEW c \in Calls, NEW roster \in SUBSET Providers, NEW final \in BOOLEAN,
           BuildContract(c, roster, final)
    PROVE  /\ UNCHANGED <<rows, latest, issued, recorded, handed, signers>> /\ Start(c)
           /\ call'[c].pc = "store" /\ \A p \in Providers : call'[c].sig[p] # "signed"
           /\ \A d \in Calls : d = c \/ call'[d] = call[d]
<1>1. PICK carry : call' = [call EXCEPT ![c] = Handler("store", 0, roster, final,
          [p \in Providers |-> IF p \in carry \cap roster THEN "marker" ELSE "none"], None)]
  BY DEF BuildContract
<1> DEFINE sig == [p \in Providers |-> IF p \in carry \cap roster THEN "marker" ELSE "none"]
           h == Handler("store", 0, roster, final, sig, None)
<1>2. sig \in [Providers -> Marks] /\ \A p \in Providers : sig[p] # "signed"
  BY DEF Marks
<1>3. call' = [call EXCEPT ![c] = h]
  BY <1>1
<1> HIDE DEF sig
<1>4. h \in CallType /\ h.pc = "store" /\ h.sig = sig
  BY <1>2 DEF Handler, CallType
<1> HIDE DEF h
<1>5. call'[c] = h /\ \A d \in Calls : d = c \/ call'[d] = call[d]
  BY <1>3, <1>4, SetEffect
<1>6. UNCHANGED <<rows, latest, issued, recorded, handed, signers>> /\ Start(c)
  BY DEF BuildContract, certVars
<1> QED
  BY <1>2, <1>4, <1>5, <1>6

\* The copy that Accept or SignContract makes of a row it read.
LEMMA CopyEffect ==
    ASSUME TypeOK, NEW c \in Calls,
           \/ \E p \in Providers : Accept(c, p)
           \/ \E r \in DOMAIN rows, p \in Providers : SignContract(c, r, p)
    PROVE  /\ UNCHANGED <<rows, latest, issued, recorded, handed, signers>> /\ Start(c)
           /\ call'[c].pc \in {"mark", "sign"} /\ call'[c].row \in DOMAIN rows
           /\ \A p \in Providers :
                 LET was == rows[call'[c].row].sig[p]
                 IN  \/ call'[c].sig[p] = was
                     \/ call'[c].sig[p] = "marker" /\ was = "none"
                     \/ call'[c].sig[p] = "signed" /\ call'[c].pc = "sign" /\ p = call'[c].to
           /\ \A d \in Calls : d = c \/ call'[d] = call[d]
<1>1. ASSUME NEW p \in Providers, Accept(c, p)
      PROVE  /\ call'[c].pc = "mark" /\ call'[c].row \in DOMAIN rows
             /\ \A q \in Providers :
                   \/ call'[c].sig[q] = rows[call'[c].row].sig[q]
                   \/ call'[c].sig[q] = "marker" /\ rows[call'[c].row].sig[q] = "none"
             /\ \A d \in Calls : d = c \/ call'[d] = call[d]
  <2>1. latest \in DOMAIN rows /\ rows[latest].sig[p] = "none"
    BY <1>1, SeqFacts DEF Accept, TypeOK
  <2> DEFINE sig == [rows[latest].sig EXCEPT ![p] = "marker"]
             h == Handler("mark", latest, {}, FALSE, sig, None)
  <2>2. /\ sig \in [Providers -> Marks] /\ latest \in Nat
        /\ \A q \in Providers : sig[q] = rows[latest].sig[q] \/ (sig[q] = "marker" /\ q = p)
    BY <2>1, RowFields DEF Marks
  <2>3. call' = [call EXCEPT ![c] = h]
    BY <1>1 DEF Accept
  <2> HIDE DEF sig
  <2>4. h \in CallType /\ h.pc = "mark" /\ h.row = latest /\ h.sig = sig
    BY <2>2 DEF Handler, CallType
  <2> HIDE DEF h
  <2>5. call'[c] = h /\ \A d \in Calls : d = c \/ call'[d] = call[d]
    BY <2>3, <2>4, SetEffect
  <2> QED
    BY <2>1, <2>2, <2>4, <2>5
<1>2. ASSUME NEW r \in DOMAIN rows, NEW p \in Providers, SignContract(c, r, p)
      PROVE  /\ call'[c].pc = "sign" /\ call'[c].row \in DOMAIN rows
             /\ \A q \in Providers :
                   \/ call'[c].sig[q] = rows[call'[c].row].sig[q]
                   \/ call'[c].sig[q] = "signed" /\ q = call'[c].to
             /\ \A d \in Calls : d = c \/ call'[d] = call[d]
  <2> DEFINE sig == [rows[r].sig EXCEPT ![p] = "signed"]
             h == Handler("sign", r, {}, FALSE, sig, p)
  <2>2. /\ sig \in [Providers -> Marks] /\ r \in Nat
        /\ \A q \in Providers : sig[q] = rows[r].sig[q] \/ (sig[q] = "signed" /\ q = p)
    BY RowFields DEF Marks
  <2>3. call' = [call EXCEPT ![c] = h]
    BY <1>2 DEF SignContract
  <2> HIDE DEF sig
  <2>4. h \in CallType /\ h.pc = "sign" /\ h.row = r /\ h.sig = sig /\ h.to = p
    BY <2>2 DEF Handler, CallType
  <2> HIDE DEF h
  <2>5. call'[c] = h /\ \A d \in Calls : d = c \/ call'[d] = call[d]
    BY <2>3, <2>4, SetEffect
  <2> QED
    BY <2>2, <2>4, <2>5
<1>3. UNCHANGED <<rows, latest, issued, recorded, handed, signers>> /\ Start(c)
  BY DEF Accept, SignContract, certVars
<1> QED
  BY <1>1, <1>2, <1>3

\* A new contract joins the others; the handler has no document left.
LEMMA AddEffect ==
    ASSUME TypeOK, NEW c \in Calls, StoreContract(c)
    PROVE  LET n == Len(rows) + 1 IN
           /\ UNCHANGED <<issued, recorded, handed, signers, overlapped>>
           /\ call[c].pc = "store" /\ call'[c].pc = "project"
           /\ \A d \in Calls : d = c \/ call'[d] = call[d]
           /\ n \notin DOMAIN rows /\ DOMAIN rows' = DOMAIN rows \cup {n}
           /\ rows'[n].sig = call[c].sig
           /\ \A r \in DOMAIN rows : rows'[r] = rows[r]
<1> DEFINE n == Len(rows)
           new == Row(call[c].final, call[c].roster, call[c].sig)
           h == Handler("project", n + 1, call[c].roster, call[c].final, Unsigned, None)
<1>1. new \in RowType /\ rows \in Seq(RowType) /\ n \in Nat /\ new.sig = call[c].sig
  BY SeqFacts DEF Row, RowType, TypeOK, CallType
<1>2. rows' = Append(rows, new) /\ call' = [call EXCEPT ![c] = h]
  BY DEF StoreContract
<1>3. h \in CallType /\ h.pc = "project"
  BY <1>1, UnsignedType DEF Handler, CallType, TypeOK
<1> HIDE DEF new, h
<1>4. call'[c] = h /\ \A d \in Calls : d = c \/ call'[d] = call[d]
  BY <1>2, <1>3, SetEffect
<1>5. /\ DOMAIN rows = 1..n /\ DOMAIN rows' = 1 .. n + 1 /\ rows'[n + 1] = new
      /\ \A r \in 1..n : rows'[r] = rows[r]
  BY <1>1, <1>2, AppendFacts
<1>6. n + 1 \notin DOMAIN rows /\ DOMAIN rows' = DOMAIN rows \cup {n + 1}
  BY <1>1, <1>5
<1>7. UNCHANGED <<issued, recorded, handed, signers, overlapped>> /\ call[c].pc = "store"
  BY DEF StoreContract, certVars
<1> QED
  BY <1>1, <1>3, <1>4, <1>5, <1>6, <1>7

\* A certificate is issued for a final row that everybody on it signed.
LEMMA IssueEffect ==
    ASSUME TypeOK, NEW c \in Calls, NEW r \in DOMAIN rows, VerifyAndIssue(c, r)
    PROVE  LET n == Len(issued) + 1 IN
           /\ UNCHANGED <<rows, recorded, handed, signers>> /\ Start(c)
           /\ call'[c].pc = "record"
           /\ \A d \in Calls : d = c \/ call'[d] = call[d]
           /\ DOMAIN issued' = DOMAIN issued \cup {n} /\ issued'[n] = r
           /\ \A s \in DOMAIN issued : issued'[s] = issued[s]
           /\ rows[r].final /\ AllSigned(r)
<1> DEFINE n == Len(issued)
           h == Handler("record", n + 1, {}, FALSE, Unsigned, None)
<1>1. /\ issued' = Append(issued, r) /\ call' = [call EXCEPT ![c] = h]
      /\ UNCHANGED <<rows, recorded, handed, signers>> /\ Start(c)
      /\ rows[r].final /\ AllSigned(r)
  BY DEF VerifyAndIssue, Signable
<1>2. issued \in Seq(DOMAIN rows) /\ n \in Nat
  BY SeqFacts DEF TypeOK
<1>3. h \in CallType /\ h.pc = "record"
  BY <1>2, UnsignedType DEF Handler, CallType
<1> HIDE DEF h
<1>4. call'[c] = h /\ \A d \in Calls : d = c \/ call'[d] = call[d]
  BY <1>1, <1>3, SetEffect
<1>5. /\ DOMAIN issued = 1..n /\ DOMAIN issued' = 1 .. n + 1 /\ issued'[n + 1] = r
      /\ \A s \in 1..n : issued'[s] = issued[s]
  BY <1>1, <1>2, AppendFacts
<1>6. DOMAIN issued' = DOMAIN issued \cup {n + 1}
  BY <1>2, <1>5
<1> QED
  BY <1>1, <1>3, <1>4, <1>5, <1>6

\* A written document, and what its handler adds to the history.
LEMMA WriteEffect ==
    ASSUME TypeOK, NEW c \in Calls, SignStep(c)
    PROVE  LET r == call[c].row IN
           /\ UNCHANGED <<issued, recorded, handed, overlapped>>
           /\ call[c].pc \in {"mark", "sign"} /\ call'[c].pc = "idle"
           /\ \A d \in Calls : d = c \/ call'[d] = call[d]
           /\ r \in DOMAIN rows /\ DOMAIN rows' = DOMAIN rows
           /\ rows'[r].final = rows[r].final /\ rows'[r].roster = rows[r].roster
           /\ rows'[r].sig = call[c].sig
           /\ \A q \in DOMAIN rows : q = r \/ rows'[q] = rows[q]
           /\ signers \subseteq signers'
           /\ call[c].pc = "sign" => <<r, call[c].to>> \in signers'
<1>1. call[c].pc \in {"mark", "sign"} /\ StoreDocument(c)
  BY DEF SignStep, StoreMark, StoreSignature
<1>2. /\ UNCHANGED <<issued, recorded, handed, overlapped>>
      /\ signers \subseteq signers'
      /\ call[c].pc = "sign" => <<call[c].row, call[c].to>> \in signers'
  BY DEF SignStep, StoreMark, StoreSignature, certVars
<1>3. End(c)
  BY <1>1, StoreEffect
<1> QED
  BY <1>1, <1>2, <1>3, StoreEffect, EndEffect

\* The forms a step takes.
LEMMA StepForms ==
    ASSUME NEW c \in Calls, ActionOf(c)
    PROVE  \/ \E roster \in SUBSET Providers, final \in BOOLEAN : BuildContract(c, roster, final)
           \/ (\E p \in Providers : Accept(c, p))
              \/ (\E r \in DOMAIN rows, p \in Providers : SignContract(c, r, p))
           \/ \E r \in DOMAIN rows : VerifyAndIssue(c, r)
           \/ StoreContract(c) \/ SignStep(c) \/ Passes(c)
  BY DEF ActionOf, PostStep, Passes

LEMMA StoredStep ==
    ASSUME TypeOK, SignaturesStored, NEW c \in Calls, ActionOf(c)
    PROVE  SignaturesStored'
<1>1. ASSUME UNCHANGED <<rows, signers>>, \A d \in Calls : d = c \/ call'[d] = call[d],
             \A p \in Providers :
                 (call'[c].pc \in {"store", "mark", "sign"} /\ call'[c].sig[p] = "signed") =>
                     \/ call'[c].pc # "store" /\ <<call'[c].row, p>> \in signers
                     \/ call'[c].pc = "sign" /\ p = call'[c].to
      PROVE  SignaturesStored'
  BY <1>1 DEF SignaturesStored
<1>2. ASSUME NEW roster \in SUBSET Providers, NEW final \in BOOLEAN,
             BuildContract(c, roster, final)
      PROVE  SignaturesStored'
  BY <1>1, <1>2, BuildEffect
<1>3. ASSUME (\E p \in Providers : Accept(c, p))
             \/ (\E r \in DOMAIN rows, p \in Providers : SignContract(c, r, p))
      PROVE  SignaturesStored'
  <2>1. UNCHANGED <<rows, signers>> /\ \A d \in Calls : d = c \/ call'[d] = call[d]
    BY <1>3, CopyEffect
  <2>2. ASSUME NEW p \in Providers, call'[c].sig[p] = "signed"
        PROVE  \/ call'[c].pc # "store" /\ <<call'[c].row, p>> \in signers
               \/ call'[c].pc = "sign" /\ p = call'[c].to
    <3>1. \/ rows[call'[c].row].sig[p] = "signed"
          \/ call'[c].pc = "sign" /\ p = call'[c].to
      BY <1>3, <2>2, CopyEffect
    <3>2. call'[c].row \in DOMAIN rows /\ call'[c].pc # "store"
      BY <1>3, CopyEffect
    <3> QED
      BY <3>1, <3>2 DEF SignaturesStored
  <2> QED
    BY <1>1, <2>1, <2>2
<1>4. ASSUME NEW r \in DOMAIN rows, VerifyAndIssue(c, r) PROVE SignaturesStored'
  BY <1>1, <1>4, IssueEffect
<1>5. ASSUME \A d \in Calls : d = c \/ call'[d] = call[d],
             call'[c].pc \in {"idle", "project"}, signers \subseteq signers',
             \A r \in DOMAIN rows', p \in Providers :
                 rows'[r].sig[p] = "signed" => <<r, p>> \in signers'
      PROVE  SignaturesStored'
  <2>1. ASSUME NEW d \in Calls, NEW p \in Providers,
               call'[d].pc \in {"store", "mark", "sign"}, call'[d].sig[p] = "signed"
        PROVE  \/ call'[d].pc # "store" /\ <<call'[d].row, p>> \in signers'
               \/ call'[d].pc = "sign" /\ p = call'[d].to
    <3>1. call'[d] = call[d]
      BY <1>5, <2>1
    <3> QED
      BY <1>5, <2>1, <3>1 DEF SignaturesStored
  <2> QED
    BY <1>5, <2>1 DEF SignaturesStored
<1>6. CASE StoreContract(c)
  <2>1. \A p \in Providers : call[c].sig[p] # "signed"
    BY <1>6, AddEffect DEF SignaturesStored
  <2>2. ASSUME NEW r \in DOMAIN rows', NEW p \in Providers, rows'[r].sig[p] = "signed"
        PROVE  <<r, p>> \in signers'
    <3>1. r \in DOMAIN rows /\ rows'[r] = rows[r]
      BY <1>6, <2>1, <2>2, AddEffect
    <3>2. signers' = signers
      BY <1>6, AddEffect
    <3> QED
      BY <2>2, <3>1, <3>2 DEF SignaturesStored
  <2>3. /\ \A d \in Calls : d = c \/ call'[d] = call[d]
        /\ call'[c].pc \in {"idle", "project"} /\ signers \subseteq signers'
    BY <1>6, AddEffect
  <2> QED
    BY <1>5, <2>2, <2>3
<1>7. CASE SignStep(c)
  <2> DEFINE w == call[c].row
  <2>1. /\ call[c].pc \in {"mark", "sign"} /\ signers \subseteq signers'
        /\ call[c].pc = "sign" => <<w, call[c].to>> \in signers'
    BY <1>7, WriteEffect
  <2>2. ASSUME NEW p \in Providers, call[c].sig[p] = "signed"
        PROVE  <<w, p>> \in signers'
    <3>1. <<w, p>> \in signers \/ (call[c].pc = "sign" /\ p = call[c].to)
      BY <2>1, <2>2 DEF SignaturesStored
    <3> QED
      BY <2>1, <3>1
  <2>3. ASSUME NEW r \in DOMAIN rows', NEW p \in Providers, rows'[r].sig[p] = "signed"
        PROVE  <<r, p>> \in signers'
    <3>1. r \in DOMAIN rows /\ (r = w \/ rows'[r] = rows[r]) /\ rows'[w].sig = call[c].sig
      BY <1>7, WriteEffect
    <3>2. CASE r = w
      BY <2>2, <2>3, <3>1, <3>2
    <3>3. CASE rows'[r] = rows[r]
      BY <2>1, <2>3, <3>1, <3>3 DEF SignaturesStored
    <3> QED
      BY <3>1, <3>2, <3>3
  <2>4. call'[c].pc \in {"idle", "project"} /\ \A d \in Calls : d = c \/ call'[d] = call[d]
    BY <1>7, WriteEffect
  <2> QED
    BY <1>5, <2>1, <2>3, <2>4
<1>8. CASE Passes(c)
  BY <1>1, <1>8, PassEffect
<1> QED
  BY <1>2, <1>3, <1>4, <1>6, <1>7, <1>8, StepForms

LEMMA AloneStep ==
    ASSUME TypeOK, Alone, NEW c \in Calls, ActionOf(c)
    PROVE  Alone'
<1>1. ASSUME Start(c), \A d \in Calls : d = c \/ call'[d] = call[d]
      PROVE  Alone'
  BY <1>1, StartEffect DEF Alone
<1>2. ASSUME UNCHANGED overlapped, \A d \in Calls : d = c \/ call'[d] = call[d],
             call'[c].pc # "idle" => call[c].pc # "idle"
      PROVE  Alone'
  BY <1>2 DEF Alone
<1>3. ASSUME NEW roster \in SUBSET Providers, NEW final \in BOOLEAN,
             BuildContract(c, roster, final)
      PROVE  Alone'
  BY <1>1, <1>3, BuildEffect
<1>4. ASSUME (\E p \in Providers : Accept(c, p))
             \/ (\E r \in DOMAIN rows, p \in Providers : SignContract(c, r, p))
      PROVE  Alone'
  BY <1>1, <1>4, CopyEffect
<1>5. ASSUME NEW r \in DOMAIN rows, VerifyAndIssue(c, r) PROVE Alone'
  BY <1>1, <1>5, IssueEffect
<1>6. CASE StoreContract(c)
  BY <1>2, <1>6, AddEffect
<1>7. CASE SignStep(c)
  BY <1>2, <1>7, WriteEffect
<1>8. CASE Passes(c)
  BY <1>2, <1>8, PassEffect
<1> QED
  BY <1>3, <1>4, <1>5, <1>6, <1>7, <1>8, StepForms

LEMMA FreshStep ==
    ASSUME TypeOK, Alone, CopiesFresh, NEW c \in Calls, ActionOf(c)
    PROVE  CopiesFresh'
<1> DEFINE Fresh(d) == \A p \in Providers :
        call[d].pc \in {"mark", "sign"} =>
            /\ rows[call[d].row].sig[p] = "signed" => call[d].sig[p] = "signed"
            /\ rows[call[d].row].sig[p] = "marker" => call[d].sig[p] # "none"
<1>1. ASSUME overlapped \/ UNCHANGED rows, overlapped' \/ ~overlapped, Fresh(c)',
             \A d \in Calls : d = c \/ call'[d] = call[d]
      PROVE  CopiesFresh'
  <2> SUFFICES ASSUME ~overlapped', NEW d \in Calls PROVE Fresh(d)'
    BY DEF CopiesFresh
  <2>1. CASE d = c
    BY <1>1, <2>1
  <2>2. CASE call'[d] = call[d]
    BY <1>1, <2>2 DEF CopiesFresh
  <2> QED
    BY <1>1, <2>1, <2>2
<1>2. ASSUME call[c].pc # "idle", call'[c].pc \in {"idle", "project"}, UNCHANGED overlapped,
             \A d \in Calls : d = c \/ call'[d] = call[d]
      PROVE  CopiesFresh'
  <2> SUFFICES ASSUME ~overlapped', NEW d \in Calls PROVE call'[d].pc \notin {"mark", "sign"}
    BY DEF CopiesFresh
  <2>1. d = c \/ call[d].pc = "idle"
    BY <1>2 DEF Alone
  <2> QED
    BY <1>2, <2>1
<1>3. ASSUME NEW roster \in SUBSET Providers, NEW final \in BOOLEAN,
             BuildContract(c, roster, final)
      PROVE  CopiesFresh'
  <2>1. UNCHANGED rows /\ call'[c].pc = "store" /\ \A d \in Calls : d = c \/ call'[d] = call[d]
    BY <1>3, BuildEffect
  <2>2. overlapped' \/ ~overlapped
    BY <1>3, BuildEffect, StartEffect
  <2> QED
    BY <1>1, <2>1, <2>2
<1>4. ASSUME (\E p \in Providers : Accept(c, p))
             \/ (\E r \in DOMAIN rows, p \in Providers : SignContract(c, r, p))
      PROVE  CopiesFresh'
  <2>1. UNCHANGED rows /\ Start(c) /\ \A d \in Calls : d = c \/ call'[d] = call[d]
    BY <1>4, CopyEffect
  <2>2. overlapped' \/ ~overlapped
    BY <2>1, StartEffect
  <2>3. \A p \in Providers :
           LET was == rows'[call'[c].row].sig[p]
           IN  call'[c].sig[p] = was \/ (call'[c].sig[p] = "marker" /\ was = "none")
               \/ call'[c].sig[p] = "signed"
    BY <1>4, CopyEffect
  <2>4. Fresh(c)'
    BY <2>3
  <2> QED
    BY <1>1, <2>1, <2>2, <2>4
<1>5. ASSUME NEW r \in DOMAIN rows, VerifyAndIssue(c, r) PROVE CopiesFresh'
  <2>1. UNCHANGED rows /\ call'[c].pc = "record" /\ \A d \in Calls : d = c \/ call'[d] = call[d]
    BY <1>5, IssueEffect
  <2>2. overlapped' \/ ~overlapped
    BY <1>5, IssueEffect, StartEffect
  <2> QED
    BY <1>1, <2>1, <2>2
<1>6. CASE StoreContract(c)
  BY <1>2, <1>6, AddEffect
<1>7. CASE SignStep(c)
  BY <1>2, <1>7, WriteEffect
<1>8. CASE Passes(c)
  <2>1. /\ UNCHANGED <<rows, overlapped>> /\ call'[c].pc \in {"idle", "ask", "return"}
        /\ \A d \in Calls : d = c \/ call'[d] = call[d]
    BY <1>8, PassEffect
  <2> QED
    BY <1>1, <2>1
<1> QED
  BY <1>3, <1>4, <1>5, <1>6, <1>7, <1>8, StepForms

LEMMA RecordedStep ==
    ASSUME TypeOK, RecordedFirst, NEW c \in Calls, ActionOf(c)
    PROVE  RecordedFirst'
<1>1. ASSUME recorded \subseteq recorded', \A d \in Calls : d = c \/ call'[d] = call[d],
             call'[c].pc = "return" => call'[c].row \in recorded'
      PROVE  RecordedFirst'
  BY <1>1 DEF RecordedFirst
<1>2. ASSUME NEW roster \in SUBSET Providers, NEW final \in BOOLEAN,
             BuildContract(c, roster, final)
      PROVE  RecordedFirst'
  BY <1>1, <1>2, BuildEffect
<1>3. ASSUME (\E p \in Providers : Accept(c, p))
             \/ (\E r \in DOMAIN rows, p \in Providers : SignContract(c, r, p))
      PROVE  RecordedFirst'
  BY <1>1, <1>3, CopyEffect
<1>4. ASSUME NEW r \in DOMAIN rows, VerifyAndIssue(c, r) PROVE RecordedFirst'
  BY <1>1, <1>4, IssueEffect
<1>5. CASE StoreContract(c)
  BY <1>1, <1>5, AddEffect
<1>6. CASE SignStep(c)
  BY <1>1, <1>6, WriteEffect
<1>7. CASE InsertGatewayCert(c)
  <2>1. recorded' = recorded \cup {call[c].row} /\ Goto(c, "return")
    BY <1>7 DEF InsertGatewayCert
  <2> QED
    BY <1>1, <2>1, GotoEffect
<1>8. CASE UpsertProject(c) \/ NotifyContractSigners(c) \/ ReturnCert(c) \/ Abort(c)
  <2>1. UNCHANGED recorded /\ (End(c) \/ Goto(c, "ask"))
    BY <1>8 DEF UpsertProject, NotifyContractSigners, ReturnCert, Abort, certVars
  <2> QED
    BY <1>1, <2>1, EndEffect, GotoEffect
<1> QED
  BY <1>2, <1>3, <1>4, <1>5, <1>6, <1>7, <1>8, StepForms DEF Passes, CertStep

\* What a stored contract says, and the signatures that were stored, stay.
LEMMA RowsKept ==
    ASSUME TypeOK, NEW c \in Calls, ActionOf(c)
    PROVE  /\ DOMAIN rows \subseteq DOMAIN rows' /\ signers \subseteq signers'
           /\ \A r \in DOMAIN rows :
                 rows'[r].final = rows[r].final /\ rows'[r].roster = rows[r].roster
<1>1. CASE UNCHANGED <<rows, signers>>
  BY <1>1
<1>2. CASE StoreContract(c)
  BY <1>2, AddEffect
<1>3. CASE SignStep(c)
  BY <1>3, WriteEffect
<1> QED
  BY <1>1, <1>2, <1>3, StepForms, BuildEffect, CopyEffect, IssueEffect, PassEffect

LEMMA NamesStep ==
    ASSUME TypeOK, SignaturesStored, RecordedFirst, CertNamesSignedRoster,
           NEW c \in Calls, ActionOf(c)
    PROVE  CertNamesSignedRoster'
<1> DEFINE Named(s) == /\ rows[issued[s]].final /\ rows[issued[s]].roster # {}
                       /\ \A p \in rows[issued[s]].roster : <<issued[s], p>> \in signers
<1>1. \A s \in DOMAIN issued : issued[s] \in DOMAIN rows /\ Named(s)
  BY SeqFacts DEF TypeOK, CertNamesSignedRoster
<1>2. ASSUME NEW s \in DOMAIN issued, issued'[s] = issued[s] PROVE Named(s)'
  <2>1. issued[s] \in DOMAIN rows /\ Named(s)
    BY <1>1
  <2> QED
    BY <1>2, <2>1, RowsKept
<1>3. ASSUME NEW r \in DOMAIN rows, VerifyAndIssue(c, r) PROVE CertNamesSignedRoster'
  <2> DEFINE n == Len(issued) + 1
  <2>1. /\ DOMAIN issued' = DOMAIN issued \cup {n} /\ issued'[n] = r
        /\ UNCHANGED <<rows, signers, recorded, handed>>
        /\ \A s \in DOMAIN issued : issued'[s] = issued[s]
        /\ rows[r].final /\ AllSigned(r)
    BY <1>3, IssueEffect
  <2>2. rows[r].roster \subseteq Providers
    BY RowFields
  <2>3. rows[r].roster # {} /\ \A p \in rows[r].roster : <<r, p>> \in signers
    BY <2>1, <2>2 DEF AllSigned, SignaturesStored
  <2>4. ASSUME NEW s \in DOMAIN issued' PROVE Named(s)'
    <3>1. CASE s = n
      BY <2>1, <2>3, <3>1
    <3>2. CASE s \in DOMAIN issued
      BY <1>2, <2>1, <3>2
    <3> QED
      BY <2>1, <3>1, <3>2
  <2> QED
    BY <2>1, <2>4 DEF CertNamesSignedRoster
<1>4. ASSUME UNCHANGED issued, handed' \subseteq recorded' PROVE CertNamesSignedRoster'
  <2>1. \A s \in DOMAIN issued : Named(s)'
    BY <1>2, <1>4
  <2> QED
    BY <1>4, <2>1 DEF CertNamesSignedRoster
<1>5. CASE Passes(c)
  <2>1. UNCHANGED issued
    BY <1>5, PassEffect
  <2>2. \/ UNCHANGED handed /\ recorded \subseteq recorded'
        \/ ReturnCert(c)
    BY <1>5 DEF Passes, UpsertProject, NotifyContractSigners, CertStep, InsertGatewayCert, Abort,
                certVars
  <2>3. CASE ReturnCert(c)
    <3>1. /\ call[c].row \in recorded /\ UNCHANGED recorded
          /\ handed' = handed \cup {call[c].row}
      BY <2>3 DEF ReturnCert, RecordedFirst
    <3> QED
      BY <1>4, <2>1, <3>1 DEF CertNamesSignedRoster
  <2> QED
    BY <1>4, <2>1, <2>2, <2>3 DEF CertNamesSignedRoster
<1>6. UNCHANGED <<issued, recorded, handed>> => CertNamesSignedRoster'
  BY <1>4 DEF CertNamesSignedRoster
<1> QED
  BY <1>3, <1>5, <1>6, StepForms, BuildEffect, CopyEffect, AddEffect, WriteEffect

LEMMA StutterInv == IInv /\ UNCHANGED vars => IInv'
<1> SUFFICES ASSUME IInv, UNCHANGED vars PROVE IInv'
  OBVIOUS
<1>1. TypeOK'
  BY TypeStep DEF IInv
<1>2. SignaturesStored' /\ Alone' /\ CopiesFresh'
  BY DEF IInv, vars, SignaturesStored, Alone, CopiesFresh
<1>3. RecordedFirst' /\ CertNamesSignedRoster'
  BY DEF IInv, vars, RecordedFirst, CertNamesSignedRoster
<1> QED
  BY <1>1, <1>2, <1>3 DEF IInv

LEMMA InvStep == IInv /\ [Next]_vars => IInv'
<1>1. ASSUME IInv, NEW c \in Calls, ActionOf(c), Next PROVE IInv'
  <2>1. TypeOK'
    BY <1>1, TypeStep DEF IInv
  <2>2. SignaturesStored' /\ Alone' /\ CopiesFresh'
    BY <1>1, StoredStep, AloneStep, FreshStep DEF IInv
  <2>3. RecordedFirst' /\ CertNamesSignedRoster'
    BY <1>1, RecordedStep, NamesStep DEF IInv
  <2> QED
    BY <2>1, <2>2, <2>3 DEF IInv
<1>2. Next => \E c \in Calls : ActionOf(c)
  BY DEF Next, ActionOf
<1> QED
  BY <1>1, <1>2, StutterInv

\* A step of a state of the invariant only adds signatures.
LEMMA OnlySignStep ==
    ASSUME IInv, [Next]_vars, NEW r \in DOMAIN rows
    PROVE  /\ rows'[r].final = rows[r].final /\ rows'[r].roster = rows[r].roster
           /\ Sequential' => \A p \in Providers :
                 /\ rows[r].sig[p] = "signed" => rows'[r].sig[p] = "signed"
                 /\ rows[r].sig[p] = "marker" => rows'[r].sig[p] # "none"
<1>1. CASE UNCHANGED rows
  BY <1>1
<1>2. ASSUME NEW c \in Calls, ActionOf(c), Next
      PROVE  /\ rows'[r].final = rows[r].final /\ rows'[r].roster = rows[r].roster
             /\ Sequential' => \A p \in Providers :
                   /\ rows[r].sig[p] = "signed" => rows'[r].sig[p] = "signed"
                   /\ rows[r].sig[p] = "marker" => rows'[r].sig[p] # "none"
  <2>1. TypeOK /\ CopiesFresh
    BY DEF IInv
  <2>2. rows'[r].final = rows[r].final /\ rows'[r].roster = rows[r].roster
    BY <1>2, <2>1, RowsKept
  <2>3. CASE rows'[r] = rows[r]
    BY <2>3
  <2>4. CASE SignStep(c)
    <3>1. /\ call[c].pc \in {"mark", "sign"} /\ UNCHANGED overlapped
          /\ rows'[call[c].row].sig = call[c].sig
          /\ r = call[c].row \/ rows'[r] = rows[r]
      BY <2>1, <2>4, WriteEffect
    <3>2. ASSUME r = call[c].row, Sequential', NEW p \in Providers
          PROVE  /\ rows[r].sig[p] = "signed" => rows'[r].sig[p] = "signed"
                 /\ rows[r].sig[p] = "marker" => rows'[r].sig[p] # "none"
      BY <2>1, <3>1, <3>2 DEF CopiesFresh, Sequential
    <3> QED
      BY <2>2, <2>3, <3>1, <3>2
  <2>5. rows'[r] = rows[r] \/ SignStep(c)
    BY <1>2, <2>1, StepForms, BuildEffect, CopyEffect, IssueEffect, PassEffect, AddEffect
  <2> QED
    BY <2>2, <2>3, <2>4, <2>5
<1>3. Next => \E c \in Calls : ActionOf(c)
  BY DEF Next, ActionOf
<1> QED
  BY <1>1, <1>2, <1>3 DEF vars

(***************************************************************************)
(* Marks carried forward, and who is asked                                 *)
(***************************************************************************)
\* While handlers run one at a time and none fails, the second contract of a
\* session is built from every mark of the draft, and is then the one that is
\* marked and signed.
DraftCarried ==
    Clean =>
        /\ Len(rows) = 1 =>
              /\ latest = 1
              /\ \A c \in Calls : call[c].pc = "store" =>
                    \A p \in call[c].roster : rows[1].sig[p] # "none" => call[c].sig[p] # "none"
        /\ (Len(rows) = 2 /\ ~rows[1].final) =>
              /\ latest = 2
              /\ \A c \in Calls : call[c].pc \in {"mark", "sign"} => call[c].row = 2
              /\ \A p \in rows[1].roster \cap rows[2].roster :
                    rows[1].sig[p] # "none" => rows[2].sig[p] # "none"

\* As long as nothing fails, the handler that stored a final roster asks it.
ToBeAsked(r) == \E c \in Calls :
    /\ call[c].pc = "ask" \/ (call[c].pc = "project" /\ call[c].final)
    /\ call[c].row = r /\ call[c].roster = rows[r].roster

RostersAsked ==
    faults = 0 => \A r \in DOMAIN rows : rows[r].final =>
        ToBeAsked(r) \/ \A p \in rows[r].roster \cap Identified : <<r, p>> \in asked

\* A fault is never forgotten, nor that handlers overlapped.
LEMMA CleanBefore ==
    ASSUME TypeOK, NEW c \in Calls, ActionOf(c)
    PROVE  /\ faults' = 0 => faults = 0
           /\ ~overlapped' => ~overlapped
<1>1. faults' = faults \/ faults' = faults + 1
  BY DEF ActionOf, BuildContract, Accept, SignContract, VerifyAndIssue, PostStep, StoreContract,
         UpsertProject, NotifyContractSigners, SignStep, StoreMark, StoreSignature,
         CertStep, InsertGatewayCert, ReturnCert, Abort, Fault, NoFault
<1>2. overlapped' = overlapped \/ Start(c)
  BY DEF ActionOf, BuildContract, Accept, SignContract, VerifyAndIssue, PostStep, StoreContract,
         UpsertProject, NotifyContractSigners, SignStep, StoreMark, StoreSignature,
         CertStep, InsertGatewayCert, ReturnCert, Abort
<1>3. faults \in Nat /\ overlapped \in BOOLEAN
  BY DEF TypeOK
<1> QED
  BY <1>1, <1>2, <1>3, StartEffect

\* The row that a new contract is, and the handler that stored it.
LEMMA AddedRow ==
    ASSUME TypeOK, NEW c \in Calls, StoreContract(c)
    PROVE  LET n == Len(rows) + 1 IN
           /\ Len(rows') = n /\ latest' = n /\ UNCHANGED <<asked, faults>>
           /\ rows'[n].roster = call[c].roster /\ rows'[n].final = call[c].final
           /\ call'[c].row = n /\ call'[c].roster = call[c].roster
           /\ call'[c].final = call[c].final
<1> DEFINE n == Len(rows)
           new == Row(call[c].final, call[c].roster, call[c].sig)
           h == Handler("project", n + 1, call[c].roster, call[c].final, Unsigned, None)
<1>1. /\ new \in RowType /\ rows \in Seq(RowType) /\ n \in Nat
      /\ new.roster = call[c].roster /\ new.final = call[c].final
  BY SeqFacts DEF Row, RowType, TypeOK, CallType
<1>2. rows' = Append(rows, new) /\ call' = [call EXCEPT ![c] = h] /\ latest' = n + 1
  BY DEF StoreContract, Touch
<1>3. h \in CallType /\ h.row = n + 1 /\ h.roster = call[c].roster /\ h.final = call[c].final
  BY <1>1, UnsignedType DEF Handler, CallType, TypeOK
<1> HIDE DEF new, h
<1>4. call'[c] = h
  BY <1>2, <1>3, SetEffect
<1>5. Len(rows') = n + 1 /\ rows'[n + 1] = new
  BY <1>1, <1>2, AppendFacts
<1>6. UNCHANGED <<asked, faults>>
  BY DEF StoreContract
<1> QED
  BY <1>1, <1>2, <1>3, <1>4, <1>5, <1>6

\* A contract that is built without a fault carries every mark of the latest.
LEMMA CarriedMarks ==
    ASSUME TypeOK, NEW c \in Calls, NEW roster \in SUBSET Providers, NEW final \in BOOLEAN,
           BuildContract(c, roster, final), faults' = faults, latest # 0
    PROVE  /\ call'[c].roster = roster
           /\ \A p \in roster : rows[latest].sig[p] # "none" => call'[c].sig[p] # "none"
<1>1. PICK carry \in {{}, Carried} :
          /\ carry # Carried => Fault
          /\ call' = [call EXCEPT ![c] = Handler("store", 0, roster, final,
                 [p \in Providers |-> IF p \in carry \cap roster THEN "marker" ELSE "none"], None)]
  BY DEF BuildContract
<1>2. carry = Carried
  BY <1>1 DEF Fault, TypeOK
<1> DEFINE sig == [p \in Providers |-> IF p \in carry \cap roster THEN "marker" ELSE "none"]
           h == Handler("store", 0, roster, final, sig, None)
<1>3. sig \in [Providers -> Marks] /\ \A p \in roster \cap carry : sig[p] # "none"
  BY DEF Marks
<1>4. call' = [call EXCEPT ![c] = h]
  BY <1>1
<1> HIDE DEF sig
<1>5. h \in CallType /\ h.roster = roster /\ h.sig = sig
  BY <1>3 DEF Handler, CallType
<1> HIDE DEF h
<1>6. call'[c] = h
  BY <1>4, <1>5, SetEffect
<1> QED
  BY <1>2, <1>3, <1>5, <1>6 DEF Carried

\* Which row a copy is of.
LEMMA CopiedRow ==
    ASSUME TypeOK, NEW c \in Calls,
           \/ \E p \in Providers : Accept(c, p)
           \/ \E r \in DOMAIN rows, p \in Providers : SignContract(c, r, p)
    PROVE  call'[c].row = latest \/ rows[call'[c].row].final
<1>1. ASSUME NEW p \in Providers, Accept(c, p) PROVE call'[c].row = latest
  BY <1>1 DEF Accept, Handler, TypeOK
<1>2. ASSUME NEW r \in DOMAIN rows, NEW p \in Providers, SignContract(c, r, p)
      PROVE  call'[c].row = r /\ rows[r].final
  BY <1>2 DEF SignContract, Signable, Handler, TypeOK
<1> QED
  BY <1>1, <1>2

LEMMA DraftStep ==
    ASSUME TypeOK, Alone, CopiesFresh, DraftCarried, NEW c \in Calls, ActionOf(c)
    PROVE  DraftCarried'
<1> SUFFICES ASSUME Clean' PROVE DraftCarried'
  BY DEF DraftCarried
<1>1. Clean /\ faults' = faults /\ ~overlapped /\ ~overlapped'
  BY CleanBefore DEF Clean, Sequential
<1>2. DOMAIN rows = 1..Len(rows) /\ Len(rows) \in Nat
  BY SeqFacts DEF TypeOK
<1> DEFINE Draft == Len(rows) = 1
           Second == Len(rows) = 2 /\ ~rows[1].final
           Copied(d) == \A p \in call[d].roster : rows[1].sig[p] # "none" => call[d].sig[p] # "none"
           Kept == \A p \in rows[1].roster \cap rows[2].roster :
                       rows[1].sig[p] # "none" => rows[2].sig[p] # "none"
<1>3. /\ Draft => latest = 1 /\ \A d \in Calls : call[d].pc = "store" => Copied(d)
      /\ Second => latest = 2 /\ Kept /\ \A d \in Calls : call[d].pc \in {"mark", "sign"} => call[d].row = 2
  BY <1>1 DEF DraftCarried
<1>4. ASSUME UNCHANGED <<rows, latest>>, \A d \in Calls : d = c \/ call'[d] = call[d],
             (Draft /\ call'[c].pc = "store") => Copied(c)',
             (Second /\ call'[c].pc \in {"mark", "sign"}) => call'[c].row = 2
      PROVE  DraftCarried'
  BY <1>3, <1>4 DEF DraftCarried
<1>5. ASSUME NEW roster \in SUBSET Providers, NEW final \in BOOLEAN,
             BuildContract(c, roster, final)
      PROVE  DraftCarried'
  <2>1. /\ UNCHANGED <<rows, latest>> /\ call'[c].pc = "store"
        /\ \A d \in Calls : d = c \/ call'[d] = call[d]
    BY <1>5, BuildEffect
  <2>2. Draft => Copied(c)'
    BY <1>1, <1>3, <1>5, <2>1, CarriedMarks
  <2> QED
    BY <1>4, <2>1, <2>2
<1>6. ASSUME (\E p \in Providers : Accept(c, p))
             \/ (\E r \in DOMAIN rows, p \in Providers : SignContract(c, r, p))
      PROVE  DraftCarried'
  <2>1. /\ UNCHANGED <<rows, latest>> /\ call'[c].pc \in {"mark", "sign"} /\ call'[c].row \in DOMAIN rows
        /\ \A d \in Calls : d = c \/ call'[d] = call[d]
    BY <1>6, CopyEffect
  <2>2. Second => call'[c].row = 2
    BY <1>2, <1>3, <1>6, <2>1, CopiedRow
  <2> QED
    BY <1>4, <2>1, <2>2
<1>7. ASSUME NEW r \in DOMAIN rows, VerifyAndIssue(c, r) PROVE DraftCarried'
  <2>1. /\ UNCHANGED rows /\ call'[c].pc = "record" /\ \A d \in Calls : d = c \/ call'[d] = call[d]
    BY <1>7, IssueEffect
  <2>2. UNCHANGED latest
    BY <1>7 DEF VerifyAndIssue
  <2> QED
    BY <1>4, <2>1, <2>2
<1>8. CASE Passes(c)
  <2>1. /\ UNCHANGED rows /\ call'[c].pc \in {"idle", "ask", "return"}
        /\ \A d \in Calls : d = c \/ call'[d] = call[d]
    BY <1>8, PassEffect
  <2>2. UNCHANGED latest
    BY <1>8 DEF Passes, UpsertProject, NotifyContractSigners, CertStep, InsertGatewayCert, ReturnCert, Abort
  <2> QED
    BY <1>4, <2>1, <2>2
\* Nothing else is in flight beside a handler that writes.
<1>9. ASSUME call[c].pc # "idle", \A d \in Calls : d = c \/ call'[d] = call[d],
             call'[c].pc \in {"idle", "project"}
      PROVE  \A d \in Calls : call'[d].pc \notin {"store", "mark", "sign"}
  BY <1>1, <1>9 DEF Alone
<1>10. CASE StoreContract(c)
  <2> DEFINE n == Len(rows) + 1
  <2>1. /\ call[c].pc = "store" /\ call'[c].pc = "project" /\ rows'[n].sig = call[c].sig
        /\ \A d \in Calls : d = c \/ call'[d] = call[d]
        /\ \A r \in DOMAIN rows : rows'[r] = rows[r]
        /\ Len(rows') = n /\ latest' = n /\ rows'[n].roster = call[c].roster
    BY <1>10, AddEffect, AddedRow
  <2>2. \A d \in Calls : call'[d].pc \notin {"store", "mark", "sign"}
    BY <1>9, <2>1
  <2>3. ASSUME Len(rows') = 2 PROVE Kept'
    <3>0. Len(rows) = 1
      <4> DEFINE k == Len(rows)
                 m == Len(rows')
      <4>1. m = k + 1 /\ k \in Nat
        BY <1>2, <2>1
      <4>2. m = 2
        BY <2>3
      <4> HIDE DEF k, m
      <4>3. k = 1
        BY <4>1, <4>2
      <4> QED
        BY <4>3 DEF k
    <3>1. Draft /\ n = 2 /\ rows'[1] = rows[1]
      BY <1>2, <2>1, <3>0
    <3>2. Copied(c)
      BY <1>3, <2>1, <3>1
    <3>3. rows'[2].sig = call[c].sig /\ rows'[2].roster = call[c].roster
      BY <2>1, <3>1
    <3> QED
      BY <3>1, <3>2, <3>3
  <2>4. (Len(rows') = 1 => latest' = 1) /\ (Len(rows') = 2 => latest' = 2)
    BY <2>1
  <2> QED
    BY <2>2, <2>3, <2>4 DEF DraftCarried
<1>11. CASE SignStep(c)
  <2> DEFINE w == call[c].row
  <2>1. /\ call[c].pc \in {"mark", "sign"} /\ call'[c].pc = "idle"
        /\ w \in DOMAIN rows /\ rows'[w].sig = call[c].sig
        /\ rows'[w].final = rows[w].final /\ rows'[w].roster = rows[w].roster
        /\ \A d \in Calls : d = c \/ call'[d] = call[d]
        /\ \A r \in DOMAIN rows : r = w \/ rows'[r] = rows[r]
    BY <1>11, WriteEffect
  <2>2. latest' = w /\ Len(rows') = Len(rows)
    BY <1>11, <2>1, StoreEffect DEF SignStep, StoreMark, StoreSignature
  <2>3. \A d \in Calls : call'[d].pc \notin {"store", "mark", "sign"}
    BY <1>9, <2>1
  <2>4. Len(rows') = 1 => latest' = 1
    BY <1>2, <2>1, <2>2
  <2>5. ASSUME Len(rows') = 2, ~rows'[1].final PROVE latest' = 2 /\ Kept'
    <3>1. Second
      BY <1>2, <2>1, <2>2, <2>5
    <3>2. w = 2 /\ rows'[1] = rows[1]
      BY <1>2, <1>3, <2>1, <3>1
    <3>3. ASSUME NEW p \in rows'[1].roster \cap rows'[2].roster, rows'[1].sig[p] # "none"
          PROVE  rows'[2].sig[p] # "none"
      <4>1. p \in rows[1].roster \cap rows[2].roster /\ rows[1].sig[p] # "none"
        BY <2>1, <3>2, <3>3
      <4>2. rows[2].sig[p] # "none" /\ p \in Providers
        BY <1>2, <1>3, <3>1, <4>1, RowFields
      <4>3. rows[2].sig[p] \in {"marker", "signed"}
        BY <2>1, <3>2, <4>2, RowFields DEF Marks
      <4>4. call[c].sig[p] # "none"
        BY <1>1, <2>1, <3>2, <4>2, <4>3 DEF CopiesFresh
      <4> QED
        BY <2>1, <3>2, <4>4
    <3> QED
      BY <2>2, <3>2, <3>3
  <2> QED
    BY <2>3, <2>4, <2>5 DEF DraftCarried
<1> QED
  BY <1>5, <1>6, <1>7, <1>8, <1>10, <1>11, StepForms

LEMMA AskedStep ==
    ASSUME TypeOK, RostersAsked, NEW c \in Calls, ActionOf(c)
    PROVE  RostersAsked'
<1> DEFINE Done(r) == \A p \in rows[r].roster \cap Identified : <<r, p>> \in asked
<1> SUFFICES ASSUME faults' = 0, NEW r \in DOMAIN rows', rows'[r].final
             PROVE  ToBeAsked(r)' \/ Done(r)'
  BY DEF RostersAsked
<1>1. faults = 0 /\ faults' = faults
  BY CleanBefore
<1>2. asked \subseteq asked'
  BY DEF ActionOf, BuildContract, Accept, SignContract, VerifyAndIssue, PostStep, StoreContract,
         UpsertProject, NotifyContractSigners, SignStep, StoreMark, StoreSignature,
         CertStep, InsertGatewayCert, ReturnCert, Abort
<1>3. r \in DOMAIN rows =>
          /\ rows'[r].roster = rows[r].roster /\ rows[r].final
          /\ ToBeAsked(r) \/ Done(r)
  BY <1>1, RowsKept DEF RostersAsked
<1>4. ASSUME r \in DOMAIN rows, \A d \in Calls : d = c \/ call'[d] = call[d],
             call[c].pc \notin {"ask", "project"}
      PROVE  ToBeAsked(r)' \/ Done(r)'
  BY <1>2, <1>3, <1>4 DEF ToBeAsked
<1>5. CASE r \notin DOMAIN rows
  <2>1. CASE StoreContract(c)
    <3>1. r = Len(rows) + 1
      BY <1>5, <2>1, AddEffect
    <3>2. /\ rows'[r].roster = call[c].roster /\ rows'[r].final = call[c].final
          /\ call'[c].pc = "project" /\ call'[c].row = r /\ call'[c].roster = call[c].roster
          /\ call'[c].final = call[c].final
      BY <2>1, <3>1, AddEffect, AddedRow
    <3> QED
      BY <3>2 DEF ToBeAsked
  <2>2. ~StoreContract(c) => DOMAIN rows' = DOMAIN rows
    BY StepForms, BuildEffect, CopyEffect, IssueEffect, PassEffect, WriteEffect
  <2> QED
    BY <1>5, <2>1, <2>2
<1>6. CASE r \in DOMAIN rows
  <2>1. ASSUME Start(c), \A d \in Calls : d = c \/ call'[d] = call[d]
        PROVE  ToBeAsked(r)' \/ Done(r)'
    BY <1>4, <1>6, <2>1, IdleType DEF Start
  <2>2. CASE SignStep(c)
    BY <1>4, <1>6, <2>2, WriteEffect
  <2>3. CASE StoreContract(c)
    BY <1>4, <1>6, <2>3, AddEffect
  <2>4. CASE UpsertProject(c)
    <3>1. call[c].pc = "project" /\ IF call[c].final THEN Goto(c, "ask") ELSE End(c)
      BY <2>4 DEF UpsertProject
    <3>2. \A d \in Calls : d = c \/ call'[d] = call[d]
      BY <3>1, GotoEffect, EndEffect
    <3>3. call[c].final => call'[c] = [call[c] EXCEPT !.pc = "ask"]
      BY <3>1 DEF Goto, TypeOK
    <3>4. call[c].final => /\ call'[c].pc = "ask" /\ call'[c].row = call[c].row
                           /\ call'[c].roster = call[c].roster
      BY <3>3 DEF TypeOK, CallType
    <3>5. CASE Done(r)
      BY <1>2, <1>3, <1>6, <3>5
    <3>6. ASSUME NEW d \in Calls, call[d].pc = "ask" \/ (call[d].pc = "project" /\ call[d].final),
                 call[d].row = r, call[d].roster = rows[r].roster
          PROVE  ToBeAsked(r)'
      <4>1. CASE d = c
        BY <1>3, <1>6, <3>1, <3>4, <3>6, <4>1 DEF ToBeAsked
      <4>2. CASE d # c
        BY <1>3, <1>6, <3>2, <3>6, <4>2 DEF ToBeAsked
      <4> QED
        BY <4>1, <4>2
    <3> QED
      BY <1>3, <1>6, <3>5, <3>6 DEF ToBeAsked
  <2>5. CASE NotifyContractSigners(c)
    <3>1. call[c].pc = "ask" /\ End(c)
      BY <2>5 DEF NotifyContractSigners
    <3>2. asked' = asked \cup ({call[c].row} \X (call[c].roster \cap Identified))
      BY <1>1, <2>5 DEF NotifyContractSigners, ToAsk, Fault, TypeOK
    <3>3. \A d \in Calls : d = c \/ call'[d] = call[d]
      BY <3>1, EndEffect
    <3>4. CASE Done(r)
      BY <1>2, <1>3, <1>6, <3>4
    <3>5. ASSUME NEW d \in Calls, call[d].pc = "ask" \/ (call[d].pc = "project" /\ call[d].final),
                 call[d].row = r, call[d].roster = rows[r].roster
          PROVE  ToBeAsked(r)' \/ Done(r)'
      <4>1. CASE d = c
        BY <1>3, <1>6, <3>2, <3>5, <4>1
      <4>2. CASE d # c
        BY <1>3, <1>6, <3>3, <3>5, <4>2 DEF ToBeAsked
      <4> QED
        BY <4>1, <4>2
    <3> QED
      BY <1>3, <1>6, <3>4, <3>5 DEF ToBeAsked
  <2>6. CASE CertStep(c)
    <3>1. call[c].pc \in {"record", "return"} /\ (Goto(c, "return") \/ End(c))
      BY <2>6 DEF CertStep, InsertGatewayCert, ReturnCert
    <3> QED
      BY <1>4, <1>6, <3>1, GotoEffect, EndEffect
  <2>7. ~Abort(c)
    BY <1>1 DEF Abort, Fault, TypeOK
  <2>8. (\E roster \in SUBSET Providers, final \in BOOLEAN : BuildContract(c, roster, final))
           => ToBeAsked(r)' \/ Done(r)'
    BY <2>1, BuildEffect
  <2>9. (\E p \in Providers : Accept(c, p)) \/ (\E q \in DOMAIN rows, p \in Providers : SignContract(c, q, p))
           => ToBeAsked(r)' \/ Done(r)'
    BY <2>1, CopyEffect
  <2>10. (\E q \in DOMAIN rows : VerifyAndIssue(c, q)) => ToBeAsked(r)' \/ Done(r)'
    BY <2>1, IssueEffect
  <2> QED
    BY <2>2, <2>3, <2>4, <2>5, <2>6, <2>7, <2>8, <2>9, <2>10, StepForms DEF Passes
<1> QED
  BY <1>5, <1>6

\* Before the first contract there is nothing to carry and nobody to ask.
LEMMA RosterInit == Init => DraftCarried /\ RostersAsked
  BY IdleType DEF Init, DraftCarried, RostersAsked

(***************************************************************************)
(* Theorems                                                                *)
(***************************************************************************)
\* Every value stays in its type, and every handler in flight names a contract
\* or a certificate there is (fl_contracts rows, gateway_certs serials).
THEOREM TypeCorrect == Spec => []TypeOK
<1>1. Init => TypeOK
  BY InitType
<1>2. TypeOK /\ [Next]_vars => TypeOK'
  BY TypeStep
<1> QED
  BY <1>1, <1>2, PTL DEF Spec

LEMMA Invariance == Spec => []IInv
<1>1. Init => IInv
  BY InitInv
<1>2. IInv /\ [Next]_vars => IInv'
  BY InvStep
<1> QED
  BY <1>1, <1>2, PTL DEF Spec

\* However many handlers overlap and fail, a gateway certificate names a final
\* roster that everybody on it signed, and is handed out only when it is on
\* record (postGatewayCert).
THEOREM Certificates == Spec => []CertNamesSignedRoster
<1>1. IInv => CertNamesSignedRoster
  BY DEF IInv
<1> QED
  BY <1>1, Invariance, PTL

\* Writing back a document read before (SignDataProviderParty, signContract)
\* never changes what a contract says, and loses no signature while handlers
\* run one at a time.
THEOREM OnlySign == Spec => WritesOnlySign
<1> DEFINE Kept(r) ==
        /\ rows'[r].final = rows[r].final /\ rows'[r].roster = rows[r].roster
        /\ Sequential' => \A p \in Providers :
              /\ rows[r].sig[p] = "signed" => rows'[r].sig[p] = "signed"
              /\ rows[r].sig[p] = "marker" => rows'[r].sig[p] # "none"
<1>1. IInv /\ [Next]_vars => [\A r \in DOMAIN rows : Kept(r)]_vars
  BY OnlySignStep
<1>2. Spec => [][\A r \in DOMAIN rows : Kept(r)]_vars
  BY <1>1, Invariance, PTL DEF Spec
<1> QED
  BY <1>2 DEF WritesOnlySign

LEMMA RosterInvariance == Spec => [](IInv /\ DraftCarried /\ RostersAsked)
<1> DEFINE RInv == IInv /\ DraftCarried /\ RostersAsked
<1>1. Init => RInv
  BY InitInv, RosterInit
<1>2. ASSUME RInv, NEW c \in Calls, ActionOf(c), Next PROVE RInv'
  <2>1. IInv'
    BY <1>2, InvStep
  <2>2. DraftCarried' /\ RostersAsked'
    BY <1>2, DraftStep, AskedStep DEF IInv
  <2> QED
    BY <2>1, <2>2
<1>3. RInv /\ UNCHANGED vars => RInv'
  <2> SUFFICES ASSUME RInv, UNCHANGED vars PROVE RInv'
    OBVIOUS
  <2>1. IInv'
    BY StutterInv
  <2>2. DraftCarried' /\ RostersAsked'
    BY DEF vars, DraftCarried, RostersAsked, ToBeAsked, Clean, Sequential
  <2> QED
    BY <2>1, <2>2
<1>4. Next => \E c \in Calls : ActionOf(c)
  BY DEF Next, ActionOf
<1>5. RInv /\ [Next]_vars => RInv'
  BY <1>2, <1>3, <1>4
<1> QED
  BY <1>1, <1>5, PTL DEF Spec

\* existingDataProviderSignatures carries every accept and signature of the
\* draft into the second contract, and notifyContractSigners asks everybody on
\* a final roster, carried forward or not.
THEOREM AcceptSurvives == Spec => []AcceptSurvivesFinalize
<1>1. ASSUME IInv, DraftCarried, RostersAsked PROVE AcceptSurvivesFinalize
  <2>1. ASSUME Clean, Len(rows) = 2, ~rows[1].final
        PROVE  \A p \in rows[1].roster \cap rows[2].roster :
                   rows[1].sig[p] # "none" => rows[2].sig[p] # "none"
    BY <1>1, <2>1 DEF DraftCarried
  <2>2. ASSUME Quiet, faults = 0, NEW r \in DOMAIN rows, rows[r].final
        PROVE  \A p \in rows[r].roster \cap Identified : <<r, p>> \in asked
    <3>1. ~ToBeAsked(r)
      BY <2>2, IdleType DEF Quiet, ToBeAsked
    <3> QED
      BY <1>1, <2>2, <3>1 DEF RostersAsked
  <2> QED
    BY <2>1, <2>2 DEF AcceptSurvivesFinalize
<1>2. IInv /\ DraftCarried /\ RostersAsked => AcceptSurvivesFinalize
  BY <1>1
<1> QED
  BY <1>2, RosterInvariance, PTL
===============================================================================
