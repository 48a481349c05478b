-------------------------- MODULE FLNegotiationProofs --------------------------
(***************************************************************************)
(* Proofs about FLNegotiation, for any providers, handlers in flight,      *)
(* notifications and failing calls.                                        *)
(***************************************************************************)
EXTENDS FLNegotiation, FiniteSetTheorems, SequenceTheorems, TLAPS

(***************************************************************************)
(* The inductive invariant                                                 *)
(***************************************************************************)
\* The asks to p among the notifications ns, and those of them in ds.
AsksIn(ns, p) == {i \in DOMAIN ns : ns[i].to = p /\ ns[i].kind \in Asks}
DeclinesIn(ns, ds, p) == ds \cap AsksIn(ns, p)

\* A handler that is about to send an ask.
Asking(h) == h.pc = "update" \/ (h.pc = "create" /\ h.kind = "request")

HasRecipient(h) == Asking(h) \/ h.pc \in {"respond", "declines", "remove", "tell"}

\* A warning is about a decline, a removal about two, and who is told of it
\* has not been told yet.
WellIn(h, ns, ds, rm) ==
    /\ HasRecipient(h) => h.to \in Providers
    /\ h.pc = "respond" =>
          h.note \in DOMAIN ns /\ ns[h.note].to = h.to /\ ns[h.note].kind \in Asks
    /\ (Asking(h) /\ h.final) => DeclinesIn(ns, ds, h.to) # {}
    /\ h.pc = "remove" => Cardinality(DeclinesIn(ns, ds, h.to)) >= 2
    /\ h.pc = "tell" =>
          /\ h.to \in rm
          /\ \A i \in DOMAIN ns : ns[i].kind = "removal" => ns[i].to # h.to

HandlerWell(h) == WellIn(h, notes, declined, removed)

HandlersWell == \A c \in Calls : HandlerWell(call[c])

\* Of two handlers that remove a provider one is told that it did.
ToldOnce ==
    \A c, d \in Calls :
        (call[c].pc = "tell" /\ call[d].pc = "tell" /\ call[c].to = call[d].to) => c = d

NotesWell == \A i \in DOMAIN notes :
    /\ notes[i].response = "declined" => i \in declined
    /\ notes[i].kind = "removal" => notes[i].to \in removed

IInv ==
    /\ TypeOK
    /\ HandlersWell /\ ToldOnce /\ NotesWell
    /\ OnlyDeclinersSanctioned

(***************************************************************************)
(* Notifications and declines                                              *)
(***************************************************************************)
LEMMA SeqFacts ==
    ASSUME NEW S, NEW s \in Seq(S)
    PROVE  /\ Len(s) \in Nat /\ DOMAIN s = 1..Len(s) /\ IsFiniteSet(DOMAIN s)
           /\ \A i \in DOMAIN s : s[i] \in S /\ i \in Nat
<1>1. Len(s) \in Nat /\ DOMAIN s = 1..Len(s) /\ s \in [1..Len(s) -> S]
  BY LenProperties
<1>2. IsFiniteSet(1..Len(s))
  BY <1>1, FS_Interval
<1> QED
  BY <1>1, <1>2

LEMMA AppendFacts ==
    ASSUME NEW S, NEW s \in Seq(S), NEW e \in S
    PROVE  /\ Append(s, e) \in Seq(S)
           /\ DOMAIN Append(s, e) = DOMAIN s \cup {Len(s) + 1}
           /\ Len(s) + 1 \notin DOMAIN s
           /\ Append(s, e)[Len(s) + 1] = e
           /\ \A i \in DOMAIN s : Append(s, e)[i] = s[i] /\ i < Len(s) + 1
<1>1. /\ Append(s, e) \in Seq(S) /\ Len(Append(s, e)) = Len(s) + 1
      /\ \A i \in 1..Len(s) : Append(s, e)[i] = s[i]
      /\ Append(s, e)[Len(s) + 1] = e
  BY AppendProperties
<1>2. /\ Len(s) \in Nat /\ DOMAIN s = 1..Len(s)
      /\ DOMAIN Append(s, e) = 1..Len(s) + 1
  BY <1>1, SeqFacts
<1> QED
  BY <1>1, <1>2

\* The state's notifications and declines, as constant operators.
LEMMA Forms ==
    /\ \A p : AsksOf(p) = AsksIn(notes, p)
    /\ \A p : DeclinedBy(p) = DeclinesIn(notes, declined, p)
    /\ OnlyDeclinersSanctioned <=>
         /\ \A p \in removed : Cardinality(DeclinesIn(notes, declined, p)) >= 2
         /\ \A i \in DOMAIN notes : notes[i].final =>
               \E k \in DeclinesIn(notes, declined, notes[i].to) : k < i
         /\ \A i, k \in DOMAIN notes :
               (notes[i].kind = "removal" /\ notes[k].kind = "removal"
                    /\ notes[i].to = notes[k].to) => i = k
  BY DEF AsksOf, AsksIn, DeclinedBy, DeclinesIn, OnlyDeclinersSanctioned

LEMMA FormsNext ==
    OnlyDeclinersSanctioned' <=>
         /\ \A p \in removed' : Cardinality(DeclinesIn(notes', declined', p)) >= 2
         /\ \A i \in DOMAIN notes' : notes'[i].final =>
               \E k \in DeclinesIn(notes', declined', notes'[i].to) : k < i
         /\ \A i, k \in DOMAIN notes' :
               (notes'[i].kind = "removal" /\ notes'[k].kind = "removal"
                    /\ notes'[i].to = notes'[k].to) => i = k
  BY DEF AsksOf, AsksIn, DeclinedBy, DeclinesIn, OnlyDeclinersSanctioned

\* A notification once created keeps its kind, recipient and warning.
Extends(ns, later) ==
    /\ DOMAIN ns \subseteq DOMAIN later
    /\ \A i \in DOMAIN ns :
          later[i].kind = ns[i].kind /\ later[i].to = ns[i].to /\ later[i].final = ns[i].final

LEMMA DeclinesFinite ==
    ASSUME NEW ns \in Seq(NoteType), NEW ds, NEW p
    PROVE  /\ IsFiniteSet(DeclinesIn(ns, ds, p))
           /\ Cardinality(DeclinesIn(ns, ds, p)) \in Nat
           /\ DeclinesIn(ns, ds, p) \subseteq DOMAIN ns
<1>1. IsFiniteSet(DOMAIN ns)
  BY SeqFacts
<1>2. DeclinesIn(ns, ds, p) \in SUBSET DOMAIN ns
  BY DEF DeclinesIn, AsksIn
<1>3. IsFiniteSet(DeclinesIn(ns, ds, p))
  BY <1>1, <1>2, FS_Subset
<1> QED
  BY <1>2, <1>3, FS_CardinalityType

\* Declines are never taken back.
LEMMA DeclinesGrow ==
    ASSUME NEW ns \in Seq(NoteType), NEW later \in Seq(NoteType), Extends(ns, later),
           NEW ds, NEW more, ds \subseteq more, NEW p
    PROVE  /\ DeclinesIn(ns, ds, p) \subseteq DeclinesIn(later, more, p)
           /\ Cardinality(DeclinesIn(ns, ds, p)) <= Cardinality(DeclinesIn(later, more, p))
<1>1. DeclinesIn(ns, ds, p) \in SUBSET DeclinesIn(later, more, p)
  BY DEF DeclinesIn, AsksIn, Extends
<1> QED
  BY <1>1, DeclinesFinite, FS_Subset

LEMMA WellGrows ==
    ASSUME NEW ns \in Seq(NoteType), NEW later \in Seq(NoteType), Extends(ns, later),
           NEW ds, NEW more, ds \subseteq more, NEW rm, NEW out, rm \subseteq out,
           NEW h, WellIn(h, ns, ds, rm),
           h.pc = "tell" => \A i \in DOMAIN later \ DOMAIN ns :
                                later[i].kind = "removal" => later[i].to # h.to
    PROVE  WellIn(h, later, more, out)
<1>1. /\ DeclinesIn(ns, ds, h.to) \subseteq DeclinesIn(later, more, h.to)
      /\ Cardinality(DeclinesIn(ns, ds, h.to)) <= Cardinality(DeclinesIn(later, more, h.to))
      /\ Cardinality(DeclinesIn(ns, ds, h.to)) \in Nat
      /\ Cardinality(DeclinesIn(later, more, h.to)) \in Nat
  BY DeclinesGrow, DeclinesFinite
<1>2. h.pc = "remove" => Cardinality(DeclinesIn(later, more, h.to)) >= 2
  BY <1>1 DEF WellIn
<1>3. (Asking(h) /\ h.final) => DeclinesIn(later, more, h.to) # {}
  BY <1>1 DEF WellIn
<1>4. h.pc = "respond" =>
          h.note \in DOMAIN later /\ later[h.note].to = h.to /\ later[h.note].kind \in Asks
  BY DEF WellIn, Extends
<1>5. h.pc = "tell" =>
          /\ h.to \in out
          /\ \A i \in DOMAIN later : later[i].kind = "removal" => later[i].to # h.to
  BY DEF WellIn, Extends
<1> QED
  BY <1>2, <1>3, <1>4, <1>5 DEF WellIn

\* A handler that has no recipient yet.
LEMMA LooseWell ==
    ASSUME NEW h, h.pc \in {"idle", "count", "recount"} \/ (h.pc = "create" /\ h.kind # "request"),
           NEW ns, NEW ds, NEW rm
    PROVE  WellIn(h, ns, ds, rm)
  BY DEF WellIn, HasRecipient, Asking

\* What the database counts are declines that were made.
LEMMA CountFacts ==
    ASSUME TypeOK, NotesWell, NEW p
    PROVE  /\ CountParticipationDeclines(p) \in Nat /\ CountParticipationRequests(p) \in Nat
           /\ CountParticipationDeclines(p) >= 1 => DeclinesIn(notes, declined, p) # {}
           /\ SecondDecline(p) => Cardinality(DeclinesIn(notes, declined, p)) >= 2
<1> DEFINE D == {i \in AsksOf(p) : notes[i].response = "declined"}
           R == {i \in AsksOf(p) : notes[i].kind = "request"}
<1>1. notes \in Seq(NoteType) /\ IsFiniteSet(DOMAIN notes)
  BY SeqFacts DEF TypeOK
<1>2. D \in SUBSET DeclinesIn(notes, declined, p)
  BY DEF NotesWell, AsksOf, DeclinesIn, AsksIn
<1>3. R \in SUBSET DOMAIN notes
  BY DEF AsksOf
<1>4. /\ IsFiniteSet(DeclinesIn(notes, declined, p))
      /\ Cardinality(DeclinesIn(notes, declined, p)) \in Nat
  BY <1>1, DeclinesFinite
<1>5. /\ IsFiniteSet(D) /\ Cardinality(D) \in Nat
      /\ Cardinality(D) <= Cardinality(DeclinesIn(notes, declined, p))
  BY <1>2, <1>4, FS_Subset, FS_CardinalityType
<1>6. Cardinality(R) \in Nat
  BY <1>1, <1>3, FS_Subset, FS_CardinalityType
<1>7. Cardinality({}) = 0
  BY FS_EmptySet
<1>8. CountParticipationDeclines(p) = Cardinality(D) /\ CountParticipationRequests(p) = Cardinality(R)
  BY DEF CountParticipationDeclines, CountParticipationRequests
<1> HIDE DEF D, R
<1>9. Cardinality(D) >= 1 => D # {}
  BY <1>5, <1>7
<1> QED
  BY <1>2, <1>4, <1>5, <1>6, <1>8, <1>9 DEF SecondDecline

(***************************************************************************)
(* What a step leaves alone                                                *)
(***************************************************************************)
\* Handler c goes on as h, and notifications are added or answered.
LEMMA Frame ==
    ASSUME IInv, NEW c \in Calls, NEW h \in HandlerType, Move(c, h),
           notes' \in Seq(NoteType), Extends(notes, notes'),
           declined \subseteq declined', declined' \subseteq DOMAIN notes',
           removed \subseteq removed', removed' \subseteq Providers,
           overlapped' \in BOOLEAN, faults' \in Nat,
           WellIn(h, notes', declined', removed'),
           \A d \in Calls : (d # c /\ call[d].pc = "tell") =>
               \A i \in DOMAIN notes' \ DOMAIN notes :
                   notes'[i].kind = "removal" => notes'[i].to # call[d].to,
           h.pc = "tell" => h.to \notin removed
    PROVE  TypeOK' /\ HandlersWell' /\ ToldOnce'
<1>1. /\ call' \in [Calls -> HandlerType] /\ call'[c] = h
      /\ \A d \in Calls : d = c \/ call'[d] = call[d]
  BY DEF Move, IInv, TypeOK
<1>2. TypeOK'
  BY <1>1 DEF TypeOK
<1>3. \A d \in Calls : WellIn(call[d], notes, declined, removed)
  BY DEF IInv, HandlersWell, HandlerWell
<1>4. HandlersWell'
  <2> SUFFICES ASSUME NEW d \in Calls PROVE WellIn(call'[d], notes', declined', removed')
    BY DEF HandlersWell, HandlerWell
  <2>1. CASE d = c
    BY <1>1, <2>1
  <2>2. CASE d # c
    <3>1. call'[d] = call[d] /\ notes \in Seq(NoteType)
      BY <1>1, <2>2 DEF IInv, TypeOK
    <3>2. WellIn(call[d], notes', declined', removed')
      BY <1>3, <2>2, <3>1, WellGrows
    <3> QED
      BY <3>1, <3>2
  <2> QED
    BY <2>1, <2>2
<1>5. \A d \in Calls : call[d].pc = "tell" => call[d].to \in removed
  BY <1>3 DEF WellIn
<1>6. ToldOnce'
  BY <1>1, <1>5 DEF ToldOnce, IInv
<1> QED
  BY <1>2, <1>4, <1>6

\* Nothing but the handler changes.
LEMMA MoveInv ==
    ASSUME IInv, NEW c \in Calls, NEW h \in HandlerType, Move(c, h),
           UNCHANGED <<notes, declined, removed>>,
           overlapped' \in BOOLEAN, faults' \in Nat,
           WellIn(h, notes, declined, removed), h.pc # "tell"
    PROVE  IInv'
<1>1. Extends(notes, notes') /\ DOMAIN notes' \ DOMAIN notes = {}
  BY DEF Extends
<1>2. notes' \in Seq(NoteType) /\ declined' \subseteq DOMAIN notes' /\ removed' \subseteq Providers
  BY DEF IInv, TypeOK
<1>3. TypeOK' /\ HandlersWell' /\ ToldOnce'
  BY <1>1, <1>2, Frame
<1>4. NotesWell'
  BY DEF IInv, NotesWell
<1>5. OnlyDeclinersSanctioned'
  BY Forms, FormsNext DEF IInv
<1> QED
  BY <1>3, <1>4, <1>5 DEF IInv

\* A notification is added: a warning is about a decline, a removal is told by
\* the handler that removed.
LEMMA AppendInv ==
    ASSUME IInv, NEW c \in Calls, NEW h \in HandlerType, Move(c, h), NEW n \in NoteType,
           notes' = Append(notes, n), UNCHANGED <<declined, removed>>,
           overlapped' \in BOOLEAN, faults' \in Nat,
           n.response = "none",
           n.final => DeclinesIn(notes, declined, n.to) # {},
           n.kind = "removal" => call[c].pc = "tell" /\ call[c].to = n.to,
           h.pc \in {"idle", "count", "recount"} \/ (h.pc = "create" /\ h.kind # "request")
    PROVE  IInv'
<1> DEFINE new == Len(notes) + 1
<1>1. notes \in Seq(NoteType) /\ declined \subseteq DOMAIN notes /\ removed \subseteq Providers
  BY DEF IInv, TypeOK
<1>2. /\ notes' \in Seq(NoteType) /\ DOMAIN notes' = DOMAIN notes \cup {new}
      /\ new \notin DOMAIN notes /\ notes'[new] = n
      /\ \A i \in DOMAIN notes : notes'[i] = notes[i] /\ i < new
  BY <1>1, AppendFacts
<1> HIDE DEF new
<1>3. Extends(notes, notes')
  BY <1>2 DEF Extends
<1>4. \A d \in Calls : WellIn(call[d], notes, declined, removed)
  BY DEF IInv, HandlersWell, HandlerWell
<1>5. \A d \in Calls : (d # c /\ call[d].pc = "tell") =>
               \A i \in DOMAIN notes' \ DOMAIN notes :
                   notes'[i].kind = "removal" => notes'[i].to # call[d].to
  BY <1>2 DEF IInv, ToldOnce
<1>6. WellIn(h, notes', declined', removed')
  BY LooseWell
<1>7. TypeOK' /\ HandlersWell' /\ ToldOnce'
  BY <1>1, <1>2, <1>3, <1>5, <1>6, Frame
<1>8. n.kind = "removal" =>
          n.to \in removed /\ \A i \in DOMAIN notes : notes[i].kind = "removal" => notes[i].to # n.to
  BY <1>4 DEF WellIn
<1>9. NotesWell'
  BY <1>2, <1>8 DEF IInv, NotesWell
<1>10. /\ \A p : DeclinesIn(notes, declined, p) \subseteq DeclinesIn(notes', declined', p)
       /\ \A p : Cardinality(DeclinesIn(notes, declined, p)) <= Cardinality(DeclinesIn(notes', declined', p))
       /\ \A p : Cardinality(DeclinesIn(notes, declined, p)) \in Nat
       /\ \A p : Cardinality(DeclinesIn(notes', declined', p)) \in Nat
       /\ \A p : DeclinesIn(notes, declined, p) \subseteq DOMAIN notes
  BY <1>1, <1>2, <1>3, DeclinesGrow, DeclinesFinite
<1>11. \A p \in removed' : Cardinality(DeclinesIn(notes', declined', p)) >= 2
  BY <1>10, Forms DEF IInv
<1>12. \A i \in DOMAIN notes' : notes'[i].final =>
               \E k \in DeclinesIn(notes', declined', notes'[i].to) : k < i
  <2>1. ASSUME NEW i \in DOMAIN notes, notes[i].final
        PROVE  \E k \in DeclinesIn(notes', declined', notes[i].to) : k < i
    BY <1>10, <2>1, Forms DEF IInv
  <2>2. ASSUME n.final PROVE \E k \in DeclinesIn(notes', declined', n.to) : k < new
    BY <1>2, <1>10, <2>2
  <2> QED
    BY <1>2, <2>1, <2>2
<1>13. \A i, k \in DOMAIN notes' :
               (notes'[i].kind = "removal" /\ notes'[k].kind = "removal"
                    /\ notes'[i].to = notes'[k].to) => i = k
  BY <1>2, <1>8, Forms DEF IInv
<1>14. OnlyDeclinersSanctioned'
  BY <1>11, <1>12, <1>13, FormsNext
<1> QED
  BY <1>7, <1>9, <1>14 DEF IInv

(***************************************************************************)
(* The handlers' steps                                                     *)
(***************************************************************************)
LEMMA IdleFacts == Idle \in HandlerType /\ Idle.pc = "idle"
  BY DEF Idle, HandlerType, Responses

LEMMA HandlerFacts ==
    ASSUME IInv, NEW c \in Calls
    PROVE  /\ call[c] \in HandlerType /\ WellIn(call[c], notes, declined, removed)
           /\ overlapped \in BOOLEAN /\ faults \in Nat /\ faults + 1 \in Nat
  BY DEF IInv, TypeOK, HandlersWell, HandlerWell

LEMMA FaultType == ASSUME IInv, NoFault \/ Fault PROVE faults' \in Nat
  BY DEF IInv, TypeOK, NoFault, Fault

\* A handler between two recipients.
LEMMA ContinueFacts ==
    ASSUME IInv, NEW c \in Calls, NEW p, NEW at \in {"count", "create", "recount"},
           at = "create" => call[c].kind # "request", Continue(c, p, at)
    PROVE  \E h \in HandlerType :
              /\ Move(c, h)
              /\ h.pc \in {"idle", "count", "recount"} \/ (h.pc = "create" /\ h.kind # "request")
<1> DEFINE h == [call[c] EXCEPT !.pc = at, !.todo = @ \ {p}]
<1>1. h \in HandlerType /\ h.pc = at /\ h.kind = call[c].kind
  BY HandlerFacts DEF HandlerType
<1>2. Move(c, Idle) \/ Move(c, h)
  BY DEF Continue
<1> HIDE DEF h
<1> QED
  BY <1>1, <1>2, IdleFacts

LEMMA PostInv ==
    ASSUME IInv, NEW c \in Calls, NEW kind \in {"request", "roster"},
           NEW ps \in SUBSET Providers, PostNotifications(c, kind, ps)
    PROVE  IInv'
<1> DEFINE pc == IF kind = "request" THEN "count" ELSE "create"
           h == [Idle EXCEPT !.pc = pc, !.kind = kind, !.todo = ps \ removed]
<1>1. Move(c, h) /\ UNCHANGED <<notes, removed, declined, faults>>
  BY DEF PostNotifications
<1>2. overlapped' \in BOOLEAN /\ faults' \in Nat
  BY <1>1, HandlerFacts DEF PostNotifications, Start
<1>3. h \in HandlerType /\ h.pc = pc /\ h.kind = kind
  BY IdleFacts DEF HandlerType
<1> HIDE DEF h
<1>4. WellIn(h, notes, declined, removed)
  BY <1>3, LooseWell
<1> QED
  BY <1>1, <1>2, <1>3, <1>4, MoveInv

LEMMA CountInv ==
    ASSUME IInv, NEW c \in Calls, CountAsk(c) \/ CountUpdate(c)
    PROVE  IInv'
<1>1. PICK p \in call[c].todo, pc \in {"create", "update"}, round \in Nat, final \in BOOLEAN :
          /\ Move(c, [call[c] EXCEPT !.pc = pc, !.to = p, !.round = round, !.final = final])
          /\ final => CountParticipationDeclines(p) >= 1
  <2>1. CASE CountAsk(c)
    <3>1. PICK p \in call[c].todo :
              Move(c, [call[c] EXCEPT !.pc = "create", !.to = p,
                       !.round = NextAsk(p).round, !.final = NextAsk(p).final])
      BY <2>1 DEF CountAsk
    <3>2. /\ NextAsk(p).round \in Nat /\ NextAsk(p).final \in BOOLEAN
          /\ NextAsk(p).final = (CountParticipationDeclines(p) >= 1)
      BY CountFacts DEF NextAsk, IInv
    <3> QED
      BY <3>1, <3>2
  <2>2. CASE CountUpdate(c)
    <3>0. PICK p \in call[c].todo :
              \E round \in {0, CountParticipationRequests(p)},
                 final \in {FALSE, CountParticipationDeclines(p) >= 1} :
                 Move(c, [call[c] EXCEPT !.pc = "update", !.to = p, !.round = round, !.final = final])
      BY <2>2 DEF CountUpdate
    <3>1. PICK round \in {0, CountParticipationRequests(p)},
               final \in {FALSE, CountParticipationDeclines(p) >= 1} :
              Move(c, [call[c] EXCEPT !.pc = "update", !.to = p, !.round = round, !.final = final])
      BY <3>0
    <3>2. round \in Nat
      BY <3>1, CountFacts DEF IInv
    <3>3. final \in BOOLEAN /\ (final => CountParticipationDeclines(p) >= 1)
      <4>1. CASE final = FALSE
        BY <4>1
      <4>2. CASE final = (CountParticipationDeclines(p) >= 1)
        <5>1. (CountParticipationDeclines(p) >= 1) \in BOOLEAN
          OBVIOUS
        <5> QED
          BY <4>2, <5>1, Zenon
      <4> QED
        BY <3>1, <4>1, <4>2
    <3> QED
      BY <3>1, <3>2, <3>3
  <2> QED
    BY <2>1, <2>2
<1>2. /\ UNCHANGED <<notes, removed, declined>>
      /\ overlapped' \in BOOLEAN /\ faults' \in Nat
  BY FaultType, HandlerFacts DEF CountAsk, CountUpdate
<1> DEFINE h == [call[c] EXCEPT !.pc = pc, !.to = p, !.round = round, !.final = final]
<1>3. p \in Providers
  BY <1>1, HandlerFacts DEF HandlerType
<1>4. h \in HandlerType /\ h.pc = pc /\ h.to = p /\ h.final = final
  BY <1>3, HandlerFacts DEF HandlerType
<1>5. Move(c, h)
  BY <1>1
<1> HIDE DEF h
<1>6. final => DeclinesIn(notes, declined, p) # {}
  BY <1>1, CountFacts DEF IInv
<1>7. WellIn(h, notes, declined, removed)
  BY <1>3, <1>4, <1>6 DEF WellIn
<1> QED
  BY <1>2, <1>4, <1>5, <1>7, MoveInv

LEMMA NoteFacts ==
    ASSUME NEW kind \in Kinds, NEW p \in Providers, NEW round \in Nat, NEW final \in BOOLEAN
    PROVE  LET n == Note(kind, p, round, final) IN
           /\ n \in NoteType /\ n.response = "none" /\ n.kind = kind /\ n.to = p
           /\ n.round = round /\ n.final = final
  BY DEF Note, NoteType, Responses

LEMMA CreateInv ==
    ASSUME IInv, NEW c \in Calls, CreateAsk(c) \/ CreateRoster(c) \/ SendUpdate(c)
    PROVE  IInv'
<1>0. /\ UNCHANGED <<declined, removed>>
      /\ overlapped' \in BOOLEAN /\ faults' \in Nat
  BY FaultType, HandlerFacts DEF CreateAsk, CreateRoster, SendUpdate
<1>1. CASE CreateAsk(c) \/ SendUpdate(c)
  <2> DEFINE kind == IF call[c].pc = "update" THEN "update" ELSE "request"
             n == Note(kind, call[c].to, call[c].round, call[c].final)
  <2>1. Asking(call[c]) /\ (notes' = Append(notes, n) \/ UNCHANGED notes)
    BY <1>1 DEF CreateAsk, SendUpdate, Asking
  <2>2. /\ call[c].to \in Providers /\ call[c].round \in Nat /\ call[c].final \in BOOLEAN
        /\ call[c].final => DeclinesIn(notes, declined, call[c].to) # {}
    BY <2>1, HandlerFacts DEF WellIn, HasRecipient, HandlerType
  <2>3. kind \in Kinds /\ kind # "removal"
    BY DEF Kinds, Asks
  <2>4. n \in NoteType /\ n.response = "none" /\ n.kind = kind /\ n.to = call[c].to /\ n.final = call[c].final
    BY <2>2, <2>3, NoteFacts
  <2> HIDE DEF n
  <2>5. Continue(c, call[c].to, "count") \/ Continue(c, call[c].to, "recount")
    BY <1>1 DEF CreateAsk, SendUpdate
  <2>6. PICK h \in HandlerType :
            /\ Move(c, h)
            /\ h.pc \in {"idle", "count", "recount"} \/ (h.pc = "create" /\ h.kind # "request")
    BY <2>5, ContinueFacts
  <2>7. CASE notes' = Append(notes, n)
    BY <1>0, <2>2, <2>3, <2>4, <2>6, <2>7, AppendInv
  <2>8. CASE UNCHANGED notes
    BY <1>0, <2>6, <2>8, LooseWell, MoveInv
  <2> QED
    BY <2>1, <2>7, <2>8
<1>2. CASE CreateRoster(c)
  <2>1. PICK p \in call[c].todo :
            notes' = Append(notes, Note("roster", p, 0, FALSE)) /\ Continue(c, p, "create")
    BY <1>2 DEF CreateRoster
  <2>2. p \in Providers /\ call[c].kind # "request"
    BY <1>2, <2>1, HandlerFacts DEF HandlerType, CreateRoster
  <2> DEFINE n == Note("roster", p, 0, FALSE)
  <2>3. n \in NoteType /\ n.response = "none" /\ n.kind = "roster" /\ n.final = FALSE
    BY <2>2 DEF Note, NoteType, Responses, Kinds
  <2>4. notes' = Append(notes, n)
    BY <2>1
  <2> HIDE DEF n
  <2>5. PICK h \in HandlerType :
            /\ Move(c, h)
            /\ h.pc \in {"idle", "count", "recount"} \/ (h.pc = "create" /\ h.kind # "request")
    BY <2>1, <2>2, ContinueFacts
  <2> QED
    BY <1>0, <2>3, <2>4, <2>5, AppendInv
<1> QED
  BY <1>1, <1>2

LEMMA RespondInv ==
    ASSUME IInv, NEW c \in Calls, NEW i \in DOMAIN notes, notes[i].kind \in Asks,
           NEW answer \in {"accepted", "declined"}, RespondToNotification(c, i, answer)
    PROVE  IInv'
<1> DEFINE h == [Idle EXCEPT !.pc = "respond", !.note = i, !.answer = answer, !.to = notes[i].to]
<1>1. Move(c, h) /\ UNCHANGED <<notes, removed, declined>>
  BY DEF RespondToNotification
<1>2. overlapped' \in BOOLEAN /\ faults' \in Nat
  BY FaultType, HandlerFacts DEF RespondToNotification, Start
<1>3. notes[i].to \in Providers /\ i \in Nat
  <2>1. notes \in Seq(NoteType)
    BY DEF IInv, TypeOK
  <2>2. notes[i] \in NoteType /\ i \in Nat
    BY <2>1, SeqFacts
  <2> QED
    BY <2>2 DEF NoteType
<1>4. h \in HandlerType /\ h.pc = "respond" /\ h.note = i /\ h.to = notes[i].to
  BY <1>3, IdleFacts DEF HandlerType, Responses
<1> HIDE DEF h
<1>5. WellIn(h, notes, declined, removed)
  BY <1>3, <1>4 DEF WellIn, Asking
<1> QED
  BY <1>1, <1>2, <1>4, <1>5, MoveInv

LEMMA StoreInv ==
    ASSUME IInv, NEW c \in Calls, StoreResponse(c)
    PROVE  IInv'
<1> DEFINE i == call[c].note
           n == Answered(notes[i], call[c].answer)
           g == [call[c] EXCEPT !.pc = "declines"]
<1>1. /\ call[c].pc = "respond" /\ notes' = [notes EXCEPT ![i] = n]
      /\ UNCHANGED <<removed, overlapped, faults>>
      /\ Move(c, g) \/ End(c)
  BY DEF StoreResponse, Goto
<1>2. /\ call[c].to \in Providers /\ i \in DOMAIN notes /\ call[c].answer \in Responses
      /\ notes[i].kind \in Asks
  BY <1>1, HandlerFacts DEF WellIn, HasRecipient, HandlerType
<1>3. notes \in Seq(NoteType) /\ declined \subseteq DOMAIN notes /\ removed \subseteq Providers
  BY DEF IInv, TypeOK
<1>4. notes[i] \in NoteType
  BY <1>2, <1>3, SeqFacts
<1>5. /\ n \in NoteType /\ n.kind = notes[i].kind /\ n.to = notes[i].to /\ n.final = notes[i].final
      /\ n.response = call[c].answer
  BY <1>2, <1>4 DEF Answered, NoteType
<1> HIDE DEF n
<1>6. /\ notes' \in Seq(NoteType) /\ DOMAIN notes' = DOMAIN notes
      /\ \A k \in DOMAIN notes : notes'[k] = IF k = i THEN n ELSE notes[k]
  BY <1>1, <1>2, <1>3, <1>5, SeqFacts, ExceptSeq
<1>7. Extends(notes, notes')
  BY <1>5, <1>6 DEF Extends
<1>8. /\ declined \subseteq declined' /\ declined' \subseteq DOMAIN notes'
      /\ call[c].answer = "declined" => i \in declined'
  BY <1>2, <1>3, <1>6 DEF StoreResponse
<1>9. PICK h \in HandlerType : Move(c, h) /\ h.pc \in {"declines", "idle"} /\ h.to \in Providers \cup {None}
                               /\ (h.pc = "declines" => h.to \in Providers)
  <2>1. g \in HandlerType /\ g.pc = "declines" /\ g.to = call[c].to
    BY HandlerFacts DEF HandlerType
  <2> HIDE DEF g
  <2>2. CASE Move(c, g)
    BY <1>2, <2>1, <2>2
  <2>3. CASE End(c)
    <3>1. Idle.to \in Providers \cup {None}
      BY DEF Idle
    <3> QED
      BY <2>3, <3>1, IdleFacts DEF End
  <2> QED
    BY <1>1, <2>2, <2>3
<1>10. WellIn(h, notes', declined', removed')
  BY <1>9 DEF WellIn, Asking, HasRecipient
<1>11. overlapped' \in BOOLEAN /\ faults' \in Nat
  BY <1>1, HandlerFacts
<1>12. TypeOK' /\ HandlersWell' /\ ToldOnce'
  BY <1>1, <1>3, <1>6, <1>7, <1>8, <1>9, <1>10, <1>11, Frame
<1>13. NotesWell'
  BY <1>1, <1>2, <1>5, <1>6, <1>8 DEF IInv, NotesWell, Asks
<1>14. /\ \A p : DeclinesIn(notes, declined, p) \subseteq DeclinesIn(notes', declined', p)
       /\ \A p : Cardinality(DeclinesIn(notes, declined, p)) <= Cardinality(DeclinesIn(notes', declined', p))
       /\ \A p : Cardinality(DeclinesIn(notes, declined, p)) \in Nat
       /\ \A p : Cardinality(DeclinesIn(notes', declined', p)) \in Nat
  BY <1>3, <1>6, <1>7, <1>8, DeclinesGrow, DeclinesFinite
<1>15. \A k \in DOMAIN notes : /\ notes'[k].kind = notes[k].kind /\ notes'[k].to = notes[k].to
                               /\ notes'[k].final = notes[k].final
  BY <1>7 DEF Extends
<1>16. \A p \in removed' : Cardinality(DeclinesIn(notes', declined', p)) >= 2
  <2>1. \A p \in removed : Cardinality(DeclinesIn(notes, declined, p)) >= 2
    BY Forms DEF IInv
  <2>2. removed' = removed
    BY <1>1
  <2>3. SUFFICES ASSUME NEW p \in removed PROVE Cardinality(DeclinesIn(notes', declined', p)) >= 2
    BY <2>2
  <2>4. Cardinality(DeclinesIn(notes, declined, p)) >= 2
    BY <2>1
  <2> QED
    BY <1>14, <2>4
<1>17. \A k \in DOMAIN notes' : notes'[k].final =>
               \E m \in DeclinesIn(notes', declined', notes'[k].to) : m < k
  BY <1>6, <1>14, <1>15, Forms DEF IInv
<1>18. \A k, m \in DOMAIN notes' :
               (notes'[k].kind = "removal" /\ notes'[m].kind = "removal"
                    /\ notes'[k].to = notes'[m].to) => k = m
  BY <1>6, <1>15, Forms DEF IInv
<1>19. OnlyDeclinersSanctioned'
  BY <1>16, <1>17, <1>18, FormsNext
<1> QED
  BY <1>12, <1>13, <1>19 DEF IInv

LEMMA DeclinesInv ==
    ASSUME IInv, NEW c \in Calls, CountDeclines(c)
    PROVE  IInv'
<1> DEFINE h == [call[c] EXCEPT !.pc = "remove"]
<1>1. /\ call[c].pc = "declines" /\ UNCHANGED <<notes, removed, declined>>
      /\ Move(c, Idle) \/ (Move(c, h) /\ SecondDecline(call[c].to))
  BY DEF CountDeclines, Goto, End
<1>2. overlapped' \in BOOLEAN /\ faults' \in Nat
  BY FaultType, HandlerFacts DEF CountDeclines
<1>3. h \in HandlerType /\ h.pc = "remove" /\ h.to = call[c].to
  BY HandlerFacts DEF HandlerType
<1> HIDE DEF h
<1>4. call[c].to \in Providers
  BY <1>1, HandlerFacts DEF WellIn, HasRecipient
<1>5. CASE Move(c, Idle)
  BY <1>1, <1>2, <1>5, IdleFacts, LooseWell, MoveInv
<1>6. CASE Move(c, h) /\ SecondDecline(call[c].to)
  <2>1. WellIn(h, notes, declined, removed)
    BY <1>3, <1>4, <1>6, CountFacts DEF WellIn, Asking, IInv
  <2> QED
    BY <1>1, <1>2, <1>3, <1>6, <2>1, MoveInv
<1> QED
  BY <1>1, <1>5, <1>6

LEMMA RemoveInv ==
    ASSUME IInv, NEW c \in Calls, RemoveProviderFromSession(c)
    PROVE  IInv'
<1> DEFINE p == call[c].to
           g == [call[c] EXCEPT !.pc = "tell"]
<1>1. /\ call[c].pc = "remove" /\ removed' = removed \cup {p}
      /\ UNCHANGED <<notes, declined, overlapped, faults>>
      /\ Move(c, Idle) \/ (Move(c, g) /\ p \notin removed)
  BY DEF RemoveProviderFromSession, NewlyRemoved, Goto, End
<1>2. p \in Providers /\ Cardinality(DeclinesIn(notes, declined, p)) >= 2
  BY <1>1, HandlerFacts DEF WellIn, HasRecipient
<1>3. g \in HandlerType /\ g.pc = "tell" /\ g.to = p
  BY HandlerFacts DEF HandlerType
<1> HIDE DEF g
<1>4. PICK h \in HandlerType : Move(c, h) /\ (h.pc = "idle" \/ (h.pc = "tell" /\ h.to = p /\ p \notin removed))
  BY <1>1, <1>3, IdleFacts
<1>5. /\ Extends(notes, notes') /\ DOMAIN notes' \ DOMAIN notes = {}
      /\ notes' \in Seq(NoteType) /\ declined' \subseteq DOMAIN notes' /\ declined \subseteq declined'
      /\ removed \subseteq removed' /\ removed' \subseteq Providers
      /\ overlapped' \in BOOLEAN /\ faults' \in Nat
  BY <1>1, <1>2 DEF Extends, IInv, TypeOK
<1>6. WellIn(h, notes', declined', removed')
  <2>1. h.pc = "tell" => \A i \in DOMAIN notes' : notes'[i].kind = "removal" => notes'[i].to # h.to
    BY <1>1, <1>4 DEF IInv, NotesWell
  <2> QED
    BY <1>1, <1>2, <1>4, <2>1 DEF WellIn, Asking, HasRecipient
<1>7. TypeOK' /\ HandlersWell' /\ ToldOnce'
  BY <1>4, <1>5, <1>6, Frame
<1>8. NotesWell'
  BY <1>1 DEF IInv, NotesWell
<1>9. OnlyDeclinersSanctioned'
  BY <1>1, <1>2, Forms, FormsNext DEF IInv
<1> QED
  BY <1>7, <1>8, <1>9 DEF IInv

LEMMA TellInv ==
    ASSUME IInv, NEW c \in Calls, TellRemoved(c)
    PROVE  IInv'
<1> DEFINE p == call[c].to
           n == Note("removal", p, 0, FALSE)
<1>1. PICK rest \in {Remaining(p), Requested \ {p}, {}} :
          /\ Move(c, IF rest = {} THEN Idle ELSE [call[c] EXCEPT !.pc = "recount", !.todo = rest])
          /\ notes' = Append(notes, n) \/ UNCHANGED notes
  BY DEF TellRemoved
<1>2. /\ call[c].pc = "tell" /\ UNCHANGED <<removed, declined>>
      /\ overlapped' \in BOOLEAN /\ faults' \in Nat
  BY FaultType, HandlerFacts DEF TellRemoved
<1>3. p \in Providers
  BY <1>2, HandlerFacts DEF WellIn, HasRecipient
<1>4. n \in NoteType /\ n.response = "none" /\ n.kind = "removal" /\ n.to = p /\ ~n.final
  BY <1>3 DEF Note, NoteType, Responses, Kinds
<1> HIDE DEF n
<1>5. rest \in SUBSET Providers
  <2>1. \A i \in DOMAIN notes : notes[i] \in NoteType
    BY SeqFacts DEF IInv, TypeOK
  <2>2. Requested \subseteq Providers
    BY <2>1 DEF Requested, NoteType
  <2> QED
    BY <1>1, <2>2 DEF Remaining
<1> DEFINE g == [call[c] EXCEPT !.pc = "recount", !.todo = rest]
<1>6. g \in HandlerType /\ g.pc = "recount"
  BY <1>5, HandlerFacts DEF HandlerType
<1>7. Move(c, Idle) \/ Move(c, g)
  BY <1>1
<1> HIDE DEF g
<1>8. PICK h \in HandlerType : Move(c, h) /\ h.pc \in {"idle", "recount"}
  BY <1>6, <1>7, IdleFacts
<1>9. CASE notes' = Append(notes, n)
  BY <1>2, <1>4, <1>8, <1>9, AppendInv
<1>10. CASE UNCHANGED notes
  BY <1>2, <1>8, <1>10, LooseWell, MoveInv
<1> QED
  BY <1>1, <1>9, <1>10

LEMMA AbortInv ==
    ASSUME IInv, NEW c \in Calls, Abort(c)
    PROVE  IInv'
<1>1. Move(c, Idle) /\ UNCHANGED <<notes, removed, declined, overlapped>> /\ faults' \in Nat
  BY FaultType DEF Abort, End
<1> QED
  BY <1>1, HandlerFacts, IdleFacts, LooseWell, MoveInv

LEMMA InitInv == Init => IInv
<1> SUFFICES ASSUME Init PROVE IInv
  OBVIOUS
<1>1. notes = <<>> /\ notes \in Seq(NoteType) /\ DOMAIN notes = {}
  BY EmptySeq DEF Init
<1>2. TypeOK /\ NotesWell /\ OnlyDeclinersSanctioned
  BY <1>1, IdleFacts DEF Init, TypeOK, NotesWell, OnlyDeclinersSanctioned
<1>3. HandlersWell /\ ToldOnce
  BY IdleFacts, LooseWell DEF Init, HandlersWell, HandlerWell, ToldOnce
<1> QED
  BY <1>2, <1>3 DEF IInv

\* The forms a step takes.
Answers(c) ==
    \E i \in {k \in DOMAIN notes : notes[k].kind \in Asks}, answer \in {"accepted", "declined"} :
        RespondToNotification(c, i, answer)
Posts(c) ==
    \E kind \in {"request", "roster"}, ps \in SUBSET Providers \ {{}} : PostNotifications(c, kind, ps)

LEMMA StepForms ==
    ASSUME Next
    PROVE  \E c \in Calls :
              \/ Posts(c) \/ Answers(c)
              \/ CountAsk(c) \/ CountUpdate(c)
              \/ CreateAsk(c) \/ CreateRoster(c) \/ SendUpdate(c)
              \/ StoreResponse(c) \/ CountDeclines(c)
              \/ RemoveProviderFromSession(c) \/ TellRemoved(c) \/ Abort(c)
  BY DEF Next, Posts, Answers, PostStep, RespondStep, RemoveStep

LEMMA InvStep == IInv /\ [Next]_vars => IInv'
<1> SUFFICES ASSUME IInv, [Next]_vars PROVE IInv'
  OBVIOUS
<1>1. CASE UNCHANGED vars
  <2>1. TypeOK'
    BY <1>1 DEF vars, IInv, TypeOK
  <2>2. HandlersWell' /\ ToldOnce' /\ NotesWell'
    BY <1>1 DEF vars, IInv, HandlersWell, HandlerWell, ToldOnce, NotesWell
  <2>3. OnlyDeclinersSanctioned'
    BY <1>1, Forms, FormsNext DEF vars, IInv
  <2> QED
    BY <2>1, <2>2, <2>3 DEF IInv
<1>2. ASSUME NEW c \in Calls, Posts(c) \/ Answers(c) PROVE IInv'
  BY <1>2, PostInv, RespondInv DEF Posts, Answers
<1> QED
  BY <1>1, <1>2, StepForms, CountInv, CreateInv, StoreInv, DeclinesInv, RemoveInv, TellInv, AbortInv

LEMMA Invariance == Spec => []IInv
  BY InitInv, InvStep, PTL DEF Spec

(***************************************************************************)
(* While handlers run one at a time and none fails                         *)
(***************************************************************************)
OneHandler ==
    Sequential => \A c, d \in Calls : (call[c] # Idle /\ call[d] # Idle) => c = d

\* The handler in flight, or Idle.
CurrentIn(cs) ==
    IF \E c \in Calls : cs[c] # Idle THEN cs[CHOOSE c \in Calls : cs[c] # Idle] ELSE Idle
Current == CurrentIn(call)

DeclinersIn(ns, p) == {i \in AsksIn(ns, p) : ns[i].response = "declined"}
CountIn(ns, p) == Cardinality(DeclinersIn(ns, p))

\* Only the newest ask of a provider who is still in gets an answer, and what
\* the handler counted is still true when it acts on it.
CleanIn(h, ns, rm) ==
    /\ h.pc = "respond" => h.to \notin rm /\ \A k \in AsksIn(ns, h.to) : ~(k > h.note)
    /\ h.pc \in {"declines", "remove"} => h.to \notin rm
    /\ h.pc = "remove" => CountIn(ns, h.to) >= 2
    /\ Asking(h) => h.to \in h.todo /\ (CountIn(ns, h.to) >= 1 => h.final)
    /\ h.pc \in {"count", "create", "recount", "update"} => h.todo \cap rm = {}

\* p is out of the session exactly after two declines, or about to be.
SettledIn(h, ns, rm) == \A p \in Providers :
    \/ p \in rm <=> CountIn(ns, p) >= 2
    \/ h.pc \in {"declines", "remove"} /\ h.to = p

\* Whoever declined is warned in every later ask.
WarnedIn(ns) == \A k, m \in DOMAIN ns :
    (k < m /\ k \in DeclinersIn(ns, ns[m].to) /\ ns[m].kind \in Asks) => ns[m].final

\* The notification i tells p of its removal, and nothing of the session follows.
LastWord(ns, i, p) ==
    /\ ns[i].kind = "removal" /\ ns[i].to = p
    /\ \A k \in DOMAIN ns : (k > i /\ ns[k].to = p) => ns[k].kind \notin SessionScoped
ToldIn(h, ns, rm) == \A p \in rm :
    (\E i \in DOMAIN ns : LastWord(ns, i, p)) \/ (h.pc = "tell" /\ h.to = p)

\* After a removal everybody who stays has been asked again, or is still to be.
AskedSince(ns, i, p) == \E m \in AsksIn(ns, p) : m > i
AskedAgainIn(h, ns, rm) == \A i, k \in DOMAIN ns :
    (ns[i].kind = "removal" /\ k < i /\ ns[k].kind = "request" /\ ns[k].to \notin rm) =>
        AskedSince(ns, i, ns[k].to) \/ (h.pc \in {"recount", "update"} /\ ns[k].to \in h.todo)

AloneWell(h, ns, rm) ==
    /\ CleanIn(h, ns, rm)
    /\ SettledIn(h, ns, rm) /\ WarnedIn(ns)
    /\ ToldIn(h, ns, rm) /\ AskedAgainIn(h, ns, rm)

CleanInv == OneHandler /\ (Clean => AloneWell(Current, notes, removed))

LEMMA CurrentFacts ==
    ASSUME NEW cs, NEW c \in Calls, \A d \in Calls : d = c \/ cs[d] = Idle
    PROVE  CurrentIn(cs) = cs[c]
<1>1. CASE cs[c] = Idle
  <2>1. ~ \E d \in Calls : cs[d] # Idle
    BY <1>1
  <2> QED
    BY <1>1, <2>1 DEF CurrentIn
<1>2. CASE cs[c] # Idle
  <2> DEFINE e == CHOOSE d \in Calls : cs[d] # Idle
  <2>1. e \in Calls /\ cs[e] # Idle
    BY <1>2
  <2>2. e = c
    BY <2>1
  <2> QED
    BY <1>2, <2>2 DEF CurrentIn
<1> QED
  BY <1>1, <1>2

\* When handlers run one at a time, nothing else is in flight at a step.
LEMMA StepAlone ==
    ASSUME IInv, OneHandler, NEW c \in Calls, NEW h \in HandlerType, Move(c, h),
           Start(c) \/ (call[c] # Idle /\ UNCHANGED overlapped)
    PROVE  /\ Sequential' => Sequential /\ Current = call[c] /\ Current' = h
           /\ OneHandler'
<1>1. call' \in [Calls -> HandlerType] /\ call'[c] = h /\ \A d \in Calls : d = c \/ call'[d] = call[d]
  BY DEF Move, IInv, TypeOK
<1>2. overlapped \in BOOLEAN
  BY HandlerFacts
<1>3. ASSUME Sequential' PROVE Sequential /\ \A d \in Calls : d = c \/ call[d] = Idle
  <2>1. CASE Start(c)
    <3>1. ~overlapped' /\ overlapped' = (overlapped \/ \E d \in Calls : call[d] # Idle)
      BY <1>3, <2>1 DEF Start, Sequential
    <3>2. ~overlapped /\ ~ \E d \in Calls : call[d] # Idle
      BY <3>1
    <3> QED
      BY <3>2 DEF Sequential
  <2>2. CASE call[c] # Idle /\ UNCHANGED overlapped
    BY <1>3, <2>2 DEF Sequential, OneHandler
  <2> QED
    BY <2>1, <2>2
<1>4. ASSUME Sequential' PROVE \A d \in Calls : d = c \/ call'[d] = Idle
  BY <1>1, <1>3, <1>4
<1>5. ASSUME Sequential' PROVE Current = call[c] /\ Current' = h
  BY <1>1, <1>3, <1>4, <1>5, CurrentFacts DEF Current
<1>6. OneHandler'
  BY <1>4 DEF OneHandler
<1> QED
  BY <1>3, <1>5, <1>6

\* So it is enough to look at that handler.
LEMMA CleanStep ==
    ASSUME IInv, CleanInv, NEW c \in Calls, NEW h \in HandlerType, Move(c, h),
           Start(c) \/ (call[c] # Idle /\ UNCHANGED overlapped),
           NoFault \/ Fault,
           (NoFault /\ AloneWell(call[c], notes, removed)) => AloneWell(h, notes', removed')
    PROVE  CleanInv'
<1>1. OneHandler' /\ (Sequential' => Sequential /\ Current = call[c] /\ Current' = h)
  BY StepAlone DEF CleanInv
<1>2. ASSUME Clean' PROVE AloneWell(Current', notes', removed')
  <2>1. Sequential' /\ faults' = 0
    BY <1>2 DEF Clean
  <2>2. NoFault /\ faults = 0
    <3>1. faults \in Nat
      BY HandlerFacts
    <3> QED
      BY <2>1, <3>1 DEF Fault, NoFault
  <2>3. Clean
    BY <1>1, <2>1, <2>2 DEF Clean
  <2> QED
    BY <1>1, <2>1, <2>2, <2>3 DEF CleanInv
<1> QED
  BY <1>1, <1>2 DEF CleanInv

LEMMA CountInFacts ==
    ASSUME NEW ns \in Seq(NoteType), NEW p
    PROVE  /\ IsFiniteSet(DeclinersIn(ns, p)) /\ CountIn(ns, p) \in Nat
           /\ CountIn(ns, p) >= 1 <=> DeclinersIn(ns, p) # {}
<1>1. IsFiniteSet(DOMAIN ns)
  BY SeqFacts
<1>2. DeclinersIn(ns, p) \in SUBSET DOMAIN ns
  BY DEF DeclinersIn, AsksIn
<1>3. IsFiniteSet(DeclinersIn(ns, p)) /\ Cardinality(DeclinersIn(ns, p)) \in Nat
  BY <1>1, <1>2, FS_Subset, FS_CardinalityType
<1>4. Cardinality(DeclinersIn(ns, p)) = 0 <=> DeclinersIn(ns, p) = {}
  BY <1>3, FS_EmptySet
<1> QED
  BY <1>3, <1>4 DEF CountIn

LEMMA CountForms == \A p : CountParticipationDeclines(p) = CountIn(notes, p)
<1> TAKE p
<1>1. AsksOf(p) = AsksIn(notes, p)
  BY Forms
<1> QED
  BY <1>1 DEF CountParticipationDeclines, CountIn, DeclinersIn

\* The handler goes on, and nothing else changes.
LEMMA CleanMove ==
    ASSUME NEW h, NEW g, NEW ns, NEW rm, AloneWell(h, ns, rm), CleanIn(g, ns, rm),
           h.pc \notin {"declines", "remove", "tell"} \/ (h.pc = "declines" /\ g.pc = "remove" /\ g.to = h.to),
           h.pc \in {"recount", "update"} => g.pc \in {"recount", "update"} /\ h.todo \subseteq g.todo
    PROVE  AloneWell(g, ns, rm)
<1>1. SettledIn(g, ns, rm)
  BY DEF AloneWell, SettledIn
<1>2. ToldIn(g, ns, rm)
  BY DEF AloneWell, ToldIn
<1>3. AskedAgainIn(g, ns, rm)
  BY DEF AloneWell, AskedAgainIn
<1> QED
  BY <1>1, <1>2, <1>3 DEF AloneWell

\* A notification is added: nobody who is out gets one of the session, and
\* whoever declined is warned.
LEMMA CleanAppend ==
    ASSUME NEW ns \in Seq(NoteType), NEW n \in NoteType, NEW h, NEW rm, AloneWell(h, ns, rm),
           n.response = "none",
           n.kind \in SessionScoped => n.to \notin rm,
           n.kind \in Asks => (CountIn(ns, n.to) >= 1 => n.final)
    PROVE  /\ \A p : AsksIn(ns, p) \subseteq AsksIn(Append(ns, n), p)
           /\ \A p : CountIn(Append(ns, n), p) = CountIn(ns, p)
           /\ SettledIn(h, Append(ns, n), rm) /\ WarnedIn(Append(ns, n))
           /\ ToldIn(h, Append(ns, n), rm)
<1> DEFINE later == Append(ns, n)
           new == Len(ns) + 1
<1>1. /\ later \in Seq(NoteType) /\ DOMAIN later = DOMAIN ns \cup {new} /\ later[new] = n
      /\ new \notin DOMAIN ns
      /\ \A i \in DOMAIN ns : later[i] = ns[i] /\ i < new /\ i \in Nat
  BY AppendFacts, SeqFacts
<1> HIDE DEF later, new
<1>2. \A p : AsksIn(ns, p) \subseteq AsksIn(later, p)
  BY <1>1 DEF AsksIn
<1>3. \A p : DeclinersIn(later, p) = DeclinersIn(ns, p)
  BY <1>1 DEF DeclinersIn, AsksIn
<1>4. \A p : CountIn(later, p) = CountIn(ns, p)
  BY <1>3 DEF CountIn
<1>5. SettledIn(h, later, rm)
  BY <1>4 DEF AloneWell, SettledIn
<1>6. WarnedIn(later)
  <2> SUFFICES ASSUME NEW k \in DOMAIN later, NEW m \in DOMAIN later, k < m,
                      k \in DeclinersIn(later, later[m].to), later[m].kind \in Asks
               PROVE  later[m].final
    BY DEF WarnedIn
  <2>1. k \in DeclinersIn(ns, later[m].to) /\ k \in DOMAIN ns
    BY <1>3 DEF DeclinersIn, AsksIn
  <2>2. CASE m \in DOMAIN ns
    BY <1>1, <2>1, <2>2 DEF AloneWell, WarnedIn
  <2>3. CASE m = new
    <3>1. k \in DeclinersIn(ns, n.to) /\ n.kind \in Asks
      BY <1>1, <2>1, <2>3
    <3>2. n.final
      BY <3>1, CountInFacts
    <3> QED
      BY <1>1, <2>3, <3>2
  <2> QED
    BY <1>1, <2>2, <2>3
<1>7. ToldIn(h, later, rm)
  <2> SUFFICES ASSUME NEW p \in rm, NEW i \in DOMAIN ns, LastWord(ns, i, p)
               PROVE  LastWord(later, i, p) /\ i \in DOMAIN later
    BY DEF AloneWell, ToldIn
  <2>1. n.to = p => n.kind \notin SessionScoped
    OBVIOUS
  <2> QED
    BY <1>1, <2>1 DEF LastWord
<1> QED
  BY <1>2, <1>4, <1>5, <1>6, <1>7 DEF later

LEMMA CleanSend ==
    ASSUME NEW ns \in Seq(NoteType), NEW n \in NoteType, NEW h, NEW g, NEW rm, AloneWell(h, ns, rm),
           NEW later, n.response = "none", later = Append(ns, n),
           n.kind # "removal", n.to \notin rm,
           n.kind \in Asks => (CountIn(ns, n.to) >= 1 => n.final),
           h.pc \notin {"declines", "remove", "tell"},
           h.pc \in {"recount", "update"} =>
               /\ n.kind \in Asks
               /\ h.todo \subseteq {n.to} \cup (IF g.pc \in {"recount", "update"} THEN g.todo ELSE {}),
           CleanIn(g, later, rm)
    PROVE  AloneWell(g, later, rm)
<1> DEFINE new == Len(ns) + 1
<1>0. new = Len(ns) + 1 /\ new \in Nat
  BY SeqFacts
<1> HIDE DEF new
<1>1. /\ later \in Seq(NoteType) /\ DOMAIN later = DOMAIN ns \cup {new} /\ later[new] = n
      /\ \A i \in DOMAIN ns : later[i] = ns[i] /\ i < new /\ i \in Nat
      /\ \A p : AsksIn(ns, p) \subseteq AsksIn(later, p)
      /\ SettledIn(h, later, rm) /\ WarnedIn(later) /\ ToldIn(h, later, rm)
  <2>1. /\ later \in Seq(NoteType) /\ DOMAIN later = DOMAIN ns \cup {new} /\ later[new] = n
        /\ \A i \in DOMAIN ns : later[i] = ns[i] /\ i < new /\ i \in Nat
    BY <1>0, AppendFacts, SeqFacts
  <2>2. n.kind \in SessionScoped => n.to \notin rm
    OBVIOUS
  <2>3. /\ \A p : AsksIn(ns, p) \subseteq AsksIn(later, p)
        /\ SettledIn(h, later, rm) /\ WarnedIn(later) /\ ToldIn(h, later, rm)
    BY <2>2, CleanAppend
  <2> QED
    BY <2>1, <2>3
<1>3. SettledIn(g, later, rm) /\ ToldIn(g, later, rm)
  BY <1>1 DEF SettledIn, ToldIn
<1>4. AskedAgainIn(g, later, rm)
  <2> SUFFICES ASSUME NEW i \in DOMAIN later, NEW k \in DOMAIN later, later[i].kind = "removal", k < i,
                      later[k].kind = "request", later[k].to \notin rm
               PROVE  \/ AskedSince(later, i, later[k].to)
                      \/ g.pc \in {"recount", "update"} /\ later[k].to \in g.todo
    BY DEF AskedAgainIn
  <2>1. i \in DOMAIN ns /\ i < new
    BY <1>1
  <2>2. k \in DOMAIN ns
    BY <1>0, <1>1, <2>1
  <2>3. AskedSince(ns, i, ns[k].to) \/ (h.pc \in {"recount", "update"} /\ ns[k].to \in h.todo)
    BY <1>1, <2>1, <2>2 DEF AloneWell, AskedAgainIn
  <2>4. CASE AskedSince(ns, i, ns[k].to)
    BY <1>1, <2>2, <2>4 DEF AskedSince
  <2>5. CASE h.pc \in {"recount", "update"} /\ ns[k].to \in h.todo
    <3>1. CASE ns[k].to = n.to
      <4>1. new \in AsksIn(later, ns[k].to)
        BY <1>1, <2>5, <3>1 DEF AsksIn
      <4> QED
        BY <1>1, <2>1, <2>2, <4>1 DEF AskedSince
    <3>2. CASE ns[k].to # n.to
      BY <1>1, <2>2, <2>5, <3>2
    <3> QED
      BY <3>1, <3>2
  <2> QED
    BY <2>3, <2>4, <2>5
<1> QED
  BY <1>1, <1>3, <1>4 DEF AloneWell

\* A handler with nothing it relies on.
LEMMA LooseClean ==
    ASSUME NEW h, h.pc \notin {"respond", "declines", "remove", "update"},
           h.pc = "create" => h.kind # "request", NEW ns, NEW rm,
           h.pc \in {"count", "create", "recount"} => h.todo \cap rm = {}
    PROVE  CleanIn(h, ns, rm)
  BY DEF CleanIn, Asking

LEMMA PostClean ==
    ASSUME IInv, CleanInv, NEW c \in Calls, Posts(c)
    PROVE  CleanInv'
<1>1. PICK kind \in {"request", "roster"}, ps \in SUBSET Providers : PostNotifications(c, kind, ps)
  BY DEF Posts
<1> DEFINE pc == IF kind = "request" THEN "count" ELSE "create"
           h == [Idle EXCEPT !.pc = pc, !.kind = kind, !.todo = ps \ removed]
<1>2. Move(c, h) /\ Start(c) /\ UNCHANGED <<notes, removed>> /\ NoFault
  BY <1>1 DEF PostNotifications, NoFault
<1>3. h \in HandlerType /\ h.pc = pc /\ h.kind = kind /\ h.todo = ps \ removed
  BY IdleFacts DEF HandlerType, Idle
<1>4. call[c].pc = "idle"
  BY <1>2, IdleFacts DEF Start
<1> HIDE DEF h
<1>5. CleanIn(h, notes, removed)
  BY <1>3, LooseClean
<1>6. AloneWell(call[c], notes, removed) => AloneWell(h, notes', removed')
  BY <1>2, <1>4, <1>5, CleanMove
<1> QED
  BY <1>2, <1>3, <1>6, CleanStep

LEMMA AnswerClean ==
    ASSUME IInv, CleanInv, NEW c \in Calls, Answers(c)
    PROVE  CleanInv'
<1>1. PICK i \in DOMAIN notes, answer \in {"accepted", "declined"} : RespondToNotification(c, i, answer)
  BY DEF Answers
<1> DEFINE h == [Idle EXCEPT !.pc = "respond", !.note = i, !.answer = answer, !.to = notes[i].to]
<1>2. /\ Move(c, h) /\ Start(c) /\ UNCHANGED <<notes, removed>>
      /\ (MayAnswer(i) /\ NoFault) \/ Fault
  BY <1>1 DEF RespondToNotification
<1>3. notes[i] \in NoteType /\ i \in Nat
  BY SeqFacts DEF IInv, TypeOK
<1>4. h \in HandlerType /\ h.pc = "respond" /\ h.note = i /\ h.to = notes[i].to
  <2>1. notes[i].to \in Providers
    BY <1>3 DEF NoteType
  <2> QED
    BY <1>3, <2>1, IdleFacts DEF HandlerType, Responses
<1>5. call[c].pc = "idle"
  BY <1>2, IdleFacts DEF Start
<1> HIDE DEF h
<1>6. ASSUME NoFault PROVE CleanIn(h, notes, removed)
  <2>1. MayAnswer(i)
    <3>1. faults \in Nat
      BY HandlerFacts
    <3> QED
      BY <1>2, <1>6, <3>1 DEF NoFault, Fault
  <2>2. h.to \notin removed /\ \A k \in AsksIn(notes, h.to) : ~(k > h.note)
    BY <1>4, <2>1, Forms DEF MayAnswer, HasNewerParticipationAsk
  <2> QED
    BY <1>4, <2>2 DEF CleanIn, Asking
<1>7. (NoFault /\ AloneWell(call[c], notes, removed)) => AloneWell(h, notes', removed')
  BY <1>2, <1>4, <1>5, <1>6, CleanMove
<1> QED
  BY <1>2, <1>4, <1>7, CleanStep

\* Counting a decline of the provider that is asked next.
LEMMA CountClean ==
    ASSUME IInv, CleanInv, NEW c \in Calls, CountAsk(c) \/ CountUpdate(c)
    PROVE  CleanInv'
<1>0. /\ UNCHANGED <<notes, removed, overlapped>> /\ call[c].pc \in {"count", "recount"}
      /\ call[c] # Idle
  BY IdleFacts DEF CountAsk, CountUpdate
<1>1. PICK p \in call[c].todo :
         \E round \in {0, CountParticipationRequests(p), CountParticipationRequests(p) + 1},
            final \in {FALSE, CountParticipationDeclines(p) >= 1},
            pc \in (IF call[c].pc = "count" THEN {"create"} ELSE {"update"}) :
              /\ Move(c, [call[c] EXCEPT !.pc = pc, !.to = p, !.round = round, !.final = final])
              /\ \/ NoFault /\ (final <=> CountParticipationDeclines(p) >= 1)
                 \/ Fault
  <2>1. CASE CountAsk(c)
    <3>1. PICK p \in call[c].todo :
              Move(c, [call[c] EXCEPT !.pc = "create", !.to = p,
                       !.round = CountParticipationRequests(p) + 1,
                       !.final = CountParticipationDeclines(p) >= 1])
      BY <2>1 DEF CountAsk, NextAsk
    <3>2. NoFault /\ call[c].pc = "count"
      BY <2>1 DEF CountAsk, NoFault
    <3> QED
      BY <3>1, <3>2
  <2>2. CASE CountUpdate(c)
    <3>1. call[c].pc = "recount"
      BY <2>2 DEF CountUpdate
    <3> QED
      BY <2>2, <3>1 DEF CountUpdate
  <2> QED
    BY <2>1, <2>2
<1>2. PICK round \in {0, CountParticipationRequests(p), CountParticipationRequests(p) + 1},
           final \in {FALSE, CountParticipationDeclines(p) >= 1},
           pc \in (IF call[c].pc = "count" THEN {"create"} ELSE {"update"}) :
              /\ Move(c, [call[c] EXCEPT !.pc = pc, !.to = p, !.round = round, !.final = final])
              /\ \/ NoFault /\ (final <=> CountParticipationDeclines(p) >= 1)
                 \/ Fault
  BY <1>1
<1>3. round \in Nat /\ final \in BOOLEAN /\ p \in Providers
  <2>1. CountParticipationRequests(p) \in Nat
    BY CountFacts DEF IInv
  <2>2. round \in Nat
    BY <1>2, <2>1
  <2>3. p \in Providers
    BY HandlerFacts DEF HandlerType
  <2>4. (CountParticipationDeclines(p) >= 1) \in BOOLEAN
    OBVIOUS
  <2>5. final \in BOOLEAN
    BY <1>2, <2>4, Zenon
  <2> QED
    BY <2>2, <2>3, <2>5
<1> DEFINE h == [call[c] EXCEPT !.pc = pc, !.to = p, !.round = round, !.final = final]
<1>4. /\ h \in HandlerType /\ h.pc = pc /\ h.to = p /\ h.todo = call[c].todo
      /\ h.final = final /\ h.kind = call[c].kind
  BY <1>3, HandlerFacts DEF HandlerType
<1>5. Move(c, h) /\ (NoFault \/ Fault)
  BY <1>2
<1> HIDE DEF h
<1>6. ASSUME NoFault, AloneWell(call[c], notes, removed) PROVE CleanIn(h, notes, removed)
  <2>1. CountIn(notes, p) >= 1 => final
    <3>1. faults \in Nat
      BY HandlerFacts
    <3>2. final <=> CountParticipationDeclines(p) >= 1
      BY <1>2, <1>6, <3>1 DEF NoFault, Fault
    <3> QED
      BY <3>2, CountForms
  <2>2. h.todo \cap removed = {}
    BY <1>0, <1>4, <1>6 DEF AloneWell, CleanIn
  <2> QED
    BY <1>0, <1>4, <2>1, <2>2 DEF CleanIn
<1>7. (NoFault /\ AloneWell(call[c], notes, removed)) => AloneWell(h, notes', removed')
  BY <1>0, <1>2, <1>4, <1>6, CleanMove
<1> QED
  BY <1>0, <1>4, <1>5, <1>7, CleanStep

\* Between two recipients, nobody who is out is left to notify.
LEMMA ContinueClean ==
    ASSUME IInv, NEW c \in Calls, NEW p, NEW at \in {"count", "create", "recount"},
           at = "create" => call[c].kind # "request", Continue(c, p, at),
           call[c].pc \in {"create", "update"}, call[c].pc = "update" => at = "recount"
    PROVE  \E h \in HandlerType :
              /\ Move(c, h)
              /\ AloneWell(call[c], notes, removed) => \A ns : CleanIn(h, ns, removed)
              /\ call[c].pc = "update" =>
                    call[c].todo \subseteq {p} \cup (IF h.pc \in {"recount", "update"} THEN h.todo ELSE {})
<1> DEFINE h == [call[c] EXCEPT !.pc = at, !.todo = @ \ {p}]
<1>1. h \in HandlerType /\ h.pc = at /\ h.kind = call[c].kind /\ h.todo = call[c].todo \ {p}
  BY HandlerFacts DEF HandlerType
<1>2. (Move(c, Idle) /\ call[c].todo = {p}) \/ Move(c, h)
  BY DEF Continue
<1> HIDE DEF h
<1>3. \A ns : CleanIn(Idle, ns, removed)
  BY IdleFacts, LooseClean
<1>4. ASSUME AloneWell(call[c], notes, removed) PROVE \A ns : CleanIn(h, ns, removed)
  <2>1. h.todo \cap removed = {}
    BY <1>1, <1>4 DEF AloneWell, CleanIn
  <2> QED
    BY <1>1, <2>1, LooseClean
<1>5. CASE Move(c, Idle) /\ call[c].todo = {p}
  BY <1>3, <1>5, IdleFacts
<1>6. CASE Move(c, h)
  BY <1>1, <1>4, <1>6
<1> QED
  BY <1>2, <1>5, <1>6

LEMMA SendClean ==
    ASSUME IInv, CleanInv, NEW c \in Calls, CreateAsk(c) \/ CreateRoster(c) \/ SendUpdate(c)
    PROVE  CleanInv'
<1>0. /\ UNCHANGED <<removed, overlapped>> /\ (NoFault \/ Fault)
      /\ call[c].pc \in {"create", "update"} /\ call[c] # Idle
  BY IdleFacts DEF CreateAsk, CreateRoster, SendUpdate, NoFault
<1>1. PICK n \in NoteType, at \in {"count", "create", "recount"} :
         /\ NoFault => notes' = Append(notes, n)
         /\ n.response = "none" /\ n.kind \in {"request", "update", "roster"}
         /\ n.to \in call[c].todo \/ Asking(call[c])
         /\ Asking(call[c]) => n.to = call[c].to
         /\ n.kind \in Asks <=> Asking(call[c])
         /\ n.kind \in Asks => n.final = call[c].final
         /\ Continue(c, n.to, at)
         /\ at = "create" => call[c].kind # "request"
         /\ call[c].pc = "update" => at = "recount"
  <2>1. CASE CreateAsk(c) \/ SendUpdate(c)
    <3> DEFINE kind == IF call[c].pc = "update" THEN "update" ELSE "request"
               at == IF call[c].pc = "update" THEN "recount" ELSE "count"
               n == Note(kind, call[c].to, call[c].round, call[c].final)
    <3>1. /\ Asking(call[c])
          /\ NoFault => notes' = Append(notes, n)
          /\ Continue(c, call[c].to, at)
      <4>1. faults \in Nat
        BY HandlerFacts
      <4> QED
        BY <2>1, <4>1 DEF CreateAsk, SendUpdate, Asking, NoFault, Fault
    <3>2. /\ call[c].to \in Providers /\ call[c].round \in Nat /\ call[c].final \in BOOLEAN
      BY <3>1, HandlerFacts DEF WellIn, HasRecipient, HandlerType
    <3>3. kind \in Kinds /\ kind \in {"request", "update"}
      BY DEF Kinds, Asks
    <3>4. n \in NoteType /\ n.response = "none" /\ n.kind = kind /\ n.to = call[c].to /\ n.final = call[c].final
      BY <3>2, <3>3, NoteFacts
    <3>5. at \in {"count", "recount"} /\ (call[c].pc = "update" => at = "recount")
      OBVIOUS
    <3> HIDE DEF n, kind, at
    <3> QED
      BY <3>1, <3>3, <3>4, <3>5 DEF Asks
  <2>2. CASE CreateRoster(c)
    <3>1. PICK p \in call[c].todo :
              notes' = Append(notes, Note("roster", p, 0, FALSE)) /\ Continue(c, p, "create")
      BY <2>2 DEF CreateRoster
    <3>2. p \in Providers /\ call[c].kind # "request" /\ call[c].pc = "create" /\ ~Asking(call[c])
      BY <2>2, <3>1, HandlerFacts DEF HandlerType, CreateRoster, Asking
    <3> DEFINE n == Note("roster", p, 0, FALSE)
    <3>3. n \in NoteType /\ n.response = "none" /\ n.kind = "roster" /\ n.to = p
      BY <3>2 DEF Note, NoteType, Responses, Kinds
    <3>4. notes' = Append(notes, n)
      BY <3>1
    <3> HIDE DEF n
    <3> QED
      BY <3>1, <3>2, <3>3, <3>4 DEF Asks
  <2> QED
    BY <2>1, <2>2
<1>2. PICK h \in HandlerType :
              /\ Move(c, h)
              /\ AloneWell(call[c], notes, removed) => \A ns : CleanIn(h, ns, removed)
              /\ call[c].pc = "update" =>
                    call[c].todo \subseteq {n.to} \cup (IF h.pc \in {"recount", "update"} THEN h.todo ELSE {})
  BY <1>0, <1>1, ContinueClean
<1>3. ASSUME NoFault, AloneWell(call[c], notes, removed) PROVE AloneWell(h, notes', removed')
  <2>1. notes \in Seq(NoteType) /\ notes' = Append(notes, n) /\ removed' = removed
    BY <1>0, <1>1, <1>3 DEF IInv, TypeOK
  <2>2. n.to \in call[c].todo /\ call[c].todo \cap removed = {}
    BY <1>0, <1>1, <1>3 DEF AloneWell, CleanIn
  <2>3. n.kind \in Asks => (CountIn(notes, n.to) >= 1 => n.final)
    <3>1. ASSUME n.kind \in Asks, CountIn(notes, n.to) >= 1 PROVE n.final
      <4>1. Asking(call[c]) /\ n.final = call[c].final
        BY <1>1, <3>1
      <4>2. n.to = call[c].to
        BY <1>1, <4>1
      <4> QED
        BY <1>3, <3>1, <4>1, <4>2 DEF AloneWell, CleanIn
    <3> QED
      BY <3>1
  <2>4. call[c].pc = "update" => n.kind \in Asks
    BY <1>1 DEF Asking
  <2>5. CleanIn(h, notes', removed)
    BY <1>2, <1>3
  <2>6. n.kind # "removal" /\ call[c].pc \notin {"declines", "remove", "tell", "recount"}
    BY <1>0, <1>1
  <2>7. AloneWell(h, notes', removed)
    BY <1>1, <1>2, <1>3, <2>1, <2>2, <2>3, <2>4, <2>5, <2>6, CleanSend
  <2> QED
    BY <2>1, <2>7
<1> QED
  BY <1>0, <1>2, <1>3, CleanStep

\* Answering the newest ask of a provider who is still in.
LEMMA StoreClean ==
    ASSUME IInv, CleanInv, NEW c \in Calls, StoreResponse(c)
    PROVE  CleanInv'
<1> DEFINE i == call[c].note
           p == call[c].to
           n == Answered(notes[i], call[c].answer)
           g == [call[c] EXCEPT !.pc = "declines"]
<1>1. /\ call[c].pc = "respond" /\ call[c] # Idle /\ notes' = [notes EXCEPT ![i] = n]
      /\ UNCHANGED <<removed, overlapped>> /\ NoFault
      /\ (call[c].answer = "declined" /\ Move(c, g)) \/ (call[c].answer # "declined" /\ Move(c, Idle))
  BY IdleFacts DEF StoreResponse, Goto, End, NoFault
<1>2. /\ p \in Providers /\ i \in DOMAIN notes /\ call[c].answer \in Responses
      /\ notes[i].kind \in Asks /\ notes[i].to = p
  BY <1>1, HandlerFacts DEF WellIn, HasRecipient, HandlerType
<1>3. notes \in Seq(NoteType) /\ \A k \in DOMAIN notes : notes[k] \in NoteType /\ k \in Nat
  BY SeqFacts DEF IInv, TypeOK
<1>4. /\ n \in NoteType /\ n.kind = notes[i].kind /\ n.to = notes[i].to /\ n.final = notes[i].final
      /\ n.response = call[c].answer
  BY <1>2, <1>3 DEF Answered, NoteType
<1> HIDE DEF n
<1>5. /\ notes' \in Seq(NoteType) /\ DOMAIN notes' = DOMAIN notes
      /\ \A k \in DOMAIN notes : notes'[k] = IF k = i THEN n ELSE notes[k]
  BY <1>1, <1>2, <1>3, <1>4, SeqFacts, ExceptSeq
<1>6. \A k \in DOMAIN notes : /\ notes'[k].kind = notes[k].kind /\ notes'[k].to = notes[k].to
                              /\ notes'[k].final = notes[k].final
                              /\ k # i => notes'[k].response = notes[k].response
  BY <1>4, <1>5
<1>7. \A q : AsksIn(notes', q) = AsksIn(notes, q)
  BY <1>5, <1>6 DEF AsksIn
<1>8. \A q : q # p => DeclinersIn(notes', q) = DeclinersIn(notes, q)
  BY <1>2, <1>6, <1>7 DEF DeclinersIn, AsksIn
<1>9. \A q : DeclinersIn(notes', q) \subseteq DeclinersIn(notes, q) \cup {i}
  BY <1>5, <1>6 DEF DeclinersIn, AsksIn
<1>10. call[c].answer # "declined" => DeclinersIn(notes', p) \subseteq DeclinersIn(notes, p)
  <2>1. call[c].answer # "declined" => i \notin DeclinersIn(notes', p)
    BY <1>2, <1>4, <1>5 DEF DeclinersIn
  <2> QED
    BY <1>9, <2>1
<1>11. g \in HandlerType /\ g.pc = "declines" /\ g.to = p
  BY HandlerFacts DEF HandlerType
<1> HIDE DEF g
<1>12. ASSUME AloneWell(call[c], notes, removed)
       PROVE  /\ p \notin removed /\ \A k \in AsksIn(notes, p) : ~(k > i)
              /\ ~(CountIn(notes, p) >= 2)
              /\ WarnedIn(notes')
              /\ \A h : h.pc \notin {"recount", "update"} => AskedAgainIn(h, notes', removed)
              /\ \A h : ToldIn(h, notes', removed)
              /\ \A q \in Providers : q # p => (q \in removed <=> CountIn(notes', q) >= 2)
  <2>1. p \notin removed /\ \A k \in AsksIn(notes, p) : ~(k > i)
    BY <1>1, <1>12 DEF AloneWell, CleanIn
  <2>2. \A q \in Providers : q \in removed <=> CountIn(notes, q) >= 2
    BY <1>1, <1>12 DEF AloneWell, SettledIn
  <2>3. WarnedIn(notes')
    <3> SUFFICES ASSUME NEW k \in DOMAIN notes, NEW m \in DOMAIN notes, k < m,
                        k \in DeclinersIn(notes', notes[m].to), notes[m].kind \in Asks
                 PROVE  notes[m].final
      BY <1>5, <1>6 DEF WarnedIn
    <3>1. CASE k \in DeclinersIn(notes, notes[m].to)
      BY <1>12, <3>1 DEF AloneWell, WarnedIn
    <3>2. CASE k = i
      <4>1. notes[m].to = p
        BY <1>2, <1>6, <3>2 DEF DeclinersIn, AsksIn
      <4>2. m \in AsksIn(notes, p)
        BY <4>1 DEF AsksIn
      <4>3. m \in Nat /\ i \in Nat /\ i < m
        BY <1>3, <3>2
      <4> QED
        BY <2>1, <4>2, <4>3
    <3> QED
      BY <1>9, <3>1, <3>2
  <2>4. ASSUME NEW h, h.pc \notin {"recount", "update"} PROVE AskedAgainIn(h, notes', removed)
    <3> SUFFICES ASSUME NEW k \in DOMAIN notes, NEW m \in DOMAIN notes, notes[m].kind = "removal",
                        k < m, notes[k].kind = "request", notes[k].to \notin removed
                 PROVE  AskedSince(notes', m, notes[k].to)
      BY <1>5, <1>6, <2>4 DEF AskedAgainIn
    <3>1. AskedSince(notes, m, notes[k].to)
      BY <1>1, <1>12 DEF AloneWell, AskedAgainIn
    <3> QED
      BY <1>7, <3>1 DEF AskedSince
  <2>5. ASSUME NEW h PROVE ToldIn(h, notes', removed)
    <3> SUFFICES ASSUME NEW q \in removed, NEW m \in DOMAIN notes, LastWord(notes, m, q)
                 PROVE  LastWord(notes', m, q) /\ m \in DOMAIN notes'
      BY <1>1, <1>12 DEF AloneWell, ToldIn
    <3> QED
      BY <1>5, <1>6 DEF LastWord
  <2>6. \A q \in Providers : q # p => (q \in removed <=> CountIn(notes', q) >= 2)
    BY <1>8, <2>2 DEF CountIn
  <2> QED
    BY <1>2, <2>1, <2>2, <2>3, <2>4, <2>5, <2>6
<1>13. ASSUME AloneWell(call[c], notes, removed), call[c].answer = "declined"
       PROVE  AloneWell(g, notes', removed')
  <2>1. CleanIn(g, notes', removed)
    BY <1>11, <1>12, <1>13 DEF CleanIn, Asking
  <2>2. SettledIn(g, notes', removed)
    BY <1>11, <1>12, <1>13 DEF SettledIn
  <2> QED
    BY <1>1, <1>11, <1>12, <1>13, <2>1, <2>2 DEF AloneWell
<1>14. ASSUME AloneWell(call[c], notes, removed), call[c].answer # "declined"
       PROVE  AloneWell(Idle, notes', removed')
  <2>1. ~(CountIn(notes', p) >= 2)
    <3>1. DeclinersIn(notes', p) \in SUBSET DeclinersIn(notes, p)
      BY <1>10, <1>14
    <3>2. CountIn(notes', p) <= CountIn(notes, p) /\ CountIn(notes, p) \in Nat /\ CountIn(notes', p) \in Nat
      BY <1>3, <1>5, <3>1, CountInFacts, FS_Subset DEF CountIn
    <3> QED
      BY <1>12, <1>14, <3>2
  <2>2. SettledIn(Idle, notes', removed)
    BY <1>12, <1>14, <2>1 DEF SettledIn
  <2>3. CleanIn(Idle, notes', removed)
    BY IdleFacts, LooseClean
  <2> QED
    BY <1>1, <1>12, <1>14, <2>2, <2>3, IdleFacts DEF AloneWell
<1>15. PICK h \in HandlerType :
          /\ Move(c, h)
          /\ AloneWell(call[c], notes, removed) => AloneWell(h, notes', removed')
  BY <1>1, <1>11, <1>13, <1>14, IdleFacts
<1> QED
  BY <1>1, <1>15, CleanStep

LEMMA DeclinesClean ==
    ASSUME IInv, CleanInv, NEW c \in Calls, CountDeclines(c)
    PROVE  CleanInv'
<1> DEFINE p == call[c].to
           g == [call[c] EXCEPT !.pc = "remove"]
<1>1. /\ call[c].pc = "declines" /\ call[c] # Idle /\ UNCHANGED <<notes, removed, overlapped>>
      /\ \/ SecondDecline(p) /\ Move(c, g) /\ NoFault
         \/ ~SecondDecline(p) /\ Move(c, Idle) /\ NoFault
         \/ Move(c, Idle) /\ Fault
  BY IdleFacts DEF CountDeclines, Goto, End
<1>2. g \in HandlerType /\ g.pc = "remove" /\ g.to = p
  BY HandlerFacts DEF HandlerType
<1> HIDE DEF g
<1>3. SecondDecline(p) <=> CountIn(notes, p) >= 2
  BY CountForms DEF SecondDecline
<1>4. ASSUME AloneWell(call[c], notes, removed) PROVE p \notin removed
  BY <1>1, <1>4 DEF AloneWell, CleanIn
<1>5. CASE SecondDecline(p) /\ Move(c, g) /\ NoFault
  <2>1. ASSUME AloneWell(call[c], notes, removed) PROVE AloneWell(g, notes', removed')
    <3>1. CleanIn(g, notes, removed)
      BY <1>2, <1>3, <1>4, <1>5, <2>1 DEF CleanIn, Asking
    <3> QED
      BY <1>1, <1>2, <2>1, <3>1, CleanMove
  <2> QED
    BY <1>1, <1>2, <1>5, <2>1, CleanStep
<1>6. CASE ~SecondDecline(p) /\ Move(c, Idle) /\ NoFault
  <2>1. ASSUME AloneWell(call[c], notes, removed) PROVE AloneWell(Idle, notes', removed')
    <3>1. CleanIn(Idle, notes, removed)
      BY IdleFacts, LooseClean
    <3>2. SettledIn(Idle, notes, removed)
      BY <1>1, <1>3, <1>4, <1>6, <2>1 DEF AloneWell, SettledIn
    <3>3. ToldIn(Idle, notes, removed)
      BY <1>1, <2>1 DEF AloneWell, ToldIn
    <3>4. AskedAgainIn(Idle, notes, removed)
      BY <1>1, <2>1 DEF AloneWell, AskedAgainIn
    <3> QED
      BY <1>1, <2>1, <3>1, <3>2, <3>3, <3>4 DEF AloneWell
  <2> QED
    BY <1>1, <1>6, <2>1, IdleFacts, CleanStep
<1>7. CASE Move(c, Idle) /\ Fault
  <2>1. ~NoFault
    BY <1>7, HandlerFacts DEF Fault, NoFault
  <2> QED
    BY <1>1, <1>7, <2>1, IdleFacts, CleanStep
<1> QED
  BY <1>1, <1>5, <1>6, <1>7

\* The removed provider is told next.
LEMMA RemoveClean ==
    ASSUME IInv, CleanInv, NEW c \in Calls, RemoveProviderFromSession(c)
    PROVE  CleanInv'
<1> DEFINE p == call[c].to
           g == [call[c] EXCEPT !.pc = "tell"]
<1>1. /\ call[c].pc = "remove" /\ call[c] # Idle /\ removed' = removed \cup {p}
      /\ UNCHANGED <<notes, overlapped>> /\ NoFault
      /\ (Move(c, Idle) /\ p \in removed) \/ (Move(c, g) /\ p \notin removed)
  BY IdleFacts DEF RemoveProviderFromSession, NewlyRemoved, Goto, End, NoFault
<1>2. g \in HandlerType /\ g.pc = "tell" /\ g.to = p
  BY HandlerFacts DEF HandlerType
<1> HIDE DEF g
<1>3. ASSUME AloneWell(call[c], notes, removed)
      PROVE  p \notin removed /\ AloneWell(g, notes', removed')
  <2>1. p \notin removed /\ CountIn(notes, p) >= 2
    BY <1>1, <1>3 DEF AloneWell, CleanIn
  <2>2. CleanIn(g, notes', removed')
    BY <1>2, LooseClean
  <2>3. SettledIn(g, notes', removed')
    BY <1>1, <1>3, <2>1 DEF AloneWell, SettledIn
  <2>4. ToldIn(g, notes', removed')
    BY <1>1, <1>2, <1>3 DEF AloneWell, ToldIn
  <2>5. AskedAgainIn(g, notes', removed')
    BY <1>1, <1>3 DEF AloneWell, AskedAgainIn
  <2> QED
    BY <1>1, <1>3, <2>1, <2>2, <2>3, <2>4, <2>5 DEF AloneWell
<1>4. PICK h \in HandlerType :
          /\ Move(c, h)
          /\ AloneWell(call[c], notes, removed) => AloneWell(h, notes', removed')
  BY <1>1, <1>2, <1>3, IdleFacts
<1> QED
  BY <1>1, <1>4, CleanStep

\* The removed provider is told, and everybody who stays is asked next.
LEMMA TellClean ==
    ASSUME IInv, CleanInv, NEW c \in Calls, TellRemoved(c)
    PROVE  CleanInv'
<1> DEFINE p == call[c].to
           n == Note("removal", p, 0, FALSE)
<1>0. /\ call[c].pc = "tell" /\ call[c] # Idle /\ UNCHANGED <<removed, overlapped>>
      /\ p \in Providers
  BY IdleFacts, HandlerFacts DEF TellRemoved, WellIn, HasRecipient
<1>1. PICK rest \in {Remaining(p), Requested \ {p}, {}}, told \in BOOLEAN :
          /\ Move(c, IF rest = {} THEN Idle ELSE [call[c] EXCEPT !.pc = "recount", !.todo = rest])
          /\ IF rest = Remaining(p) /\ told THEN NoFault ELSE Fault
          /\ notes' = IF told THEN Append(notes, n) ELSE notes
  BY DEF TellRemoved
<1>2. /\ notes \in Seq(NoteType)
      /\ \A i \in DOMAIN notes : notes[i] \in NoteType
  BY SeqFacts DEF IInv, TypeOK
<1>3. rest \in SUBSET Providers
  <2>1. Requested \subseteq Providers
    BY <1>2 DEF Requested, NoteType
  <2> QED
    BY <1>1, <2>1 DEF Remaining
<1>4. n \in NoteType /\ n.response = "none" /\ n.kind = "removal" /\ n.to = p
  BY <1>0 DEF Note, NoteType, Responses, Kinds
<1>5. (NoFault \/ Fault) /\ (NoFault => rest = Remaining(p) /\ notes' = Append(notes, n))
  <2>1. faults \in Nat
    BY HandlerFacts
  <2>2. ~(NoFault /\ Fault)
    BY <2>1 DEF NoFault, Fault
  <2>3. CASE rest = Remaining(p) /\ told
    BY <1>1, <2>3
  <2>4. CASE ~(rest = Remaining(p) /\ told)
    <3>1. Fault
      BY <1>1, <2>4, Zenon
    <3> QED
      BY <2>2, <3>1
  <2> QED
    BY <2>3, <2>4
<1> HIDE DEF n
<1> DEFINE g == [call[c] EXCEPT !.pc = "recount", !.todo = rest]
<1>6. g \in HandlerType /\ g.pc = "recount" /\ g.todo = rest
  BY <1>3, HandlerFacts DEF HandlerType
<1>7. (rest = {} /\ Move(c, Idle)) \/ Move(c, g)
  BY <1>1
<1> HIDE DEF g
<1>8. PICK h \in HandlerType :
          /\ Move(c, h)
          /\ (rest = {} /\ h.pc = "idle") \/ (h.pc = "recount" /\ h.todo = rest)
  BY <1>6, <1>7, IdleFacts
<1>9. ASSUME NoFault, AloneWell(call[c], notes, removed)
      PROVE  AloneWell(h, notes', removed')
  <2> DEFINE new == Len(notes) + 1
  <2>0. new = Len(notes) + 1
    OBVIOUS
  <2> HIDE DEF new
  <2>1. rest = Requested \ removed /\ notes' = Append(notes, n) /\ removed' = removed
    BY <1>0, <1>5, <1>9 DEF Remaining
  <2>2. /\ DOMAIN notes' = DOMAIN notes \cup {new} /\ notes'[new] = n
        /\ new \notin DOMAIN notes /\ new \in Nat
        /\ \A i \in DOMAIN notes : notes'[i] = notes[i] /\ i < new /\ i \in Nat
    BY <1>2, <1>4, <2>0, <2>1, AppendFacts, SeqFacts
  <2>3. n.kind \notin SessionScoped /\ n.kind \notin Asks
    BY <1>4 DEF SessionScoped, Asks
  <2>4. /\ SettledIn(call[c], notes', removed) /\ WarnedIn(notes')
        /\ ToldIn(call[c], notes', removed)
        /\ \A q : AsksIn(notes, q) \subseteq AsksIn(notes', q)
    BY <1>2, <1>4, <1>9, <2>1, <2>3, CleanAppend
  <2>5. CleanIn(h, notes', removed)
    <3>1. rest \cap removed = {}
      BY <2>1
    <3> QED
      BY <1>8, <3>1, LooseClean
  <2>6. SettledIn(h, notes', removed)
    BY <1>0, <2>4 DEF SettledIn
  <2>7. ToldIn(h, notes', removed)
    <3>1. LastWord(notes', new, p)
      <4>1. \A k \in DOMAIN notes' : ~(k > new)
        BY <2>2
      <4> QED
        BY <1>4, <2>2, <4>1 DEF LastWord
    <3> QED
      BY <2>2, <2>4, <3>1 DEF ToldIn
  <2>8. AskedAgainIn(h, notes', removed)
    <3> SUFFICES ASSUME NEW i \in DOMAIN notes', NEW k \in DOMAIN notes', notes'[i].kind = "removal",
                        k < i, notes'[k].kind = "request", notes'[k].to \notin removed
                 PROVE  \/ AskedSince(notes', i, notes'[k].to)
                        \/ h.pc \in {"recount", "update"} /\ notes'[k].to \in h.todo
      BY DEF AskedAgainIn
    <3>1. k \in DOMAIN notes /\ notes'[k] = notes[k]
      BY <1>4, <2>2
    <3>2. notes[k].to \in rest
      BY <2>1, <3>1 DEF Requested
    <3> QED
      BY <1>8, <3>1, <3>2
  <2> QED
    BY <2>1, <2>4, <2>5, <2>6, <2>7, <2>8 DEF AloneWell
<1> QED
  BY <1>0, <1>5, <1>8, <1>9, CleanStep

LEMMA AbortClean ==
    ASSUME IInv, CleanInv, NEW c \in Calls, Abort(c)
    PROVE  CleanInv'
<1>1. Move(c, Idle) /\ call[c] # Idle /\ UNCHANGED overlapped /\ Fault
  BY DEF Abort, End
<1>2. ~NoFault
  BY <1>1, HandlerFacts DEF Fault, NoFault
<1> QED
  BY <1>1, <1>2, IdleFacts, CleanStep

LEMMA InitClean == Init => CleanInv
<1> SUFFICES ASSUME Init PROVE CleanInv
  OBVIOUS
<1>1. notes = <<>> /\ notes \in Seq(NoteType) /\ DOMAIN notes = {} /\ removed = {}
  BY EmptySeq DEF Init
<1>2. Current = Idle /\ OneHandler
  BY DEF Init, Current, CurrentIn, OneHandler
<1>3. \A p : ~(CountIn(notes, p) >= 2)
  <2> TAKE p
  <2>1. DeclinersIn(notes, p) = {}
    BY <1>1 DEF DeclinersIn, AsksIn
  <2>2. CountIn(notes, p) \in Nat /\ ~(CountIn(notes, p) >= 1)
    BY <1>1, <2>1, CountInFacts
  <2> QED
    BY <2>2
<1>4. CleanIn(Idle, notes, removed)
  BY IdleFacts, LooseClean
<1>5. SettledIn(Idle, notes, removed)
  BY <1>1, <1>3 DEF SettledIn
<1>6. WarnedIn(notes) /\ ToldIn(Idle, notes, removed) /\ AskedAgainIn(Idle, notes, removed)
  BY <1>1 DEF WarnedIn, ToldIn, AskedAgainIn
<1> QED
  BY <1>2, <1>4, <1>5, <1>6 DEF CleanInv, AloneWell

LEMMA CleanInvStep == IInv /\ CleanInv /\ [Next]_vars => CleanInv'
<1> SUFFICES ASSUME IInv, CleanInv, [Next]_vars PROVE CleanInv'
  OBVIOUS
<1>1. CASE UNCHANGED vars
  BY <1>1 DEF vars, CleanInv, OneHandler, Sequential, Clean, Current
<1> QED
  BY <1>1, StepForms, PostClean, AnswerClean, CountClean, SendClean, StoreClean, DeclinesClean,
     RemoveClean, TellClean, AbortClean

LEMMA CleanInvariance == Spec => []CleanInv
  BY InitClean, CleanInvStep, Invariance, PTL DEF Spec

(***************************************************************************)
(* The theorems                                                            *)
(***************************************************************************)
LEMMA QuietFacts ==
    ASSUME CleanInv, Clean, Quiet
    PROVE  AloneWell(Idle, notes, removed)
<1>1. Current = Idle
  BY DEF Quiet, Current, CurrentIn
<1> QED
  BY <1>1 DEF CleanInv

\* Two declines are on two asks, the later of which was sent with the warning.
LEMMA TwoDeclines ==
    ASSUME NEW ns \in Seq(NoteType), NEW p, CountIn(ns, p) >= 2, WarnedIn(ns)
    PROVE  \E m \in DeclinersIn(ns, p) : ns[m].final
<1> DEFINE D == DeclinersIn(ns, p)
<1>1. IsFiniteSet(D) /\ Cardinality(D) \in Nat /\ Cardinality(D) >= 2
  BY CountInFacts DEF CountIn
<1>2. \A i \in D : i \in DOMAIN ns /\ i \in Nat /\ ns[i].to = p /\ ns[i].kind \in Asks
  BY SeqFacts DEF DeclinersIn, AsksIn
<1> HIDE DEF D
<1>3. PICK k \in D : TRUE
  <2>1. Cardinality({}) = 0
    BY FS_EmptySet
  <2>2. ASSUME D = {} PROVE FALSE
    <3>1. Cardinality(D) = Cardinality({})
      BY <2>2
    <3> QED
      BY <1>1, <2>1, <3>1
  <2> QED
    BY <2>2
<1>4. PICK m \in D : m # k
  <2>1. Cardinality({k}) = 1
    BY FS_Singleton
  <2>2. ASSUME D = {k} PROVE FALSE
    <3>1. Cardinality(D) = Cardinality({k})
      BY <2>2
    <3> QED
      BY <1>1, <2>1, <3>1
  <2> QED
    BY <1>3, <2>2
<1>5. \A i, j \in D : i < j => ns[j].final
  BY <1>2 DEF WarnedIn, D
<1>6. k < m \/ m < k
  BY <1>2, <1>3, <1>4
<1> QED
  BY <1>3, <1>4, <1>5, <1>6 DEF D

\* Whatever handlers overlap, fail or stop half way, notifications are of the
\* session's providers, and every answer is to one that exists.
THEOREM TypeCorrect == Spec => []TypeOK
<1>1. IInv => TypeOK
  BY DEF IInv
<1> QED
  BY <1>1, Invariance, PTL

\* CountParticipationDeclines, removeProviderFromSession: no interleaving warns
\* a provider that never declined, removes one that declined once, or tells a
\* removal twice.
THEOREM OnlyDecliners == Spec => []OnlyDeclinersSanctioned
<1>1. IInv => OnlyDeclinersSanctioned
  BY DEF IInv
<1> QED
  BY <1>1, Invariance, PTL

\* respondToNotification: run one at a time and without a failure, the handlers
\* put out exactly the providers with two declines, each of them warned.
THEOREM SecondDeclines == Spec => []SecondDeclineRemoves
<1>1. ASSUME IInv, CleanInv, Clean, Quiet
      PROVE  /\ removed = {p \in Providers : CountParticipationDeclines(p) >= 2}
             /\ \A p \in removed : \E i \in DeclinedBy(p) : notes[i].final
  <2>1. SettledIn(Idle, notes, removed) /\ WarnedIn(notes)
    BY <1>1, QuietFacts DEF AloneWell
  <2>2. removed \subseteq Providers /\ notes \in Seq(NoteType)
    BY <1>1 DEF IInv, TypeOK
  <2>3. \A p \in Providers : p \in removed <=> CountIn(notes, p) >= 2
    BY <2>1, IdleFacts DEF SettledIn
  <2>4. ASSUME NEW p \in removed PROVE \E i \in DeclinedBy(p) : notes[i].final
    <3>1. PICK i \in DeclinersIn(notes, p) : notes[i].final
      BY <2>1, <2>2, <2>3, TwoDeclines
    <3>2. i \in DeclinesIn(notes, declined, p)
      BY <1>1 DEF IInv, NotesWell, DeclinersIn, DeclinesIn, AsksIn
    <3> QED
      BY <3>1, <3>2, Forms
  <2>5. removed = {p \in Providers : CountParticipationDeclines(p) >= 2}
    BY <2>2, <2>3, CountForms
  <2> QED
    BY <2>4, <2>5
<1>2. IInv /\ CleanInv => SecondDeclineRemoves
  BY <1>1 DEF SecondDeclineRemoves
<1> QED
  BY <1>2, Invariance, CleanInvariance, PTL

\* removeProviderFromSession: run one at a time and without a failure, the
\* removed provider is told and left alone, and everybody else asked again.
THEOREM Announced == Spec => []RemovalIsAnnounced
<1>1. ASSUME IInv, CleanInv, Clean, Quiet, NEW p \in removed
      PROVE  \E i \in DOMAIN notes :
                /\ notes[i].kind = "removal" /\ notes[i].to = p
                /\ \A k \in DOMAIN notes :
                      (k > i /\ notes[k].to = p) => notes[k].kind \notin SessionScoped
                /\ \A k \in 1 .. i - 1 :
                      (notes[k].kind = "request" /\ notes[k].to \notin removed) =>
                          \E m \in AsksOf(notes[k].to) : m > i
  <2>1. ToldIn(Idle, notes, removed) /\ AskedAgainIn(Idle, notes, removed)
    BY <1>1, QuietFacts DEF AloneWell
  <2>2. PICK i \in DOMAIN notes : LastWord(notes, i, p)
    BY <2>1, IdleFacts DEF ToldIn
  <2>3. \A k \in 1 .. i - 1 : k \in DOMAIN notes /\ k < i
    <3>1. Len(notes) \in Nat /\ DOMAIN notes = 1..Len(notes)
      BY <1>1, SeqFacts DEF IInv, TypeOK
    <3> QED
      BY <3>1
  <2> QED
    BY <2>1, <2>2, <2>3, IdleFacts, Forms DEF LastWord, AskedAgainIn, AskedSince
<1>2. IInv /\ CleanInv => RemovalIsAnnounced
  BY <1>1 DEF RemovalIsAnnounced
<1> QED
  BY <1>2, Invariance, CleanInvariance, PTL
===============================================================================
