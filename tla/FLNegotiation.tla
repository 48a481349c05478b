---------------------------- MODULE FLNegotiation ----------------------------
(***************************************************************************)
(* Participation negotiation of one FL session (submission).               *)
(*                                                                         *)
(* The output owner invites providers with POST /notifications; a provider *)
(* answers an ask with POST /notifications/{key}/respond.  One decline is  *)
(* free; the second one removes the provider from the session, and the     *)
(* remaining providers are asked again with the updated list.  Nothing     *)
(* locks or spans a transaction: each database call of a handler is a step *)
(* of its own, and handlers interleave, fail half way and are cancelled.   *)
(*                                                                         *)
(* Covered: the order of notifications, their answers, rounds and final    *)
(* warnings, the removed providers.  Not covered: texts, the provider      *)
(* lists in payloads, the read flag, and notifications of other kinds.     *)
(* What an accepted ask does to the session's contract is in FLContract.   *)
(***************************************************************************)
EXTENDS Naturals, Sequences, FiniteSets

CONSTANTS
    Providers,
    None,           \* no provider
    Calls,          \* handlers that may be in flight at once
    MaxNotes,       \* notifications the owner's requests may bring to the session
    MaxFaults       \* failing database calls and cancelled handlers

ASSUME NegotiationAssumption == None \notin Providers /\ MaxNotes \in Nat /\ MaxFaults \in Nat

VARIABLES
    notes,      \* the session's notifications to providers, in created_at order
    removed,    \* fl_session_removed_providers
    call,       \* handlers in flight
    declined,   \* history: notes that were ever answered "declined"
    overlapped, \* history: two handlers have been in flight at once
    faults

vars == <<notes, removed, call, declined, overlapped, faults>>

Asks == {"request", "update"}
Kinds == Asks \cup {"roster", "removal"}

\* sessionScopedKinds
SessionScoped == Asks \cup {"roster"}

Note(kind, p, round, final) ==
    [kind |-> kind, to |-> p, round |-> round, final |-> final, response |-> "none"]

Idle == [pc |-> "idle", kind |-> "none", todo |-> {}, note |-> 0, answer |-> "none",
         round |-> 0, final |-> FALSE, to |-> None]

AsksOf(p) == {i \in DOMAIN notes : notes[i].to = p /\ notes[i].kind \in Asks}

CountParticipationRequests(p) == Cardinality({i \in AsksOf(p) : notes[i].kind = "request"})

CountParticipationDeclines(p) ==
    Cardinality({i \in AsksOf(p) : notes[i].response = "declined"})

\* GetLatestParticipationRequests, the recipients
Requested == {notes[i].to : i \in {k \in DOMAIN notes : notes[k].kind = "request"}}

HasNewerParticipationAsk(i) == \E k \in AsksOf(notes[i].to) : k > i

Move(c, h) == call' = [call EXCEPT ![c] = h]
Goto(c, pc) == Move(c, [call[c] EXCEPT !.pc = pc])
End(c) == Move(c, Idle)

\* The loop over todo is done with p; at is where it goes on.
Continue(c, p, at) ==
    Move(c, IF call[c].todo = {p} THEN Idle
            ELSE [call[c] EXCEPT !.pc = at, !.todo = @ \ {p}])

Fault == faults < MaxFaults /\ faults' = faults + 1
NoFault == UNCHANGED faults

\* A handler starts beside the ones in flight.
Start(c) ==
    /\ call[c] = Idle
    /\ overlapped' = (overlapped \/ \E d \in Calls : call[d] # Idle)

Init ==
    /\ notes = <<>>
    /\ removed = {}
    /\ call = [c \in Calls |-> Idle]
    /\ declined = {}
    /\ overlapped = FALSE
    /\ faults = 0

(***************************************************************************)
(* POST /notifications                                                     *)
(***************************************************************************)
\* The removed set is read once, before the first notification.  An updated
\* list (participation_update) is sent by a removal here: the
\* repository has no client that posts one.
PostNotifications(c, kind, recipients) ==
    /\ Start(c)
    /\ Len(notes) < MaxNotes
    /\ recipients \ removed # {}
    /\ Move(c, [Idle EXCEPT !.pc = IF kind = "request" THEN "count" ELSE "create",
                            !.kind = kind, !.todo = recipients \ removed])
    /\ UNCHANGED <<notes, removed, declined, faults>>

\* The round and the final warning are counted before the ask is created.
NextAsk(p) ==
    [round |-> CountParticipationRequests(p) + 1, final |-> CountParticipationDeclines(p) >= 1]

CountAsk(c) ==
    /\ call[c].pc = "count"
    /\ \E p \in call[c].todo :
          Move(c, [call[c] EXCEPT !.pc = "create", !.to = p,
                                  !.round = NextAsk(p).round, !.final = NextAsk(p).final])
    /\ UNCHANGED <<notes, removed, declined, overlapped, faults>>

\* CreateNotification, and on to the next recipient.
CreateAsk(c) ==
    /\ call[c].pc = "create" /\ call[c].kind = "request"
    /\ notes' = Append(notes, Note("request", call[c].to, call[c].round, call[c].final))
    /\ Continue(c, call[c].to, "count")
    /\ UNCHANGED <<removed, declined, overlapped, faults>>

CreateRoster(c) ==
    /\ call[c].pc = "create" /\ call[c].kind = "roster"
    /\ \E p \in call[c].todo :
          /\ notes' = Append(notes, Note("roster", p, 0, FALSE))
          /\ Continue(c, p, "create")
    /\ UNCHANGED <<removed, declined, overlapped, faults>>

(***************************************************************************)
(* POST /notifications/{key}/respond                                       *)
(***************************************************************************)
MayAnswer(i) == notes[i].to \notin removed /\ ~HasNewerParticipationAsk(i)

\* A check that fails is skipped, not refused.
RespondToNotification(c, i, answer) ==
    /\ Start(c)
    /\ \/ MayAnswer(i) /\ NoFault
       \/ ~MayAnswer(i) /\ Fault
    /\ Move(c, [Idle EXCEPT !.pc = "respond", !.note = i, !.answer = answer, !.to = notes[i].to])
    /\ UNCHANGED <<notes, removed, declined>>

Answered(note, answer) == [note EXCEPT !.response = answer]

\* An answer given before is overwritten.  Accepting ends here: what is left
\* is SignDataProviderParty, on the session's contract.
StoreResponse(c) ==
    LET i == call[c].note IN
    /\ call[c].pc = "respond"
    /\ notes' = [notes EXCEPT ![i] = Answered(@, call[c].answer)]
    /\ declined' = IF call[c].answer = "declined" THEN declined \cup {i} ELSE declined
    /\ IF call[c].answer = "declined" THEN Goto(c, "declines") ELSE End(c)
    /\ UNCHANGED <<removed, overlapped, faults>>

\* Mutant of SecondDecline: the free decline is the third one.
ThirdDecline(p) == CountParticipationDeclines(p) >= 3

SecondDecline(p) == CountParticipationDeclines(p) >= 2

\* A failed count counts as a first decline.
CountDeclines(c) ==
    /\ call[c].pc = "declines"
    /\ \/ SecondDecline(call[c].to) /\ Goto(c, "remove") /\ NoFault
       \/ ~SecondDecline(call[c].to) /\ End(c) /\ NoFault
       \/ End(c) /\ Fault
    /\ UNCHANGED <<notes, removed, declined, overlapped>>

(***************************************************************************)
(* removeProviderFromSession                                               *)
(***************************************************************************)
\* Mutant of NewlyRemoved: the insert's row count is not looked at.
AlwaysRemoved(p) == TRUE

\* ON CONFLICT DO NOTHING
NewlyRemoved(p) == p \notin removed

RemoveProviderFromSession(c) ==
    /\ call[c].pc = "remove"
    /\ IF NewlyRemoved(call[c].to) THEN Goto(c, "tell") ELSE End(c)
    /\ removed' = removed \cup {call[c].to}
    /\ UNCHANGED <<notes, declined, overlapped, faults>>

\* Mutant of Remaining: only providers that answered are asked again.
RemainingAnswered(p) ==
    {notes[i].to : i \in {k \in DOMAIN notes : notes[k].response # "none"}} \ removed

Remaining(p) == Requested \ removed

\* The remaining providers are read, then the removed one is told; each of
\* these calls may fail and is only logged.  They are one step: what another
\* handler stores between them is not explored.
TellRemoved(c) ==
    LET p == call[c].to IN
    /\ call[c].pc = "tell"
    /\ \E rest \in {Remaining(p), Requested \ {p}, {}}, told \in BOOLEAN :
          /\ IF rest = Remaining(p) /\ told THEN NoFault ELSE Fault
          /\ notes' = IF told THEN Append(notes, Note("removal", p, 0, FALSE)) ELSE notes
          /\ Move(c, IF rest = {} THEN Idle ELSE [call[c] EXCEPT !.pc = "recount", !.todo = rest])
    /\ UNCHANGED <<removed, declined, overlapped>>

\* A failed count reads as zero.
CountUpdate(c) ==
    /\ call[c].pc = "recount"
    /\ \E p \in call[c].todo :
          \E round \in {0, CountParticipationRequests(p)},
             final \in {FALSE, CountParticipationDeclines(p) >= 1} :
             /\ IF /\ round = CountParticipationRequests(p)
                   /\ final <=> CountParticipationDeclines(p) >= 1
                THEN NoFault ELSE Fault
             /\ Move(c, [call[c] EXCEPT !.pc = "update", !.to = p, !.round = round, !.final = final])
    /\ UNCHANGED <<notes, removed, declined, overlapped>>

SendUpdate(c) ==
    /\ call[c].pc = "update"
    /\ \/ notes' = Append(notes, Note("update", call[c].to, call[c].round, call[c].final)) /\ NoFault
       \/ UNCHANGED notes /\ Fault
    /\ Continue(c, call[c].to, "recount")
    /\ UNCHANGED <<removed, declined, overlapped>>

\* The client hangs up, a database call fails with a 500, or gov_layer
\* crashes: the handler stops where it is.
Abort(c) ==
    /\ call[c] # Idle /\ Fault
    /\ End(c)
    /\ UNCHANGED <<notes, removed, declined, overlapped>>

PostStep(c) == CountAsk(c) \/ CreateAsk(c) \/ CreateRoster(c)
RespondStep(c) == StoreResponse(c) \/ CountDeclines(c)
RemoveStep(c) ==
    \/ RemoveProviderFromSession(c) \/ TellRemoved(c)
    \/ CountUpdate(c) \/ SendUpdate(c)

Next == \E c \in Calls :
    \/ \E kind \in {"request", "roster"}, ps \in SUBSET Providers \ {{}} :
          PostNotifications(c, kind, ps)
    \/ \E i \in {k \in DOMAIN notes : notes[k].kind \in Asks}, answer \in {"accepted", "declined"} :
          RespondToNotification(c, i, answer)
    \/ PostStep(c) \/ RespondStep(c) \/ RemoveStep(c) \/ Abort(c)

Spec == Init /\ [][Next]_vars

(***************************************************************************)
(* Properties                                                              *)
(***************************************************************************)
Responses == {"none", "accepted", "declined"}
NoteType == [kind : Kinds, to : Providers, round : Nat, final : BOOLEAN, response : Responses]
HandlerType ==
    [pc : {"idle", "count", "create", "respond", "declines", "remove", "tell", "recount", "update"},
     kind : {"none", "request", "roster"}, todo : SUBSET Providers, note : Nat,
     answer : Responses, round : Nat, final : BOOLEAN, to : Providers \cup {None}]

\* The type invariant.
TypeOK ==
    /\ notes \in Seq(NoteType)
    /\ removed \subseteq Providers
    /\ call \in [Calls -> HandlerType]
    /\ declined \subseteq DOMAIN notes
    /\ overlapped \in BOOLEAN /\ faults \in Nat

Quiet == \A c \in Calls : call[c] = Idle
Sequential == ~overlapped
Clean == Sequential /\ faults = 0

DeclinedBy(p) == declined \cap AsksOf(p)

\* "A provider who's only ever said willing is never warned or removed", one
\* decline never removes, and a removed provider is told so once: also when
\* answers race, are given again or fail half way, and two declines are both
\* counted as the second (CountParticipationDeclines, removeProviderFromSession).
OnlyDeclinersSanctioned ==
    /\ \A p \in removed : Cardinality(DeclinedBy(p)) >= 2
    /\ \A i \in DOMAIN notes : notes[i].final =>
          \E k \in DeclinedBy(notes[i].to) : k < i
    /\ \A i, k \in DOMAIN notes :
          (notes[i].kind = "removal" /\ notes[k].kind = "removal" /\ notes[i].to = notes[k].to)
              => i = k

\* While handlers run one at a time and none fails, the providers out of the
\* session are exactly those whose second decline was answered, and each was
\* warned: one of its declines was on an ask with the final warning.
SecondDeclineRemoves ==
    (Clean /\ Quiet) =>
        /\ removed = {p \in Providers : CountParticipationDeclines(p) >= 2}
        /\ \A p \in removed : \E i \in DeclinedBy(p) : notes[i].final

\* While handlers run one at a time and none fails, every removal is told to
\* the removed provider, who gets no session notification any more ("a removed
\* provider never receives these again"), and everybody who remains is asked
\* again: their newest ask is newer than the removal.
RemovalIsAnnounced ==
    (Clean /\ Quiet) => \A p \in removed : \E i \in DOMAIN notes :
        /\ notes[i].kind = "removal" /\ notes[i].to = p
        /\ \A k \in DOMAIN notes :
              (k > i /\ notes[k].to = p) => notes[k].kind \notin SessionScoped
        /\ \A k \in 1 .. i - 1 :
              (notes[k].kind = "request" /\ notes[k].to \notin removed) =>
                  \E m \in AsksOf(notes[k].to) : m > i
===============================================================================
