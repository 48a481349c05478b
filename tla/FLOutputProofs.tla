---------------------------- MODULE FLOutputProofs ----------------------------
(***************************************************************************)
(* Proofs about FLOutput, for any number of overlapping requests, uploads, *)
(* rounds, failures and crashes.                                           *)
(***************************************************************************)
EXTENDS FLOutput, SequenceTheorems, WellFoundedInduction, TLAPS

(***************************************************************************)
(* The inductive invariant                                                 *)
(***************************************************************************)
\* An upload is placed once, complete, and answered after that.
UploadsOrdered ==
    \A c \in Calls :
        /\ call[c].pc \in {"parts", "copy"} =>
              /\ sent[call[c].upload] = 0
              /\ call[c].model => call[c].upload \in received
        /\ call[c].pc \in {"output", "rename"} =>
              /\ call[c].round # 0 /\ sent[call[c].upload] = call[c].round
              /\ call[c].upload \in received
        /\ Uploading(c) => call[c].upload \notin stored

\* No two requests work on one upload.
UploadsDistinct ==
    \A c, d \in Calls :
        (Uploading(c) /\ Uploading(d) /\ call[c].upload = call[d].upload) => c = d

\* A visible file is that of a whole upload, and a placed round keeps a model.
FilesWhole ==
    /\ \A r \in Rounds : models[r] # 0 => models[r] \in received /\ sent[models[r]] = r
    /\ output # 0 => output \in received /\ sent[output] # 0
    /\ \A u \in DOMAIN sent : sent[u] # 0 => models[sent[u]] # 0

\* Without a crash, a temporary file has a request that will remove it.
TempsOwned ==
    crashes = 0 => \A t \in temps : \E c \in Calls :
        /\ call[c].upload = t[1]
        /\ \/ t[2] = "model" /\ call[c].pc \in {"parts", "copy"}
           \/ t[2] = "metrics" /\ call[c].pc = "rename"

\* A model of round r or a later one is there; it stays there.
Covered(r) == r = 0 \/ \E q \in Stored : q >= r

\* What was promised is there, and what readers saw is no less than what was
\* promised when they started.
PromisesKept ==
    /\ Covered(known.round) /\ (known.ready => output # 0)
    /\ \A c \in Calls :
          /\ call[c].pc = "list" =>
                /\ call[c].seen # 0 => output # 0 /\ sent[call[c].seen] # 0
                /\ call[c].floor.ready => call[c].seen # 0
                /\ Covered(call[c].floor.round)
          /\ call[c].pc = "open" =>
                Covered(call[c].seen) /\ call[c].floor.round <= call[c].seen
    /\ (answer.kind = "get" /\ answer.metrics # 0) => sent[answer.metrics] # 0

\* While uploads do not overlap, the one in flight is the last, and the last
\* one placed owns its round's model and, once answered, the metrics.
LastOwns ==
    ~mixed =>
        /\ \A c \in Calls : Uploading(c) =>
              /\ call[c].upload = Len(sent)
              /\ \A d \in Calls : Uploading(d) => c = d
        /\ \A u \in Placed : (\A v \in Placed : v <= u) =>
              models[sent[u]] = u /\ (u \in stored => output = u)

IInv ==
    /\ TypeOK /\ UploadsOrdered /\ UploadsDistinct /\ FilesWhole /\ TempsOwned
    /\ PromisesKept /\ LastOwns /\ MetricsHaveModel /\ AnswersAdvance

(***************************************************************************)
(* Sequences, rounds and requests                                          *)
(***************************************************************************)
LEMMA SeqFacts ==
    ASSUME NEW S, NEW s \in Seq(S)
    PROVE  /\ Len(s) \in Nat /\ DOMAIN s = 1..Len(s)
           /\ \A i \in DOMAIN s : s[i] \in S
  BY LenProperties, ElementOfSeq

\* A set of rounds has a greatest one.
LEMMA GreatestExists ==
    ASSUME NEW n \in Nat, NEW S, S \subseteq 1..n, S # {}
    PROVE  \E s \in S : \A t \in S : s >= t
<1> DEFINE R == {ss \in Nat \X Nat : ss[1] < ss[2]}
           T == {m \in Nat : \E s \in S : m = n - s}
<1>1. IsWellFoundedOn(R, Nat)
  BY NatLessThanWellFounded, Zenon DEF OpToRel
<1>2. T \subseteq Nat /\ T # {}
  <2>1. PICK s \in S : TRUE
    OBVIOUS
  <2>2. n - s \in Nat
    BY <2>1
  <2> QED
    BY <2>1, <2>2
<1>3. PICK m \in T : \A k \in T : ~(<<k, m>> \in R)
  BY <1>1, <1>2, WFMin
<1>4. PICK s \in S : m = n - s
  BY <1>3
<1>5. ASSUME NEW t \in S PROVE s >= t
  <2>1. n - t \in T /\ n - t \in Nat /\ m \in Nat
    BY <1>3
  <2>2. ~(n - t < m)
    BY <1>3, <2>1
  <2>3. s \in 1..n /\ t \in 1..n
    BY <1>4, <1>5
  <2> QED
    BY <1>4, <2>2, <2>3
<1> QED
  BY <1>5

LEMMA MaxFacts ==
    ASSUME NEW S, \E s \in S : \A t \in S : s >= t
    PROVE  Max(S) \in S /\ \A t \in S : Max(S) >= t
  BY DEF Max

LEMMA MaxOfTwo ==
    ASSUME NEW a \in Nat, NEW b \in Nat
    PROVE  Max({a, b}) \in {a, b} /\ Max({a, b}) >= a /\ Max({a, b}) >= b
<1>1. \E s \in {a, b} : \A t \in {a, b} : s >= t
  OBVIOUS
<1> QED
  BY <1>1, MaxFacts

\* flSessionModel returns the highest round that has a model.
LEMMA HighestFacts ==
    /\ Highest \in 0..MaxRound
    /\ Highest = 0 \/ Highest \in Stored
    /\ \A q \in Stored : Highest >= q
    /\ Stored # {} => Highest # 0
<1>1. CASE Stored = {}
  BY <1>1, FLOutputAssumption DEF Highest
<1>2. CASE Stored # {}
  <2>1. Stored \subseteq 1..MaxRound /\ MaxRound \in Nat
    BY FLOutputAssumption DEF Stored, Rounds
  <2>2. Max(Stored) \in Stored /\ \A q \in Stored : Max(Stored) >= q
    BY <1>2, <2>1, GreatestExists, MaxFacts
  <2>3. Highest = Max(Stored)
    BY <1>2 DEF Highest
  <2>4. Highest \in Stored /\ \A q \in Stored : Highest >= q
    BY <2>2, <2>3
  <2>5. Highest \in 1..MaxRound
    BY <2>1, <2>4
  <2>6. Highest \in 0..MaxRound /\ Highest # 0
    BY <2>1, <2>5
  <2> QED
    BY <2>4, <2>6
<1> QED
  BY <1>1, <1>2

LEMMA CoveredFacts ==
    /\ Covered(Highest)
    /\ \A r \in Nat : Covered(r) => r <= Highest
<1>1. Covered(Highest)
  BY HighestFacts DEF Covered
<1>2. ASSUME NEW r \in Nat, Covered(r) PROVE r <= Highest
  <2>1. \A q \in Stored : q \in Nat
    BY DEF Stored, Rounds
  <2> QED
    BY <1>2, <2>1, HighestFacts DEF Covered
<1> QED
  BY <1>1, <1>2

LEMMA KnownType ==
    /\ Nothing \in Known
    /\ \A k \in Known : k.round \in 0..MaxRound /\ k.ready \in BOOLEAN
  BY FLOutputAssumption DEF Nothing, Known

LEMMA UploadType ==
    ASSUME NEW pc \in {"idle", "parts"}, NEW u \in Nat, NEW metrics \in BOOLEAN,
           NEW round \in 0..MaxRound, NEW model \in BOOLEAN
    PROVE  LET h == Upload(pc, u, metrics, round, model) IN
           h \in CallType /\ h.pc = pc /\ h.upload = u /\ h.round = round /\ h.model = model
  BY KnownType DEF Upload, CallType

LEMMA ReaderType ==
    ASSUME known \in Known, NEW pc \in {"list", "open"}, NEW seen \in Nat
    PROVE  LET h == Reader(pc, seen) IN
           h \in CallType /\ h.pc = pc /\ h.seen = seen /\ h.floor = known
  BY FLOutputAssumption DEF Reader, CallType

LEMMA IdleType == Idle \in CallType /\ Idle.pc = "idle"
  BY KnownType, FLOutputAssumption DEF Idle, Upload, CallType

\* What becomes of a request that is given a new state.
LEMMA SetEffect ==
    ASSUME TypeOK, NEW c \in Calls, NEW h \in CallType, call' = [call EXCEPT ![c] = h]
    PROVE  /\ call' \in [Calls -> CallType] /\ call'[c] = h
           /\ \A d \in Calls : d = c \/ call'[d] = call[d]
  BY DEF TypeOK

LEMMA EndEffect ==
    ASSUME TypeOK, NEW c \in Calls, End(c)
    PROVE  /\ call' \in [Calls -> CallType] /\ call'[c].pc = "idle"
           /\ \A d \in Calls : d = c \/ call'[d] = call[d]
  BY IdleType DEF End, TypeOK

LEMMA GotoEffect ==
    ASSUME TypeOK, NEW c \in Calls, NEW pc \in {"copy", "output", "rename"}, Goto(c, pc)
    PROVE  /\ call' \in [Calls -> CallType] /\ call'[c].pc = pc
           /\ call'[c].upload = call[c].upload /\ call'[c].round = call[c].round
           /\ call'[c].model = call[c].model
           /\ \A d \in Calls : d = c \/ call'[d] = call[d]
  BY DEF Goto, TypeOK, CallType

(***************************************************************************)
(* What each step does                                                     *)
(***************************************************************************)
\* The steps of an upload that gathers its parts.
Gathers(c) ==
    \/ MetricsPart(c) \/ OpenModelTemp(c) \/ CopyModel(c)
    \/ \E r \in Rounds : RoundPart(c, r)

\* The steps that end a request and leave models, metrics and history alone.
Drops(c) == Refuse(c) \/ OutputFails(c) \/ ReadFails(c)

LEMMA PostEffect ==
    ASSUME TypeOK, NEW c \in Calls, PostOutput(c)
    PROVE  LET n == Len(sent) + 1 IN
           /\ UNCHANGED <<models, output, temps, received, stored, known, answer, crashes, failures>>
           /\ n \in Nat /\ n \notin DOMAIN sent /\ DOMAIN sent' = DOMAIN sent \cup {n}
           /\ sent' \in Seq(0..MaxRound) /\ Len(sent') = n /\ sent'[n] = 0
           /\ \A u \in DOMAIN sent : sent'[u] = sent[u] /\ u \in Nat /\ u < n
           /\ call' \in [Calls -> CallType] /\ call[c].pc = "idle"
           /\ call'[c].pc = "parts" /\ call'[c].upload = n /\ call'[c].model = FALSE
           /\ \A d \in Calls : d = c \/ call'[d] = call[d]
           /\ mixed' \in BOOLEAN
           /\ ~mixed' => ~mixed /\ \A d \in Calls : ~Uploading(d)
<1> DEFINE n == Len(sent) + 1
<1>1. sent \in Seq(0..MaxRound) /\ 0 \in 0..MaxRound
  BY FLOutputAssumption DEF TypeOK
<1>2. sent' = Append(sent, 0) /\ call' = [call EXCEPT ![c] = Upload("parts", n, FALSE, 0, FALSE)]
  BY DEF PostOutput
<1>3. /\ Len(sent) \in Nat /\ DOMAIN sent = 1..Len(sent)
      /\ sent' \in Seq(0..MaxRound) /\ Len(sent') = n /\ DOMAIN sent' = 1..n
      /\ sent'[n] = 0 /\ \A u \in 1..Len(sent) : sent'[u] = sent[u]
  BY <1>1, <1>2, AppendProperties, LenProperties
<1>4. /\ n \notin DOMAIN sent /\ DOMAIN sent' = DOMAIN sent \cup {n}
      /\ \A u \in DOMAIN sent : u \in Nat /\ u < n
  BY <1>3
<1>5. /\ call' \in [Calls -> CallType]
      /\ call'[c].pc = "parts" /\ call'[c].upload = n /\ call'[c].model = FALSE
      /\ \A d \in Calls : d = c \/ call'[d] = call[d]
  <2> DEFINE h == Upload("parts", n, FALSE, 0, FALSE)
  <2>1. h \in CallType /\ h.pc = "parts" /\ h.upload = n /\ h.model = FALSE
    BY <1>1, <1>3, KnownType DEF Upload, CallType
  <2> HIDE DEF h
  <2>2. call' = [call EXCEPT ![c] = h]
    BY <1>2 DEF h
  <2> QED
    BY <2>1, <2>2, SetEffect
<1>6. /\ UNCHANGED <<models, output, temps, received, stored, known, answer, crashes, failures>>
      /\ mixed' = (mixed \/ \E d \in Calls : Uploading(d))
  BY DEF PostOutput, files, NoAnswer, Counters
<1>7. mixed' \in BOOLEAN /\ (~mixed' => ~mixed /\ \A d \in Calls : ~Uploading(d))
  BY <1>6 DEF TypeOK
<1>8. call[c].pc = "idle"
  BY IdleType DEF PostOutput
<1> QED
  BY <1>3, <1>4, <1>5, <1>6, <1>7, <1>8

LEMMA GatherEffect ==
    ASSUME TypeOK, NEW c \in Calls, Gathers(c)
    PROVE  /\ UNCHANGED <<models, output, sent, stored, known, answer, mixed, crashes, failures>>
           /\ received \subseteq received' /\ received' \subseteq DOMAIN sent
           /\ temps \subseteq temps' /\ temps' \subseteq temps \cup {<<call[c].upload, "model">>}
           /\ call' \in [Calls -> CallType]
           /\ call[c].pc \in {"parts", "copy"} /\ call'[c].pc \in {"parts", "copy"}
           /\ call'[c].upload = call[c].upload
           /\ call'[c].model => call[c].model \/ call[c].upload \in received'
           /\ \A d \in Calls : d = c \/ call'[d] = call[d]
<1>1. call[c] \in CallType /\ call[c].pc \in {"parts", "copy"} /\ call[c].upload \in DOMAIN sent
  BY DEF Gathers, MetricsPart, OpenModelTemp, CopyModel, RoundPart, TypeOK, Uploading
<1>2. UNCHANGED <<models, output, sent, stored, known, answer, mixed, crashes, failures>>
  BY DEF Gathers, MetricsPart, OpenModelTemp, CopyModel, RoundPart, files, history, NoAnswer, Counters
<1>3. CASE MetricsPart(c)
  <2>1. call' = [call EXCEPT ![c].metrics = TRUE] /\ UNCHANGED <<temps, received>>
    BY <1>3 DEF MetricsPart, files, history
  <2>2. /\ call' \in [Calls -> CallType] /\ call'[c].pc = call[c].pc
        /\ call'[c].upload = call[c].upload /\ call'[c].model = call[c].model
        /\ \A d \in Calls : d = c \/ call'[d] = call[d]
    BY <2>1 DEF TypeOK, CallType
  <2> QED
    BY <1>1, <1>2, <2>1, <2>2 DEF TypeOK
<1>4. ASSUME NEW r \in Rounds, RoundPart(c, r)
      PROVE  /\ UNCHANGED <<temps, received>> /\ call' \in [Calls -> CallType]
             /\ call'[c].pc = call[c].pc
             /\ call'[c].upload = call[c].upload /\ call'[c].model = call[c].model
             /\ \A d \in Calls : d = c \/ call'[d] = call[d]
  <2>1. call' = [call EXCEPT ![c].round = r] /\ UNCHANGED <<temps, received>>
    BY <1>4 DEF RoundPart, files, history
  <2>2. r \in 0..MaxRound
    BY FLOutputAssumption DEF Rounds
  <2>3. /\ call' \in [Calls -> CallType] /\ call'[c].pc = call[c].pc
        /\ call'[c].upload = call[c].upload /\ call'[c].model = call[c].model
        /\ \A d \in Calls : d = c \/ call'[d] = call[d]
    BY <2>1, <2>2 DEF TypeOK, CallType
  <2> QED
    BY <2>1, <2>3
<1>5. CASE OpenModelTemp(c)
  <2>1. /\ Goto(c, "copy") /\ UNCHANGED received
        /\ temps' = temps \cup {<<call[c].upload, "model">>}
    BY <1>5 DEF OpenModelTemp, history
  <2> QED
    BY <1>1, <1>2, <2>1, GotoEffect DEF TypeOK
<1>6. CASE CopyModel(c)
  <2>1. /\ UNCHANGED temps /\ received' = received \cup {call[c].upload}
        /\ call' = [call EXCEPT ![c] =
              Upload("parts", call[c].upload, call[c].metrics, call[c].round, TRUE)]
    BY <1>6 DEF CopyModel, files
  <2> DEFINE h == Upload("parts", call[c].upload, call[c].metrics, call[c].round, TRUE)
  <2>2. h \in CallType /\ h.pc = "parts" /\ h.upload = call[c].upload
    BY <1>1, KnownType DEF Upload, CallType
  <2> HIDE DEF h
  <2>3. /\ call' \in [Calls -> CallType] /\ call'[c] = h
        /\ \A d \in Calls : d = c \/ call'[d] = call[d]
    BY <2>1, <2>2, SetEffect DEF h
  <2> QED
    BY <1>1, <1>2, <2>1, <2>2, <2>3 DEF TypeOK
<1>7. CASE \E r \in Rounds : RoundPart(c, r)
  BY <1>1, <1>2, <1>4, <1>7 DEF TypeOK
<1> QED
  BY <1>3, <1>5, <1>6, <1>7 DEF Gathers

LEMMA PlaceEffect ==
    ASSUME TypeOK, NEW c \in Calls, RenameModel(c)
    PROVE  LET u == call[c].upload
               r == call[c].round IN
           /\ UNCHANGED <<output, received, stored, known, answer, mixed, crashes, failures>>
           /\ r \in Rounds /\ u \in DOMAIN sent /\ u # 0
           /\ models' = [models EXCEPT ![r] = u]
           /\ sent' \in Seq(0..MaxRound) /\ Len(sent') = Len(sent) /\ DOMAIN sent' = DOMAIN sent
           /\ sent'[u] = r /\ \A v \in DOMAIN sent : v = u \/ sent'[v] = sent[v]
           /\ temps' = temps \ {<<u, "model">>}
           /\ call[c].pc = "parts" /\ call[c].model
           /\ call' \in [Calls -> CallType]
           /\ call'[c].pc = "output" /\ call'[c].upload = u /\ call'[c].round = r
           /\ \A d \in Calls : d = c \/ call'[d] = call[d]
<1> DEFINE u == call[c].upload
           r == call[c].round
<1>1. /\ call[c].pc = "parts" /\ call[c].model /\ r # 0 /\ Goto(c, "output")
      /\ models' = [models EXCEPT ![r] = u] /\ temps' = temps \ {<<u, "model">>}
      /\ sent' = [sent EXCEPT ![u] = r]
      /\ UNCHANGED <<output, received, stored, known, answer, mixed, crashes, failures>>
  BY DEF RenameModel, PlaceModel, NoAnswer, Counters
<1>2. r \in 0..MaxRound /\ u \in DOMAIN sent /\ sent \in Seq(0..MaxRound)
  BY <1>1 DEF TypeOK, CallType, Uploading
<1>3. r \in Rounds
  BY <1>1, <1>2, FLOutputAssumption DEF Rounds
<1>4. DOMAIN sent = 1..Len(sent) /\ Len(sent) \in Nat
  BY <1>2, SeqFacts
<1>5. /\ sent' \in Seq(0..MaxRound) /\ Len(sent') = Len(sent)
      /\ sent'[u] = r /\ \A v \in DOMAIN sent : v = u \/ sent'[v] = sent[v]
  BY <1>1, <1>2, <1>4, ExceptSeq
<1>6. DOMAIN sent' = DOMAIN sent /\ u # 0
  BY <1>1, <1>2, <1>4
<1> QED
  BY <1>1, <1>2, <1>3, <1>5, <1>6, GotoEffect

LEMMA OutputTempEffect ==
    ASSUME TypeOK, NEW c \in Calls, OpenOutputTemp(c)
    PROVE  /\ UNCHANGED <<models, output, sent, received, stored, known, answer, mixed, crashes, failures>>
           /\ temps' = temps \cup {<<call[c].upload, "metrics">>}
           /\ call[c].pc = "output" /\ call'[c].pc = "rename"
           /\ call'[c].upload = call[c].upload /\ call'[c].round = call[c].round
           /\ call' \in [Calls -> CallType]
           /\ \A d \in Calls : d = c \/ call'[d] = call[d]
<1>1. /\ UNCHANGED <<models, output, sent, received, stored, known, answer, mixed, crashes, failures>>
      /\ temps' = temps \cup {<<call[c].upload, "metrics">>}
      /\ call[c].pc = "output" /\ Goto(c, "rename")
  BY DEF OpenOutputTemp, history, Counters
<1> QED
  BY <1>1, GotoEffect

LEMMA StoreEffect ==
    ASSUME TypeOK, NEW c \in Calls, RenameOutput(c)
    PROVE  LET u == call[c].upload IN
           /\ UNCHANGED <<models, sent, received, answer, mixed, crashes, failures>>
           /\ call[c].pc = "rename" /\ output' = u /\ u \in DOMAIN sent /\ u # 0
           /\ temps' = temps \ {<<u, "metrics">>}
           /\ stored' = stored \cup {u}
           /\ known' \in Known /\ known'.round \in {known.round, call[c].round}
           /\ call' \in [Calls -> CallType] /\ call'[c].pc = "idle"
           /\ \A d \in Calls : d = c \/ call'[d] = call[d]
<1>1. /\ UNCHANGED <<models, sent, received, answer, mixed, crashes, failures>>
      /\ call[c].pc = "rename" /\ output' = call[c].upload
      /\ temps' = temps \ {<<call[c].upload, "metrics">>}
      /\ stored' = stored \cup {call[c].upload}
      /\ Promise(call[c].round, TRUE) /\ End(c)
  BY DEF RenameOutput, Counters
<1>2. call[c].upload \in DOMAIN sent /\ call[c].upload # 0
  BY <1>1, SeqFacts DEF TypeOK, Uploading
<1>3. known.round \in 0..MaxRound /\ call[c].round \in 0..MaxRound
  BY KnownType DEF TypeOK, CallType
<1>4. Max({known.round, call[c].round}) \in {known.round, call[c].round}
  BY <1>3, MaxOfTwo, FLOutputAssumption
<1>5. known' = [round |-> Max({known.round, call[c].round}), ready |-> known.ready \/ TRUE]
  BY <1>1 DEF Promise
<1>6. known' \in Known /\ known'.round \in {known.round, call[c].round}
  <2>1. Max({known.round, call[c].round}) \in 0..MaxRound
    BY <1>3, <1>4
  <2> QED
    BY <1>4, <1>5, <2>1 DEF Known
<1> QED
  BY <1>1, <1>2, <1>6, EndEffect

LEMMA DropEffect ==
    ASSUME TypeOK, NEW c \in Calls, Drops(c)
    PROVE  /\ UNCHANGED <<models, output, sent, received, stored, known, answer, mixed, crashes>>
           /\ failures' \in Nat /\ temps' \subseteq temps
           /\ call[c].pc \in {"parts", "copy"} => temps' = temps \ {<<call[c].upload, "model">>}
           /\ call[c].pc = "rename" => temps' = temps \ {<<call[c].upload, "metrics">>}
           /\ call' \in [Calls -> CallType] /\ call'[c].pc = "idle"
           /\ \A d \in Calls : d = c \/ call'[d] = call[d]
<1>1. /\ UNCHANGED <<models, output, sent, received, stored, known, answer, mixed, crashes>>
      /\ End(c) /\ temps' \subseteq temps
      /\ call[c].pc \in {"parts", "copy"} => temps' = temps \ {<<call[c].upload, "model">>}
      /\ call[c].pc = "rename" => temps' = temps \ {<<call[c].upload, "metrics">>}
  BY DEF Drops, Refuse, OutputFails, ReadFails, RemoveTemp, files, history, Counters
<1>2. failures' \in Nat
  BY DEF Drops, Refuse, OutputFails, ReadFails, Counters, TypeOK
<1> QED
  BY <1>1, <1>2, EndEffect

LEMMA ReadEffect ==
    ASSUME TypeOK, NEW c \in Calls, GetOutput(c) \/ Download(c)
    PROVE  /\ UNCHANGED <<models, output, temps, sent, received, stored, known, answer, mixed,
                          crashes, failures>>
           /\ call[c].pc = "idle" /\ call'[c].floor = known
           /\ \/ call'[c].pc = "list" /\ call'[c].seen = output
              \/ call'[c].pc = "open" /\ call'[c].seen = Highest
           /\ call' \in [Calls -> CallType]
           /\ \A d \in Calls : d = c \/ call'[d] = call[d]
<1>1. /\ UNCHANGED <<models, output, temps, sent, received, stored, known, answer, mixed,
                     crashes, failures>>
      /\ call[c] = Idle
  BY DEF GetOutput, Download, Read, files, history, Counters
<1>2. known \in Known /\ output \in Nat /\ Highest \in Nat
  BY HighestFacts, SeqFacts DEF TypeOK, Uploads
<1>3. CASE GetOutput(c)
  <2> DEFINE h == Reader("list", output)
  <2>1. h \in CallType /\ h.pc = "list" /\ h.seen = output /\ h.floor = known
    BY <1>2, ReaderType
  <2>2. call' = [call EXCEPT ![c] = h]
    BY <1>3 DEF GetOutput, Read
  <2> HIDE DEF h
  <2> QED
    BY <1>1, <2>1, <2>2, SetEffect, IdleType
<1>4. CASE Download(c)
  <2> DEFINE h == Reader("open", Highest)
  <2>1. h \in CallType /\ h.pc = "open" /\ h.seen = Highest /\ h.floor = known
    BY <1>2, ReaderType
  <2>2. call' = [call EXCEPT ![c] = h]
    BY <1>4 DEF Download, Read
  <2> HIDE DEF h
  <2> QED
    BY <1>1, <2>1, <2>2, SetEffect, IdleType
<1> QED
  BY <1>3, <1>4

\* What a reader was answered.
AnswerIs(c, kind, metrics, round) ==
    /\ answer'.kind = kind /\ answer'.metrics = metrics /\ answer'.round = round
    /\ answer'.floor = call[c].floor
    /\ known'.round \in {known.round, round}
    /\ known'.ready => known.ready \/ (metrics # 0 /\ round # 0)

LEMMA AnswerEffect ==
    ASSUME TypeOK, NEW c \in Calls, ListModels(c) \/ OpenModel(c)
    PROVE  /\ UNCHANGED <<models, output, temps, sent, received, stored, mixed, crashes, failures>>
           /\ \/ call[c].pc = "list" /\ AnswerIs(c, "get", call[c].seen, Highest)
              \/ call[c].pc = "open" /\ AnswerIs(c, "download", 0, call[c].seen)
           /\ known' \in Known
           /\ answer' \in [kind : {"none", "get", "download"}, metrics : Uploads,
                           round : 0..MaxRound, floor : Known]
           /\ call' \in [Calls -> CallType] /\ call'[c].pc = "idle"
           /\ \A d \in Calls : d = c \/ call'[d] = call[d]
<1>1. /\ UNCHANGED <<models, output, temps, sent, received, stored, mixed, crashes, failures>>
      /\ End(c)
  BY DEF ListModels, OpenModel, Answer, files, Counters
<1>2. PICK kind \in {"get", "download"}, metrics \in Uploads, round \in 0..MaxRound :
          /\ \/ call[c].pc = "list" /\ kind = "get" /\ metrics = call[c].seen /\ round = Highest
             \/ call[c].pc = "open" /\ kind = "download" /\ metrics = 0 /\ round = call[c].seen
          /\ Answer(c, kind, metrics, round)
  <2>1. CASE ListModels(c)
    <3>1. call[c].pc = "list" /\ call[c].seen \in Uploads /\ Highest \in 0..MaxRound
      BY <2>1, HighestFacts DEF ListModels, TypeOK
    <3> QED
      BY <2>1, <3>1 DEF ListModels
  <2>2. CASE OpenModel(c)
    <3>1. call[c].pc = "open" /\ call[c].seen \in 0..MaxRound /\ 0 \in Uploads
      BY <2>2, SeqFacts DEF OpenModel, TypeOK, Uploads
    <3> QED
      BY <2>2, <3>1 DEF OpenModel
  <2> QED
    BY <2>1, <2>2
<1>3. /\ answer' = [kind |-> kind, metrics |-> metrics, round |-> round, floor |-> call[c].floor]
      /\ known' = [round |-> Max({known.round, round}),
                   ready |-> known.ready \/ (metrics # 0 /\ round # 0)]
  BY <1>2 DEF Answer, Promise
<1>4. call[c].floor \in Known /\ known.round \in 0..MaxRound /\ known.ready \in BOOLEAN
  BY KnownType DEF TypeOK, CallType
<1>5. Max({known.round, round}) \in {known.round, round} /\ Max({known.round, round}) \in 0..MaxRound
  BY <1>2, <1>4, MaxOfTwo, FLOutputAssumption
<1>6. /\ answer' \in [kind : {"none", "get", "download"}, metrics : Uploads,
                      round : 0..MaxRound, floor : Known]
      /\ answer'.kind = kind /\ answer'.metrics = metrics /\ answer'.round = round
      /\ answer'.floor = call[c].floor
  BY <1>2, <1>3, <1>4
<1>7. known' \in Known /\ known'.round = Max({known.round, round})
  BY <1>3, <1>5 DEF Known
<1>8. known'.ready => known.ready \/ (metrics # 0 /\ round # 0)
  BY <1>3
<1>9. AnswerIs(c, kind, metrics, round)
  BY <1>5, <1>6, <1>7, <1>8 DEF AnswerIs
<1> QED
  BY <1>1, <1>2, <1>6, <1>7, <1>9, EndEffect

LEMMA CrashEffect ==
    ASSUME TypeOK, Crash
    PROVE  /\ UNCHANGED <<models, output, temps, sent, received, stored, known, answer, mixed, failures>>
           /\ crashes' = crashes + 1 /\ crashes' \in Nat
           /\ call' \in [Calls -> CallType] /\ \A d \in Calls : call'[d].pc = "idle"
  BY IdleType DEF Crash, files, history, TypeOK

\* The forms a step of a request takes.
LEMMA StepForms ==
    ASSUME NEW c \in Calls, UploadStep(c) \/ ReadStep(c)
    PROVE  \/ PostOutput(c) \/ Gathers(c) \/ RenameModel(c)
           \/ OpenOutputTemp(c) \/ RenameOutput(c) \/ Drops(c)
           \/ GetOutput(c) \/ Download(c)
           \/ ListModels(c) \/ OpenModel(c)
  BY DEF UploadStep, ReadStep, Gathers, Drops

(***************************************************************************)
(* Type correctness                                                        *)
(***************************************************************************)
LEMMA InitType == Init => TypeOK
<1> SUFFICES ASSUME Init PROVE TypeOK
  OBVIOUS
<1>1. /\ sent \in Seq(0..MaxRound) /\ Len(sent) = 0 /\ received \subseteq DOMAIN sent
      /\ stored \subseteq DOMAIN sent
  BY EmptySeq DEF Init
<1>2. 0 \in Uploads /\ 0 \in 0..MaxRound
  BY <1>1, FLOutputAssumption DEF Uploads
<1>3. call \in [Calls -> CallType] /\ \A c \in Calls : call[c].pc = "idle"
  BY IdleType DEF Init
<1>4. models \in [Rounds -> Uploads] /\ output \in Uploads /\ temps \subseteq (DOMAIN sent) \X Kinds
  BY <1>2 DEF Init
<1>5. /\ known \in Known
      /\ answer \in [kind : {"none", "get", "download"}, metrics : Uploads,
                     round : 0..MaxRound, floor : Known]
  BY <1>2, KnownType DEF Init
<1>6. mixed \in BOOLEAN /\ failures \in Nat /\ crashes \in Nat
  BY DEF Init
<1> QED
  BY <1>1, <1>3, <1>4, <1>5, <1>6 DEF TypeOK, Uploading

\* A request keeps its type when the uploads it may name are still there.
LEMMA CallsTyped ==
    ASSUME TypeOK, NEW c \in Calls, call' \in [Calls -> CallType],
           \A d \in Calls : d = c \/ call'[d] = call[d],
           Len(sent') \in Nat, Len(sent) <= Len(sent'), DOMAIN sent \subseteq DOMAIN sent',
           Uploading(c)' => call'[c].upload \in DOMAIN sent',
           call'[c].pc = "list" => call'[c].seen \in Uploads,
           call'[c].pc = "open" => call'[c].seen \in 0..MaxRound
    PROVE  \A d \in Calls :
              /\ Uploading(d)' => call'[d].upload \in DOMAIN sent'
              /\ call'[d].pc = "list" => call'[d].seen \in Uploads'
              /\ call'[d].pc = "open" => call'[d].seen \in 0..MaxRound
<1>1. Uploads \subseteq Uploads'
  BY SeqFacts DEF Uploads, TypeOK
<1> QED
  BY <1>1 DEF TypeOK, Uploading

LEMMA TypeStep == TypeOK /\ [Next]_vars => TypeOK'
<1> SUFFICES ASSUME TypeOK, [Next]_vars PROVE TypeOK'
  OBVIOUS
<1>a. /\ sent \in Seq(0..MaxRound) /\ Len(sent) \in Nat /\ DOMAIN sent = 1..Len(sent)
      /\ DOMAIN sent \subseteq Uploads /\ 0 \in Uploads
  BY SeqFacts DEF TypeOK, Uploads
\* Only models, metrics, temporary files and requests change.
<1>b. ASSUME NEW c \in Calls, UNCHANGED <<sent, mixed>>,
             models' \in [Rounds -> Uploads], output' \in Uploads,
             temps' \subseteq (DOMAIN sent) \X Kinds,
             received' \subseteq DOMAIN sent, stored' \subseteq DOMAIN sent,
             known' \in Known,
             answer' \in [kind : {"none", "get", "download"}, metrics : Uploads,
                          round : 0..MaxRound, floor : Known],
             call' \in [Calls -> CallType], \A d \in Calls : d = c \/ call'[d] = call[d],
             Uploading(c)' => call'[c].upload \in DOMAIN sent,
             call'[c].pc = "list" => call'[c].seen \in Uploads,
             call'[c].pc = "open" => call'[c].seen \in 0..MaxRound,
             failures' \in Nat, crashes' \in Nat
      PROVE  TypeOK'
  <2>1. Uploads' = Uploads
    BY <1>b DEF Uploads
  <2>2. \A d \in Calls :
              /\ Uploading(d)' => call'[d].upload \in DOMAIN sent'
              /\ call'[d].pc = "list" => call'[d].seen \in Uploads'
              /\ call'[d].pc = "open" => call'[d].seen \in 0..MaxRound
    BY <1>a, <1>b, CallsTyped
  <2> QED
    BY <1>b, <2>1, <2>2 DEF TypeOK
<1>1. ASSUME NEW c \in Calls, PostOutput(c) PROVE TypeOK'
  <2>0. Len(sent') = Len(sent) + 1
    BY <1>1, PostEffect
  <2>1. /\ DOMAIN sent \subseteq DOMAIN sent' /\ Len(sent') \in Nat /\ Len(sent) <= Len(sent')
        /\ sent' \in Seq(0..MaxRound) /\ call' \in [Calls -> CallType] /\ mixed' \in BOOLEAN
    <3>1. /\ DOMAIN sent \subseteq DOMAIN sent' /\ sent' \in Seq(0..MaxRound)
          /\ call' \in [Calls -> CallType] /\ mixed' \in BOOLEAN
      BY <1>1, PostEffect
    <3>2. Len(sent') \in Nat /\ Len(sent) <= Len(sent')
      BY <1>a, <2>0
    <3> QED
      BY <3>1, <3>2
  <2>2. Uploads \subseteq Uploads'
    BY <1>a, <2>1 DEF Uploads
  <2>3. UNCHANGED <<models, output, temps, received, stored, known, answer, crashes, failures>>
    BY <1>1, PostEffect
  <2>4. \A d \in Calls :
              /\ Uploading(d)' => call'[d].upload \in DOMAIN sent'
              /\ call'[d].pc = "list" => call'[d].seen \in Uploads'
              /\ call'[d].pc = "open" => call'[d].seen \in 0..MaxRound
    <3>1. /\ \A d \in Calls : d = c \/ call'[d] = call[d]
          /\ call'[c].pc = "parts" /\ call'[c].upload \in DOMAIN sent'
      BY <1>1, PostEffect
    <3> QED
      BY <2>1, <3>1, CallsTyped
  <2>5. models' \in [Rounds -> Uploads'] /\ output' \in Uploads'
    BY <2>2, <2>3 DEF TypeOK
  <2>6. /\ temps' \subseteq (DOMAIN sent') \X Kinds
        /\ received' \subseteq DOMAIN sent' /\ stored' \subseteq DOMAIN sent'
    BY <2>1, <2>3 DEF TypeOK
  <2>7. answer' \in [kind : {"none", "get", "download"}, metrics : Uploads',
                     round : 0..MaxRound, floor : Known]
    BY <2>2, <2>3 DEF TypeOK
  <2> QED
    BY <2>1, <2>3, <2>4, <2>5, <2>6, <2>7 DEF TypeOK
<1>2. ASSUME NEW c \in Calls, Gathers(c) PROVE TypeOK'
  <2>1. call[c].upload \in DOMAIN sent
    BY <1>2, GatherEffect DEF TypeOK, Uploading
  <2>2. temps' \subseteq (DOMAIN sent) \X Kinds
    BY <1>2, <2>1, GatherEffect DEF TypeOK, Kinds
  <2> QED
    BY <1>b, <1>2, <2>1, <2>2, GatherEffect DEF TypeOK
<1>3. ASSUME NEW c \in Calls, RenameModel(c) PROVE TypeOK'
  <2> DEFINE u == call[c].upload
             r == call[c].round
  <2>1. /\ r \in Rounds /\ u \in DOMAIN sent
        /\ models' = [models EXCEPT ![r] = u] /\ temps' \subseteq temps
        /\ sent' \in Seq(0..MaxRound) /\ Len(sent') = Len(sent) /\ DOMAIN sent' = DOMAIN sent
        /\ UNCHANGED <<output, received, stored, known, answer, mixed, crashes, failures>>
    BY <1>3, PlaceEffect
  <2>2. models' \in [Rounds -> Uploads]
    BY <1>a, <2>1 DEF TypeOK
  <2>3. Uploads' = Uploads
    BY <2>1 DEF Uploads
  <2>4. call' \in [Calls -> CallType] /\ \A d \in Calls :
              /\ Uploading(d)' => call'[d].upload \in DOMAIN sent'
              /\ call'[d].pc = "list" => call'[d].seen \in Uploads'
              /\ call'[d].pc = "open" => call'[d].seen \in 0..MaxRound
    <3>1. /\ \A d \in Calls : d = c \/ call'[d] = call[d]
          /\ call'[c].pc = "output" /\ call'[c].upload \in DOMAIN sent'
          /\ call' \in [Calls -> CallType]
      BY <1>3, <2>1, PlaceEffect
    <3> QED
      BY <1>a, <2>1, <3>1, CallsTyped
  <2> QED
    BY <2>1, <2>2, <2>3, <2>4 DEF TypeOK
<1>4. ASSUME NEW c \in Calls, OpenOutputTemp(c) PROVE TypeOK'
  <2>1. call[c].upload \in DOMAIN sent
    BY <1>4, OutputTempEffect DEF TypeOK, Uploading
  <2>2. temps' \subseteq (DOMAIN sent) \X Kinds
    BY <1>4, <2>1, OutputTempEffect DEF TypeOK, Kinds
  <2> QED
    BY <1>b, <1>4, <2>1, <2>2, OutputTempEffect DEF TypeOK
<1>5. ASSUME NEW c \in Calls, RenameOutput(c) PROVE TypeOK'
  <2>1. output' \in Uploads /\ stored' \subseteq DOMAIN sent /\ temps' \subseteq (DOMAIN sent) \X Kinds
    BY <1>a, <1>5, StoreEffect DEF TypeOK
  <2> QED
    BY <1>b, <1>5, <2>1, StoreEffect DEF TypeOK, Uploading
<1>6. ASSUME NEW c \in Calls, Drops(c) PROVE TypeOK'
  <2>1. temps' \subseteq (DOMAIN sent) \X Kinds
    BY <1>6, DropEffect DEF TypeOK
  <2> QED
    BY <1>b, <1>6, <2>1, DropEffect DEF TypeOK, Uploading
<1>7. ASSUME NEW c \in Calls, GetOutput(c) \/ Download(c) PROVE TypeOK'
  <2>1. /\ call'[c].pc = "list" => call'[c].seen \in Uploads
        /\ call'[c].pc = "open" => call'[c].seen \in 0..MaxRound
        /\ ~Uploading(c)'
    BY <1>7, ReadEffect, HighestFacts DEF TypeOK, Uploading
  <2> QED
    BY <1>b, <1>7, <2>1, ReadEffect DEF TypeOK
<1>8. ASSUME NEW c \in Calls, ListModels(c) \/ OpenModel(c) PROVE TypeOK'
  BY <1>b, <1>8, AnswerEffect DEF TypeOK, Uploading
<1>9. CASE Crash
  <2>1. Uploads' = Uploads /\ \A d \in Calls : ~Uploading(d)'
    BY <1>9, CrashEffect DEF Uploads, Uploading
  <2> QED
    BY <1>9, <2>1, CrashEffect DEF TypeOK
<1>10. CASE UNCHANGED vars
  BY <1>10 DEF vars, files, history, TypeOK, Uploads, Uploading
<1> QED
  BY <1>1, <1>2, <1>3, <1>4, <1>5, <1>6, <1>7, <1>8, <1>9, <1>10, StepForms DEF Next

(***************************************************************************)
(* Uploads, and what is visible of them                                    *)
(***************************************************************************)
LEMMA InitInv == Init => IInv
<1> SUFFICES ASSUME Init PROVE IInv
  OBVIOUS
<1>1. TypeOK
  BY InitType
<1>2. \A c \in Calls : call[c].pc = "idle"
  BY IdleType DEF Init
<1>3. DOMAIN sent = {} /\ Placed = {}
  BY DEF Init, Placed
<1>4. UploadsOrdered /\ UploadsDistinct /\ TempsOwned
  BY <1>2 DEF UploadsOrdered, UploadsDistinct, TempsOwned, Uploading, Init
<1>5. FilesWhole
  BY <1>3 DEF FilesWhole, Init
<1>6. PromisesKept
  BY <1>2 DEF PromisesKept, Covered, Init, Nothing
<1>7. LastOwns
  BY <1>2, <1>3 DEF LastOwns, Uploading
<1>8. MetricsHaveModel /\ AnswersAdvance
  BY DEF MetricsHaveModel, AnswersAdvance, Init, Nothing
<1> QED
  BY <1>1, <1>4, <1>5, <1>6, <1>7, <1>8 DEF IInv

LEMMA OrderedStep ==
    ASSUME TypeOK, UploadsOrdered, UploadsDistinct, NEW c \in Calls, UploadStep(c) \/ ReadStep(c)
    PROVE  UploadsOrdered'
<1> DEFINE Ordered(d) ==
        /\ call[d].pc \in {"parts", "copy"} =>
              /\ sent[call[d].upload] = 0
              /\ call[d].model => call[d].upload \in received
        /\ call[d].pc \in {"output", "rename"} =>
              /\ call[d].round # 0 /\ sent[call[d].upload] = call[d].round
              /\ call[d].upload \in received
        /\ Uploading(d) => call[d].upload \notin stored
<1>1. ASSUME received \subseteq received', \A d \in Calls : d = c \/ call'[d] = call[d],
             \A d \in Calls : (d # c /\ Uploading(d)) =>
                 sent'[call[d].upload] = sent[call[d].upload] /\ call[d].upload \notin stored',
             Ordered(c)'
      PROVE  UploadsOrdered'
  <2>1. ASSUME NEW d \in Calls, d # c PROVE Ordered(d)'
    <3>1. call'[d] = call[d] /\ Ordered(d)
      BY <1>1, <2>1 DEF UploadsOrdered
    <3> QED
      BY <1>1, <2>1, <3>1 DEF Uploading
  <2> QED
    BY <1>1, <2>1 DEF UploadsOrdered
<1>2. \A d \in Calls : Ordered(d) /\ (Uploading(d) => call[d].upload \in DOMAIN sent)
  BY DEF UploadsOrdered, TypeOK
<1>3. CASE PostOutput(c)
  <2> DEFINE n == Len(sent) + 1
  <2>1. /\ UNCHANGED <<received, stored>> /\ n \notin DOMAIN sent /\ sent'[n] = 0
        /\ \A u \in DOMAIN sent : sent'[u] = sent[u]
        /\ call'[c].pc = "parts" /\ call'[c].upload = n /\ call'[c].model = FALSE
        /\ \A d \in Calls : d = c \/ call'[d] = call[d]
    BY <1>3, PostEffect
  <2>2. n \notin stored
    BY <2>1 DEF TypeOK
  <2> QED
    BY <1>1, <1>2, <2>1, <2>2
<1>4. CASE Gathers(c)
  <2>1. Ordered(c)'
    BY <1>2, <1>4, GatherEffect DEF Uploading
  <2> QED
    BY <1>1, <1>2, <1>4, <2>1, GatherEffect
<1>5. CASE RenameModel(c)
  <2>1. /\ UNCHANGED <<received, stored>> /\ call[c].round # 0 /\ call[c].upload \in received
        /\ sent'[call[c].upload] = call[c].round
        /\ \A v \in DOMAIN sent : v = call[c].upload \/ sent'[v] = sent[v]
        /\ call[c].pc = "parts" /\ call'[c].pc = "output"
        /\ call'[c].upload = call[c].upload /\ call'[c].round = call[c].round
        /\ \A d \in Calls : d = c \/ call'[d] = call[d]
    BY <1>2, <1>5, PlaceEffect DEF Rounds
  <2>2. \A d \in Calls : (d # c /\ Uploading(d)) => call[d].upload # call[c].upload
    BY <2>1 DEF UploadsDistinct, Uploading
  <2>3. Ordered(c)'
    BY <1>2, <2>1 DEF Uploading
  <2> QED
    BY <1>1, <1>2, <2>1, <2>2, <2>3
<1>6. CASE OpenOutputTemp(c)
  <2>1. Ordered(c)'
    BY <1>2, <1>6, OutputTempEffect DEF Uploading
  <2> QED
    BY <1>1, <1>2, <1>6, <2>1, OutputTempEffect
<1>7. CASE RenameOutput(c)
  <2>1. \A d \in Calls : (d # c /\ Uploading(d)) => call[d].upload # call[c].upload
    BY <1>7, StoreEffect DEF UploadsDistinct, Uploading
  <2> QED
    BY <1>1, <1>2, <1>7, <2>1, StoreEffect DEF Uploading
<1>8. CASE Drops(c)
  BY <1>1, <1>2, <1>8, DropEffect DEF Uploading
<1>9. CASE GetOutput(c) \/ Download(c)
  BY <1>1, <1>2, <1>9, ReadEffect DEF Uploading
<1>10. CASE ListModels(c) \/ OpenModel(c)
  BY <1>1, <1>2, <1>10, AnswerEffect DEF Uploading
<1> QED
  BY <1>3, <1>4, <1>5, <1>6, <1>7, <1>8, <1>9, <1>10, StepForms

LEMMA DistinctStep ==
    ASSUME TypeOK, UploadsDistinct, NEW c \in Calls, UploadStep(c) \/ ReadStep(c)
    PROVE  UploadsDistinct'
<1>1. ASSUME \A d \in Calls : d = c \/ call'[d] = call[d],
             \A d \in Calls : (d # c /\ Uploading(d) /\ Uploading(c)') =>
                 call[d].upload # call'[c].upload
      PROVE  UploadsDistinct'
  BY <1>1 DEF UploadsDistinct, Uploading
<1>2. ASSUME \A d \in Calls : d = c \/ call'[d] = call[d],
             Uploading(c)' => Uploading(c) /\ call'[c].upload = call[c].upload
      PROVE  UploadsDistinct'
  BY <1>1, <1>2 DEF UploadsDistinct
<1>3. CASE PostOutput(c)
  <2>1. call'[c].upload \notin DOMAIN sent /\ \A d \in Calls : d = c \/ call'[d] = call[d]
    BY <1>3, PostEffect
  <2>2. \A d \in Calls : Uploading(d) => call[d].upload # call'[c].upload
    BY <2>1 DEF TypeOK
  <2> QED
    BY <1>1, <2>1, <2>2
<1>4. CASE Gathers(c)
  BY <1>2, <1>4, GatherEffect DEF Uploading
<1>5. CASE RenameModel(c)
  BY <1>2, <1>5, PlaceEffect DEF Uploading
<1>6. CASE OpenOutputTemp(c)
  BY <1>2, <1>6, OutputTempEffect DEF Uploading
<1>7. CASE RenameOutput(c)
  BY <1>2, <1>7, StoreEffect DEF Uploading
<1>8. CASE Drops(c)
  BY <1>2, <1>8, DropEffect DEF Uploading
<1>9. CASE GetOutput(c) \/ Download(c)
  BY <1>2, <1>9, ReadEffect DEF Uploading
<1>10. CASE ListModels(c) \/ OpenModel(c)
  BY <1>2, <1>10, AnswerEffect DEF Uploading
<1> QED
  BY <1>3, <1>4, <1>5, <1>6, <1>7, <1>8, <1>9, <1>10, StepForms

LEMMA WholeStep ==
    ASSUME TypeOK, UploadsOrdered, FilesWhole, NEW c \in Calls, UploadStep(c) \/ ReadStep(c)
    PROVE  FilesWhole'
<1>1. ASSUME UNCHANGED <<models, output, sent>>, received \subseteq received' PROVE FilesWhole'
  BY <1>1 DEF FilesWhole
<1>2. CASE PostOutput(c)
  <2> DEFINE n == Len(sent) + 1
  <2>1. /\ UNCHANGED <<models, output, received>>
        /\ DOMAIN sent' = DOMAIN sent \cup {n} /\ sent'[n] = 0
        /\ \A u \in DOMAIN sent : sent'[u] = sent[u]
    BY <1>2, PostEffect
  <2>2. received \subseteq DOMAIN sent
    BY DEF TypeOK
  <2> QED
    BY <2>1, <2>2 DEF FilesWhole
<1>3. CASE RenameModel(c)
  <2> DEFINE u == call[c].upload
             r == call[c].round
  <2>1. /\ UNCHANGED <<output, received>> /\ r \in Rounds /\ u \in DOMAIN sent /\ u # 0
        /\ models' = [models EXCEPT ![r] = u] /\ models \in [Rounds -> Uploads]
        /\ DOMAIN sent' = DOMAIN sent
        /\ sent'[u] = r /\ \A v \in DOMAIN sent : v = u \/ sent'[v] = sent[v]
    BY <1>3, PlaceEffect DEF TypeOK
  <2>2. sent[u] = 0 /\ u \in received /\ received \subseteq DOMAIN sent
    BY <1>3, PlaceEffect DEF UploadsOrdered, TypeOK
  <2>3. ASSUME NEW q \in Rounds, models'[q] # 0
        PROVE  models'[q] \in received /\ sent'[models'[q]] = q
    <3>1. CASE q = r
      BY <2>1, <2>2, <3>1
    <3>2. CASE q # r
      <4>1. models'[q] = models[q] /\ models[q] \in received /\ sent[models[q]] = q /\ q # 0
        BY <2>1, <2>3, <3>2 DEF FilesWhole, Rounds
      <4>2. models[q] # u
        BY <2>2, <4>1
      <4> QED
        BY <2>1, <2>2, <4>1, <4>2
    <3> QED
      BY <3>1, <3>2
  <2>4. output' # 0 => output' \in received' /\ sent'[output'] # 0
    BY <2>1, <2>2 DEF FilesWhole
  <2>5. ASSUME NEW v \in DOMAIN sent, sent'[v] # 0 PROVE models'[sent'[v]] # 0
    <3>1. CASE v = u
      BY <2>1, <3>1
    <3>2. CASE v # u
      <4>1. sent'[v] = sent[v] /\ models[sent[v]] # 0 /\ sent[v] \in 0..MaxRound
        BY <2>1, <2>5, <3>2, SeqFacts DEF FilesWhole, TypeOK
      <4>2. sent[v] \in Rounds
        BY <2>5, <4>1, FLOutputAssumption DEF Rounds
      <4> QED
        BY <2>1, <4>1, <4>2
    <3> QED
      BY <3>1, <3>2
  <2> QED
    BY <2>1, <2>3, <2>4, <2>5 DEF FilesWhole
<1>4. CASE RenameOutput(c)
  <2>1. /\ UNCHANGED <<models, sent, received>> /\ output' = call[c].upload
        /\ call[c].upload \in received /\ sent[call[c].upload] # 0
    BY <1>4, StoreEffect DEF UploadsOrdered
  <2> QED
    BY <2>1 DEF FilesWhole
<1>5. CASE Gathers(c)
  BY <1>1, <1>5, GatherEffect
<1>6. CASE OpenOutputTemp(c) \/ Drops(c)
  BY <1>1, <1>6, OutputTempEffect, DropEffect
<1>7. CASE GetOutput(c) \/ Download(c) \/ ListModels(c) \/ OpenModel(c)
  BY <1>1, <1>7, ReadEffect, AnswerEffect
<1> QED
  BY <1>2, <1>3, <1>4, <1>5, <1>6, <1>7, StepForms

LEMMA TempsStep ==
    ASSUME TypeOK, TempsOwned, NEW c \in Calls, UploadStep(c) \/ ReadStep(c)
    PROVE  TempsOwned'
<1> DEFINE Owns(d, t) ==
        /\ call[d].upload = t[1]
        /\ \/ t[2] = "model" /\ call[d].pc \in {"parts", "copy"}
           \/ t[2] = "metrics" /\ call[d].pc = "rename"
\* A request that owns a file either keeps it or removes it.
<1>1. ASSUME crashes' = crashes, \A d \in Calls : d = c \/ call'[d] = call[d],
             \A t \in temps' : (t \in temps /\ ~Owns(c, t)) \/ Owns(c, t)'
      PROVE  TempsOwned'
  <2> SUFFICES ASSUME crashes = 0, NEW t \in temps' PROVE \E d \in Calls : Owns(d, t)'
    BY <1>1 DEF TempsOwned
  <2>1. CASE Owns(c, t)'
    BY <2>1
  <2>2. CASE t \in temps /\ ~Owns(c, t)
    <3>1. PICK d \in Calls : Owns(d, t)
      BY <2>2 DEF TempsOwned
    <3>2. d # c
      BY <2>2, <3>1
    <3>3. call'[d] = call[d]
      BY <1>1, <3>2
    <3> QED
      BY <3>1, <3>3
  <2> QED
    BY <1>1, <2>1, <2>2
<1>2. CASE PostOutput(c)
  <2>1. /\ call[c].pc = "idle" /\ temps' = temps /\ crashes' = crashes
        /\ \A d \in Calls : d = c \/ call'[d] = call[d]
    BY <1>2, PostEffect
  <2>2. \A t \in temps' : t \in temps /\ ~Owns(c, t)
    BY <2>1
  <2> QED
    BY <1>1, <2>1, <2>2
<1>3. CASE Gathers(c)
  <2> DEFINE m == <<call[c].upload, "model">>
  <2>1. /\ crashes' = crashes /\ temps' \subseteq temps \cup {m}
        /\ call[c].pc \in {"parts", "copy"} /\ call'[c].pc \in {"parts", "copy"}
        /\ call'[c].upload = call[c].upload
        /\ \A d \in Calls : d = c \/ call'[d] = call[d]
    BY <1>3, GatherEffect
  <2>2. Owns(c, m)'
    BY <2>1
  <2>3. \A t \in temps : Owns(c, t) => Owns(c, t)'
    BY <2>1
  <2> QED
    BY <1>1, <2>1, <2>2, <2>3
<1>4. CASE RenameModel(c)
  <2> DEFINE m == <<call[c].upload, "model">>
  <2>1. /\ crashes' = crashes /\ temps' = temps \ {m} /\ call[c].pc = "parts"
        /\ \A d \in Calls : d = c \/ call'[d] = call[d]
    BY <1>4, PlaceEffect
  <2>2. temps \subseteq (DOMAIN sent) \X Kinds
    BY DEF TypeOK
  <2>3. \A t \in temps : Owns(c, t) => t = m
    BY <2>1, <2>2
  <2> QED
    BY <1>1, <2>1, <2>3
<1>5. CASE OpenOutputTemp(c)
  <2> DEFINE m == <<call[c].upload, "metrics">>
  <2>1. /\ crashes' = crashes /\ temps' = temps \cup {m} /\ call[c].pc = "output"
        /\ call'[c].pc = "rename" /\ call'[c].upload = call[c].upload
        /\ \A d \in Calls : d = c \/ call'[d] = call[d]
    BY <1>5, OutputTempEffect
  <2>2. Owns(c, m)'
    BY <2>1
  <2>3. \A t \in temps : ~Owns(c, t)
    BY <2>1
  <2> QED
    BY <1>1, <2>1, <2>2, <2>3
<1>6. CASE RenameOutput(c)
  <2> DEFINE m == <<call[c].upload, "metrics">>
  <2>1. /\ crashes' = crashes /\ temps' = temps \ {m} /\ call[c].pc = "rename"
        /\ \A d \in Calls : d = c \/ call'[d] = call[d]
    BY <1>6, StoreEffect
  <2>2. temps \subseteq (DOMAIN sent) \X Kinds
    BY DEF TypeOK
  <2>3. \A t \in temps : Owns(c, t) => t = m
    BY <2>1, <2>2
  <2> QED
    BY <1>1, <2>1, <2>3
<1>7. CASE Drops(c)
  <2>1. /\ crashes' = crashes /\ temps' \subseteq temps
        /\ call[c].pc \in {"parts", "copy"} => temps' = temps \ {<<call[c].upload, "model">>}
        /\ call[c].pc = "rename" => temps' = temps \ {<<call[c].upload, "metrics">>}
        /\ \A d \in Calls : d = c \/ call'[d] = call[d]
    BY <1>7, DropEffect
  <2>2. temps \subseteq (DOMAIN sent) \X Kinds
    BY DEF TypeOK
  <2>3. \A t \in temps' : ~Owns(c, t)
    BY <2>1, <2>2
  <2> QED
    BY <1>1, <2>1, <2>3
<1>8. CASE GetOutput(c) \/ Download(c) \/ ListModels(c) \/ OpenModel(c)
  <2>1. /\ crashes' = crashes /\ temps' = temps /\ call[c].pc \in {"idle", "list", "open"}
        /\ \A d \in Calls : d = c \/ call'[d] = call[d]
    BY <1>8, ReadEffect, AnswerEffect
  <2>2. \A t \in temps : ~Owns(c, t)
    BY <2>1
  <2> QED
    BY <1>1, <2>1, <2>2
<1> QED
  BY <1>2, <1>3, <1>4, <1>5, <1>6, <1>7, <1>8, StepForms

(***************************************************************************)
(* What readers are told                                                   *)
(***************************************************************************)
\* Nothing removes a model or the metrics, and a placed upload stays so.
LEMMA StepMono ==
    ASSUME TypeOK, UploadsOrdered, NEW c \in Calls, UploadStep(c) \/ ReadStep(c)
    PROVE  /\ Stored \subseteq Stored'
           /\ output # 0 => output' # 0
           /\ \A u \in Uploads : (u # 0 /\ sent[u] # 0) => sent'[u] = sent[u]
<1>1. ASSUME UNCHANGED <<models, sent>>, output' = output \/ output' # 0
      PROVE  /\ Stored \subseteq Stored'
             /\ output # 0 => output' # 0
             /\ \A u \in Uploads : (u # 0 /\ sent[u] # 0) => sent'[u] = sent[u]
  BY <1>1 DEF Stored
<1>2. \A u \in Uploads : u # 0 => u \in DOMAIN sent
  BY SeqFacts DEF TypeOK, Uploads
<1>3. CASE PostOutput(c)
  <2>1. UNCHANGED <<models, output>> /\ \A u \in DOMAIN sent : sent'[u] = sent[u]
    BY <1>3, PostEffect
  <2> QED
    BY <1>2, <2>1 DEF Stored
<1>4. CASE RenameModel(c)
  <2> DEFINE u == call[c].upload
             r == call[c].round
  <2>1. /\ UNCHANGED output /\ models' = [models EXCEPT ![r] = u] /\ u # 0
        /\ \A v \in DOMAIN sent : v = u \/ sent'[v] = sent[v]
    BY <1>4, PlaceEffect
  <2>2. sent[u] = 0
    BY <1>4, PlaceEffect DEF UploadsOrdered
  <2>3. models \in [Rounds -> Uploads]
    BY DEF TypeOK
  <2>4. Stored \subseteq Stored'
    BY <2>1, <2>3 DEF Stored
  <2> QED
    BY <1>2, <2>1, <2>2, <2>4
<1>5. CASE RenameOutput(c)
  BY <1>1, <1>5, StoreEffect
<1>6. CASE Gathers(c) \/ OpenOutputTemp(c) \/ Drops(c)
  BY <1>1, <1>6, GatherEffect, OutputTempEffect, DropEffect
<1>7. CASE GetOutput(c) \/ Download(c) \/ ListModels(c) \/ OpenModel(c)
  BY <1>1, <1>7, ReadEffect, AnswerEffect
<1> QED
  BY <1>3, <1>4, <1>5, <1>6, <1>7, StepForms

LEMMA PromisesStep ==
    ASSUME TypeOK, UploadsOrdered, FilesWhole, PromisesKept,
           NEW c \in Calls, UploadStep(c) \/ ReadStep(c)
    PROVE  PromisesKept'
<1> DEFINE Kept(d) ==
          /\ call[d].pc = "list" =>
                /\ call[d].seen # 0 => output # 0 /\ sent[call[d].seen] # 0
                /\ call[d].floor.ready => call[d].seen # 0
                /\ Covered(call[d].floor.round)
          /\ call[d].pc = "open" =>
                Covered(call[d].seen) /\ call[d].floor.round <= call[d].seen
           Answered == (answer.kind = "get" /\ answer.metrics # 0) => sent[answer.metrics] # 0
<1>1. /\ Stored \subseteq Stored' /\ (output # 0 => output' # 0)
      /\ \A u \in Uploads : (u # 0 /\ sent[u] # 0) => sent'[u] = sent[u]
  BY StepMono
<1>2. \A r : Covered(r) => Covered(r)'
  BY <1>1 DEF Covered
<1>3. /\ Covered(known.round) /\ (known.ready => output # 0)
      /\ \A d \in Calls : Kept(d)
      /\ Answered
  BY DEF PromisesKept
<1>4. \A d \in Calls : call[d].pc = "list" => call[d].seen \in Uploads
  BY DEF TypeOK
<1>5. ASSUME NEW d \in Calls, call'[d] = call[d] PROVE Kept(d)'
  BY <1>1, <1>2, <1>3, <1>4, <1>5
<1>6. UNCHANGED answer => Answered'
  <2>1. answer.metrics \in Uploads
    BY DEF TypeOK
  <2> QED
    BY <1>1, <1>3, <2>1
<1>7. UNCHANGED known => Covered(known.round)' /\ (known'.ready => output' # 0)
  BY <1>1, <1>2, <1>3
<1>8. ASSUME Covered(known.round)', known'.ready => output' # 0, Answered',
             \A d \in Calls : d = c \/ call'[d] = call[d], Kept(c)'
      PROVE  PromisesKept'
  BY <1>5, <1>8 DEF PromisesKept
<1> HIDE DEF Answered
<1>9. CASE PostOutput(c)
  <2>1. /\ UNCHANGED <<known, answer>> /\ call'[c].pc = "parts"
        /\ \A d \in Calls : d = c \/ call'[d] = call[d]
    BY <1>9, PostEffect
  <2> QED
    BY <1>6, <1>7, <1>8, <2>1
<1>10. CASE Gathers(c) \/ RenameModel(c) \/ OpenOutputTemp(c) \/ Drops(c)
  <2>1. /\ UNCHANGED <<known, answer>> /\ call'[c].pc \notin {"list", "open"}
        /\ \A d \in Calls : d = c \/ call'[d] = call[d]
    BY <1>10, GatherEffect, PlaceEffect, OutputTempEffect, DropEffect
  <2> QED
    BY <1>6, <1>7, <1>8, <2>1
<1>11. CASE RenameOutput(c)
  <2> DEFINE r == call[c].round
  <2>1. /\ UNCHANGED <<models, sent, answer>> /\ output' # 0
        /\ known'.round \in {known.round, r} /\ call'[c].pc = "idle"
        /\ call[c].pc = "rename" /\ call[c].upload \in DOMAIN sent
        /\ \A d \in Calls : d = c \/ call'[d] = call[d]
    BY <1>11, StoreEffect
  <2>2. r # 0 /\ sent[call[c].upload] = r /\ r \in 0..MaxRound
    BY <2>1 DEF UploadsOrdered, TypeOK, CallType
  <2>3. r \in Rounds /\ models[r] # 0
    BY <2>1, <2>2, FLOutputAssumption DEF FilesWhole, Rounds
  <2>4. Covered(r)
    BY <2>2, <2>3 DEF Covered, Stored
  <2>5. Covered(known.round)'
    BY <1>2, <1>3, <2>1, <2>4
  <2> QED
    BY <1>6, <1>8, <2>1, <2>5
<1>12. CASE GetOutput(c) \/ Download(c)
  <2>1. /\ UNCHANGED <<models, output, sent, known, answer>> /\ call'[c].floor = known
        /\ \/ call'[c].pc = "list" /\ call'[c].seen = output
           \/ call'[c].pc = "open" /\ call'[c].seen = Highest
        /\ \A d \in Calls : d = c \/ call'[d] = call[d]
    BY <1>12, ReadEffect
  <2>2. Covered(Highest) /\ known.round <= Highest
    BY CoveredFacts, <1>3, KnownType DEF TypeOK
  <2>3. output # 0 => sent[output] # 0
    BY DEF FilesWhole
  <2>4. Kept(c)'
    BY <1>2, <1>3, <2>1, <2>2, <2>3
  <2> QED
    BY <1>6, <1>7, <1>8, <2>1, <2>4
<1>13. CASE ListModels(c)
  <2>1. /\ UNCHANGED <<models, output, sent>> /\ call'[c].pc = "idle" /\ call[c].pc = "list"
        /\ AnswerIs(c, "get", call[c].seen, Highest)
        /\ \A d \in Calls : d = c \/ call'[d] = call[d]
    BY <1>13, AnswerEffect DEF ListModels
  <2>2. Covered(known.round)'
    BY <1>2, <1>3, <2>1, CoveredFacts DEF AnswerIs
  <2>3. known'.ready => output' # 0
    BY <1>3, <2>1 DEF AnswerIs
  <2>4. Answered'
    BY <1>3, <2>1 DEF AnswerIs, Answered
  <2> QED
    BY <1>8, <2>1, <2>2, <2>3, <2>4
<1>14. CASE OpenModel(c)
  <2>1. /\ UNCHANGED <<models, output, sent>> /\ call'[c].pc = "idle" /\ call[c].pc = "open"
        /\ AnswerIs(c, "download", 0, call[c].seen)
        /\ \A d \in Calls : d = c \/ call'[d] = call[d]
    BY <1>14, AnswerEffect DEF OpenModel
  <2>2. Covered(known.round)'
    BY <1>2, <1>3, <2>1 DEF AnswerIs
  <2>3. known'.ready => output' # 0
    BY <1>3, <2>1 DEF AnswerIs
  <2>4. Answered'
    BY <2>1 DEF AnswerIs, Answered
  <2> QED
    BY <1>8, <2>1, <2>2, <2>3, <2>4
<1> QED
  BY <1>9, <1>10, <1>11, <1>12, <1>13, <1>14, StepForms

LEMMA AnswersStep ==
    ASSUME TypeOK, FilesWhole, UploadsOrdered, PromisesKept, MetricsHaveModel, AnswersAdvance,
           NEW c \in Calls, UploadStep(c) \/ ReadStep(c)
    PROVE  MetricsHaveModel' /\ AnswersAdvance'
<1>1. CASE ListModels(c)
  <2> DEFINE m == call[c].seen
             f == call[c].floor
  <2>1. /\ call[c].pc = "list" /\ UNCHANGED sent
        /\ AnswerIs(c, "get", m, Highest)
    BY <1>1, AnswerEffect DEF ListModels
  <2>2. m \in Uploads /\ f.round \in Nat /\ Highest \in Nat
    BY <2>1, KnownType, HighestFacts DEF TypeOK, CallType
  <2>3. /\ m # 0 => output # 0 /\ sent[m] # 0
        /\ f.ready => m # 0
        /\ Covered(f.round)
    BY <2>1 DEF PromisesKept
  <2>4. ASSUME m # 0 PROVE Highest >= sent[m] /\ Highest # 0
    <3>1. m \in DOMAIN sent /\ sent[m] \in 0..MaxRound /\ sent[m] # 0
      <4>1. m \in DOMAIN sent
        BY <2>2, <2>4, SeqFacts DEF TypeOK, Uploads
      <4> QED
        BY <2>3, <2>4, <4>1, SeqFacts DEF TypeOK
    <3>2. sent[m] \in Stored
      BY <3>1, FLOutputAssumption DEF FilesWhole, Stored, Rounds
    <3> QED
      BY <3>2, HighestFacts
  <2>5. f.round <= Highest
    BY <2>2, <2>3, CoveredFacts
  <2>6. MetricsHaveModel'
    BY <2>1, <2>4 DEF MetricsHaveModel, AnswerIs
  <2>7. AnswersAdvance'
    BY <2>1, <2>2, <2>3, <2>4, <2>5 DEF AnswersAdvance, AnswerIs
  <2> QED
    BY <2>6, <2>7
<1>2. CASE OpenModel(c)
  <2>1. call[c].pc = "open" /\ AnswerIs(c, "download", 0, call[c].seen)
    BY <1>2, AnswerEffect DEF OpenModel
  <2>2. call[c].floor.round <= call[c].seen /\ call[c].seen \in Nat /\ call[c].floor.round \in Nat
    BY <2>1, KnownType DEF PromisesKept, TypeOK, CallType
  <2>3. MetricsHaveModel'
    BY <2>1 DEF MetricsHaveModel, AnswerIs
  <2>4. AnswersAdvance'
    BY <2>1, <2>2 DEF AnswersAdvance, AnswerIs
  <2> QED
    BY <2>3, <2>4
<1>3. CASE ~ListModels(c) /\ ~OpenModel(c)
  <2>1. UNCHANGED answer
    BY <1>3, StepForms, PostEffect, GatherEffect, PlaceEffect, OutputTempEffect, StoreEffect,
       DropEffect, ReadEffect
  <2>2. AnswersAdvance'
    BY <2>1 DEF AnswersAdvance
  <2>3. answer.metrics \in Uploads /\ (answer.kind = "get" /\ answer.metrics # 0 => sent[answer.metrics] # 0)
    BY DEF TypeOK, PromisesKept
  <2>4. MetricsHaveModel'
    BY <2>1, <2>3, StepMono DEF MetricsHaveModel
  <2> QED
    BY <2>2, <2>4
<1> QED
  BY <1>1, <1>2, <1>3

(***************************************************************************)
(* Uploads that do not overlap                                             *)
(***************************************************************************)
LEMMA LastStep ==
    ASSUME TypeOK, UploadsOrdered, LastOwns, NEW c \in Calls, UploadStep(c) \/ ReadStep(c)
    PROVE  LastOwns'
<1> DEFINE Alone ==
          \A d \in Calls : Uploading(d) =>
              call[d].upload = Len(sent) /\ \A e \in Calls : Uploading(e) => d = e
           Owns ==
          \A u \in Placed : (\A v \in Placed : v <= u) =>
              models[sent[u]] = u /\ (u \in stored => output = u)
<1>1. ~mixed => Alone /\ Owns
  BY DEF LastOwns
<1>2. ASSUME ~mixed' => Alone' /\ Owns' PROVE LastOwns'
  BY <1>2 DEF LastOwns
<1>3. ASSUME UNCHANGED <<sent, mixed>>, \A d \in Calls : d = c \/ call'[d] = call[d],
             Uploading(c)' => Uploading(c) /\ call'[c].upload = call[c].upload, ~mixed
      PROVE  Alone'
  BY <1>1, <1>3 DEF Uploading
<1>4. ASSUME UNCHANGED <<models, output, sent, stored>>, Owns
      PROVE  Owns'
  BY <1>4 DEF Placed
<1>5. DOMAIN sent = 1..Len(sent) /\ Len(sent) \in Nat
  BY SeqFacts DEF TypeOK
<1> HIDE DEF Alone, Owns
<1>6. CASE PostOutput(c)
  <2> DEFINE n == Len(sent) + 1
  <2>1. /\ UNCHANGED <<models, output, stored>>
        /\ DOMAIN sent' = DOMAIN sent \cup {n} /\ sent'[n] = 0 /\ Len(sent') = n
        /\ \A u \in DOMAIN sent : sent'[u] = sent[u]
        /\ call'[c].pc = "parts" /\ call'[c].upload = n
        /\ \A d \in Calls : d = c \/ call'[d] = call[d]
        /\ ~mixed' => ~mixed /\ \A d \in Calls : ~Uploading(d)
    BY <1>6, PostEffect
  <2>2. ASSUME ~mixed' PROVE Alone'
    BY <2>1, <2>2 DEF Alone, Uploading
  <2>3. Placed' = Placed /\ \A u \in Placed : sent'[u] = sent[u]
    BY <2>1 DEF Placed
  <2>4. ASSUME Owns PROVE Owns'
    BY <2>1, <2>3, <2>4 DEF Owns
  <2> QED
    BY <1>1, <1>2, <2>1, <2>2, <2>4
<1>7. CASE RenameModel(c)
  <2> DEFINE u == call[c].upload
             r == call[c].round
  <2>1. /\ UNCHANGED <<output, stored, mixed>> /\ r \in Rounds /\ u \in DOMAIN sent
        /\ models' = [models EXCEPT ![r] = u] /\ DOMAIN sent' = DOMAIN sent
        /\ Len(sent') = Len(sent) /\ sent'[u] = r
        /\ call[c].pc = "parts" /\ call'[c].pc = "output" /\ call'[c].upload = u
        /\ \A d \in Calls : d = c \/ call'[d] = call[d]
    BY <1>7, PlaceEffect
  <2>2. models'[r] = u /\ u \notin stored /\ u \in Placed'
    BY <2>1 DEF TypeOK, UploadsOrdered, Uploading, Placed, Rounds
  <2>3. ASSUME Alone PROVE u = Len(sent) /\ Alone'
    BY <2>1, <2>3 DEF Alone, Uploading
  <2>4. ASSUME Alone PROVE Owns'
    <3>1. \A v \in Placed' : v \in 1..Len(sent)
      BY <1>5, <2>1 DEF Placed
    <3>2. ASSUME NEW v \in Placed', u <= v PROVE v = u
      BY <1>5, <2>3, <2>4, <3>1, <3>2
    <3> QED
      BY <2>1, <2>2, <3>2 DEF Owns
  <2> QED
    BY <1>1, <1>2, <2>1, <2>3, <2>4
<1>8. CASE RenameOutput(c)
  <2> DEFINE u == call[c].upload
  <2>1. /\ UNCHANGED <<models, sent, mixed>> /\ call[c].pc = "rename" /\ output' = u
        /\ stored' = stored \cup {u} /\ u \in DOMAIN sent
        /\ call'[c].pc = "idle" /\ \A d \in Calls : d = c \/ call'[d] = call[d]
    BY <1>8, StoreEffect
  <2>2. u \in Placed
    BY <2>1 DEF UploadsOrdered, Placed
  <2>3. ASSUME ~mixed PROVE Alone'
    BY <1>3, <2>1, <2>3 DEF Uploading
  <2>4. ASSUME ~mixed PROVE Owns'
    <3>1. u = Len(sent)
      BY <1>1, <2>1, <2>4 DEF Alone, Uploading
    <3>2. \A v \in Placed : v \in 1..Len(sent)
      BY <1>5 DEF Placed
    <3>3. ASSUME NEW v \in Placed, u <= v PROVE v = u
      BY <1>5, <3>1, <3>2, <3>3
    <3>4. Placed' = Placed
      BY <2>1 DEF Placed
    <3> QED
      BY <1>1, <2>1, <2>2, <2>4, <3>3, <3>4 DEF Owns
  <2> QED
    BY <1>2, <2>1, <2>3, <2>4
<1>9. CASE Gathers(c)
  <2>1. /\ UNCHANGED <<models, output, sent, stored, mixed>>
        /\ call[c].pc \in {"parts", "copy"} /\ call'[c].upload = call[c].upload
        /\ \A d \in Calls : d = c \/ call'[d] = call[d]
    BY <1>9, GatherEffect
  <2> QED
    BY <1>1, <1>2, <1>3, <1>4, <2>1 DEF Uploading
<1>10. CASE OpenOutputTemp(c)
  <2>1. /\ UNCHANGED <<models, output, sent, stored, mixed>>
        /\ call[c].pc = "output" /\ call'[c].upload = call[c].upload
        /\ \A d \in Calls : d = c \/ call'[d] = call[d]
    BY <1>10, OutputTempEffect
  <2> QED
    BY <1>1, <1>2, <1>3, <1>4, <2>1 DEF Uploading
<1>11. CASE Drops(c) \/ ListModels(c) \/ OpenModel(c)
  <2>1. /\ UNCHANGED <<models, output, sent, stored, mixed>> /\ call'[c].pc = "idle"
        /\ \A d \in Calls : d = c \/ call'[d] = call[d]
    BY <1>11, DropEffect, AnswerEffect
  <2> QED
    BY <1>1, <1>2, <1>3, <1>4, <2>1 DEF Uploading
<1>12. CASE GetOutput(c) \/ Download(c)
  <2>1. /\ UNCHANGED <<models, output, sent, stored, mixed>> /\ call'[c].pc \in {"list", "open"}
        /\ \A d \in Calls : d = c \/ call'[d] = call[d]
    BY <1>12, ReadEffect
  <2> QED
    BY <1>1, <1>2, <1>3, <1>4, <2>1 DEF Uploading
<1> QED
  BY <1>6, <1>7, <1>8, <1>9, <1>10, <1>11, <1>12, StepForms

(***************************************************************************)
(* The theorems                                                            *)
(***************************************************************************)
\* gov_layer stops: the requests are gone, the files stay.
LEMMA CrashInv == IInv /\ Crash => IInv'
<1> SUFFICES ASSUME IInv, Crash PROVE IInv'
  OBVIOUS
<1>1. TypeOK'
  BY TypeStep DEF IInv, Next
<1>2. /\ UNCHANGED <<models, output, temps, sent, received, stored, known, answer, mixed>>
      /\ crashes' # 0 /\ \A d \in Calls : call'[d].pc = "idle"
  <2>1. /\ UNCHANGED <<models, output, temps, sent, received, stored, known, answer, mixed>>
        /\ crashes' = crashes + 1 /\ \A d \in Calls : call'[d].pc = "idle"
    BY CrashEffect DEF IInv
  <2>2. crashes' # 0
    BY <2>1 DEF IInv, TypeOK
  <2> QED
    BY <2>1, <2>2
<1>3. UploadsOrdered' /\ UploadsDistinct' /\ FilesWhole' /\ TempsOwned'
  BY <1>2 DEF IInv, UploadsOrdered, UploadsDistinct, FilesWhole, TempsOwned, Uploading
<1>4. PromisesKept'
  BY <1>2 DEF IInv, PromisesKept, Covered, Stored
<1>5. LastOwns' /\ MetricsHaveModel' /\ AnswersAdvance'
  BY <1>2 DEF IInv, LastOwns, Placed, MetricsHaveModel, AnswersAdvance, Uploading
<1> QED
  BY <1>1, <1>3, <1>4, <1>5 DEF IInv

LEMMA StutterInv == IInv /\ UNCHANGED vars => IInv'
<1> SUFFICES ASSUME IInv, UNCHANGED vars PROVE IInv'
  OBVIOUS
<1>1. UNCHANGED <<models, output, temps, call, sent, received, stored, known, answer, mixed, crashes>>
  BY DEF vars, files, history
<1>2. TypeOK'
  BY TypeStep DEF IInv
<1>3. UploadsOrdered' /\ UploadsDistinct' /\ FilesWhole' /\ TempsOwned'
  BY <1>1 DEF IInv, UploadsOrdered, UploadsDistinct, FilesWhole, TempsOwned, Uploading
<1>4. PromisesKept'
  BY <1>1 DEF IInv, PromisesKept, Covered, Stored
<1>5. LastOwns' /\ MetricsHaveModel' /\ AnswersAdvance'
  BY <1>1 DEF IInv, LastOwns, Placed, MetricsHaveModel, AnswersAdvance, Uploading
<1> QED
  BY <1>2, <1>3, <1>4, <1>5 DEF IInv

LEMMA InvStep == IInv /\ [Next]_vars => IInv'
<1> SUFFICES ASSUME IInv, [Next]_vars PROVE IInv'
  OBVIOUS
<1>1. ASSUME NEW c \in Calls, UploadStep(c) \/ ReadStep(c) PROVE IInv'
  <2>1. TypeOK'
    BY TypeStep DEF IInv
  <2>2. UploadsOrdered' /\ UploadsDistinct' /\ FilesWhole' /\ TempsOwned'
    BY <1>1, OrderedStep, DistinctStep, WholeStep, TempsStep DEF IInv
  <2>3. PromisesKept' /\ LastOwns' /\ MetricsHaveModel' /\ AnswersAdvance'
    BY <1>1, PromisesStep, LastStep, AnswersStep DEF IInv
  <2> QED
    BY <2>1, <2>2, <2>3 DEF IInv
<1> QED
  BY <1>1, CrashInv, StutterInv DEF Next

LEMMA Invariance == Spec => []IInv
  BY InitInv, InvStep, PTL DEF Spec

\* Uploads, readers, failures and crashes keep every file, request and answer
\* well formed: an upload in flight is one that was started, and a reader
\* holds a file that was there.
THEOREM TypeCorrect == Spec => []TypeOK
<1>1. IInv => TypeOK
  BY DEF IInv
<1> QED
  BY <1>1, Invariance, PTL

\* postFLOutput renames a temporary file only when the upload is complete, and
\* its deferred removal follows every way out of it: what is visible is whole,
\* and unless gov_layer stopped nothing is left behind.
THEOREM WholeUploads == Spec => []OnlyWholeUploads
<1>1. ASSUME IInv PROVE OnlyWholeUploads
  <2>1. ASSUME Quiet, crashes = 0 PROVE temps = {}
    <3>1. \A d \in Calls : call[d].pc = "idle"
      BY <2>1, IdleType DEF Quiet
    <3> QED
      BY <1>1, <2>1, <3>1 DEF IInv, TempsOwned
  <2> QED
    BY <1>1, <2>1 DEF OnlyWholeUploads, IInv, FilesWhole
<1> QED
  BY <1>1, Invariance, PTL

\* getFLOutput reads the metrics before it lists the models, and the model of
\* an upload is renamed before its metrics: whatever finishes between the two
\* reads, the metrics answered have a model of at least their round.
THEOREM MetricsFollowModel == Spec => []MetricsHaveModel
<1>1. IInv => MetricsHaveModel
  BY DEF IInv
<1> QED
  BY <1>1, Invariance, PTL

\* Nothing removes a model and the highest round is served: no answer of
\* getFLOutput or of the download goes back behind an upload answered 201, or
\* behind an earlier answer.
THEOREM NoAnswerGoesBack == Spec => []AnswersAdvance
<1>1. IInv => AnswersAdvance
  BY DEF IInv
<1> QED
  BY <1>1, Invariance, PTL

\* While uploads do not overlap, the metrics file and the model of the last
\* placed round are both those of the upload answered 201, whatever failed or
\* crashed before it.
THEOREM PairMatches == Spec => []StoredPairMatches
<1>1. ASSUME IInv PROVE StoredPairMatches
  <2> SUFFICES ASSUME ~mixed, Placed # {}, Max(Placed) \in stored
               PROVE  output = Max(Placed) /\ models[sent[Max(Placed)]] = Max(Placed)
    BY DEF StoredPairMatches
  <2>1. Placed \subseteq 1..Len(sent) /\ Len(sent) \in Nat
    BY <1>1, SeqFacts DEF IInv, TypeOK, Placed
  <2>2. Max(Placed) \in Placed /\ \A v \in Placed : Max(Placed) >= v
    BY <2>1, GreatestExists, MaxFacts
  <2>3. \A v \in Placed : v <= Max(Placed)
    BY <2>1, <2>2
  <2> QED
    BY <1>1, <2>2, <2>3 DEF IInv, LastOwns
<1> QED
  BY <1>1, Invariance, PTL
===============================================================================
