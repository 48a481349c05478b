------------------------------- MODULE FLOutput -------------------------------
(***************************************************************************)
(* The stored output of one FL session: a model file per round and one     *)
(* metrics file.                                                           *)
(*                                                                         *)
(* POST /fl-output/{id} streams the parts of an upload, in any order, the  *)
(* model into a temporary file; when all have arrived it renames the model *)
(* to its round's name, then writes the metrics through a second temporary *)
(* file.  GET reads the metrics, then lists the models; the download picks *)
(* the highest round, then opens the file.  Nothing locks or removes a     *)
(* file, and gov_layer may stop anywhere.                                  *)
(*                                                                         *)
(* Covered: uploads and readers that interleave, refused and failing       *)
(* uploads, crashes, retries.  A file is the number of the upload that     *)
(* wrote it.  Not covered: what metrics say, who may read, other writers   *)
(* of the checkpoint directory; a request that is refused changes nothing. *)
(***************************************************************************)
EXTENDS Naturals, Sequences, FiniteSets, FiniteSetsExt

CONSTANTS
    Calls,          \* requests that may be in flight at once
    MaxRound,       \* rounds are 1..MaxRound
    MaxUploads,     \* uploads started
    MaxFailures,    \* metrics files that cannot be written
    MaxCrashes

ASSUME FLOutputAssumption ==
    MaxRound \in Nat /\ MaxUploads \in Nat /\ MaxFailures \in Nat /\ MaxCrashes \in Nat

VARIABLES
    models,     \* model_<sid>_round_<N>.pt: the upload that wrote it, 0 if none
    output,     \* output_<sid>.json: likewise
    temps,      \* temporary files in the directory: <<upload, kind>>
    call,       \* requests in flight
    sent,       \* history: the round of every upload, 0 until its model is in place
    received,   \* history: uploads whose model has arrived in full
    stored,     \* history: uploads answered 201
    known,      \* history: what answers have promised: a round, and "ready"
    answer,     \* history: the last answer to a reader, and what was known at its start
    mixed,      \* history: two uploads have been in flight at once
    failures, crashes

files == <<models, output, temps>>
history == <<sent, received, stored, known, answer, mixed>>
vars == <<files, call, history, failures, crashes>>

Rounds == 1..MaxRound
Kinds == {"model", "metrics"}
Known == [round : 0..MaxRound, ready : BOOLEAN]
Nothing == [round |-> 0, ready |-> FALSE]

\* A request in flight: an upload and the parts it has, or a reader, what it
\* saw and what was known when it started.
Upload(pc, u, metrics, round, model) ==
    [pc |-> pc, upload |-> u, metrics |-> metrics, round |-> round, model |-> model,
     seen |-> 0, floor |-> Nothing]
Reader(pc, seen) ==
    [pc |-> pc, upload |-> 0, metrics |-> FALSE, round |-> 0, model |-> FALSE,
     seen |-> seen, floor |-> known]
Idle == Upload("idle", 0, FALSE, 0, FALSE)

Uploading(c) == call[c].pc \in {"parts", "copy", "output", "rename"}
Goto(c, pc) == call' = [call EXCEPT ![c].pc = pc]
End(c) == call' = [call EXCEPT ![c] = Idle]
Counters == UNCHANGED <<failures, crashes>>
NoAnswer == UNCHANGED <<known, answer>>

Init ==
    /\ models = [r \in Rounds |-> 0] /\ output = 0 /\ temps = {}
    /\ call = [c \in Calls |-> Idle]
    /\ sent = <<>> /\ received = {} /\ stored = {}
    /\ known = Nothing
    /\ answer = [kind |-> "none", metrics |-> 0, round |-> 0, floor |-> Nothing]
    /\ mixed = FALSE
    /\ failures = 0 /\ crashes = 0

\* The rounds with a file that modelFileRe matches.
Stored == {r \in Rounds : models[r] # 0}

\* Mutant of Highest: the model written last.
HighestUpload ==
    IF Stored = {} THEN 0 ELSE CHOOSE r \in Stored : \A q \in Stored : models[q] <= models[r]

\* flSessionModel: the highest round, nil if there is no model.
Highest == IF Stored = {} THEN 0 ELSE Max(Stored)

(***************************************************************************)
(* POST /fl-output/{id}                                                    *)
(***************************************************************************)
PostOutput(c) ==
    /\ call[c] = Idle
    /\ Len(sent) < MaxUploads
    /\ sent' = Append(sent, 0)
    /\ call' = [call EXCEPT ![c] = Upload("parts", Len(sent) + 1, FALSE, 0, FALSE)]
    /\ mixed' = (mixed \/ \E d \in Calls : Uploading(d))
    /\ UNCHANGED <<files, received, stored>> /\ NoAnswer /\ Counters

\* A repeated part is merged into the metrics already read.
MetricsPart(c) ==
    /\ call[c].pc = "parts" /\ ~call[c].metrics
    /\ call' = [call EXCEPT ![c].metrics = TRUE]
    /\ UNCHANGED <<files, history>> /\ Counters

\* The last of several parts counts.
RoundPart(c, r) ==
    /\ call[c].pc = "parts" /\ call[c].round # r
    /\ call' = [call EXCEPT ![c].round = r]
    /\ UNCHANGED <<files, history>> /\ Counters

\* A second model part is refused.
OpenModelTemp(c) ==
    /\ call[c].pc = "parts" /\ ~call[c].model
    /\ temps' = temps \cup {<<call[c].upload, "model">>}
    /\ Goto(c, "copy")
    /\ UNCHANGED <<models, output, history>> /\ Counters

CopyModel(c) ==
    /\ call[c].pc = "copy"
    /\ received' = received \cup {call[c].upload}
    /\ call' = [call EXCEPT ![c] = Upload("parts", @.upload, @.metrics, @.round, TRUE)]
    /\ UNCHANGED <<files, sent, stored, mixed>> /\ NoAnswer /\ Counters

\* Mutant of RemoveTemp: the deferred removal waits for the whole model.
RemoveWholeTemp(c) ==
    temps' = IF call[c].model THEN temps \ {<<call[c].upload, "model">>} ELSE temps

\* The deferred removal of modelTmp.
RemoveTemp(c) == temps' = temps \ {<<call[c].upload, "model">>}

\* A part is bad, repeated, too large or cut off; parts are missing; the
\* model cannot be written or renamed.
Refuse(c) ==
    /\ call[c].pc \in {"parts", "copy"}
    /\ RemoveTemp(c)
    /\ End(c)
    /\ UNCHANGED <<models, output, history>> /\ Counters

\* Mutant of PlaceModel: a round that has a model keeps it.
KeepModel(c, r) == models' = [models EXCEPT ![r] = IF @ = 0 THEN call[c].upload ELSE @]

\* The rename replaces the file of an earlier upload.
PlaceModel(c, r) == models' = [models EXCEPT ![r] = call[c].upload]

RenameModel(c) ==
    /\ call[c].pc = "parts"
    /\ call[c].metrics /\ call[c].round # 0 /\ call[c].model
    /\ PlaceModel(c, call[c].round)
    /\ temps' = temps \ {<<call[c].upload, "model">>}
    /\ sent' = [sent EXCEPT ![call[c].upload] = call[c].round]
    /\ Goto(c, "output")
    /\ UNCHANGED <<output, received, stored, mixed>> /\ NoAnswer /\ Counters

\* writeFileAtomic, and the 201.
OpenOutputTemp(c) ==
    /\ call[c].pc = "output"
    /\ temps' = temps \cup {<<call[c].upload, "metrics">>}
    /\ Goto(c, "rename")
    /\ UNCHANGED <<models, output, history>> /\ Counters

Promise(r, ready) ==
    known' = [round |-> Max({known.round, r}), ready |-> known.ready \/ ready]

\* The rename and the 201 are one step.  A crash between them, which leaves the
\* same files with nobody promised them, is not explored.
RenameOutput(c) ==
    /\ call[c].pc = "rename"
    /\ output' = call[c].upload
    /\ temps' = temps \ {<<call[c].upload, "metrics">>}
    /\ stored' = stored \cup {call[c].upload}
    /\ Promise(call[c].round, TRUE)
    /\ End(c)
    /\ UNCHANGED <<models, sent, received, answer, mixed>> /\ Counters

\* The model stays in place when its metrics cannot be written.
OutputFails(c) ==
    /\ call[c].pc \in {"output", "rename"}
    /\ failures < MaxFailures /\ failures' = failures + 1
    /\ temps' = temps \ {<<call[c].upload, "metrics">>}
    /\ End(c)
    /\ UNCHANGED <<models, output, history, crashes>>

(***************************************************************************)
(* GET /fl-output/{id} and its download                                    *)
(***************************************************************************)
Read(c, pc, seen) ==
    /\ call[c] = Idle
    /\ call' = [call EXCEPT ![c] = Reader(pc, seen)]
    /\ UNCHANGED <<files, history>> /\ Counters

Answer(c, kind, metrics, round) ==
    /\ answer' = [kind |-> kind, metrics |-> metrics, round |-> round, floor |-> call[c].floor]
    /\ Promise(round, metrics # 0 /\ round # 0)
    /\ End(c)
    /\ UNCHANGED <<files, sent, received, stored, mixed>> /\ Counters

\* Parts of ModelsFirst.
GetModels(c) == Read(c, "list", Highest)
ReadOutputLast(c) == call[c].pc = "list" /\ Answer(c, "get", output, call[c].seen)

\* The metrics file, if there is one.
GetOutput(c) == Read(c, "list", output)

ListModels(c) == call[c].pc = "list" /\ Answer(c, "get", call[c].seen, Highest)

\* Without a model the answer is 404.
Download(c) == Stored # {} /\ Read(c, "open", Highest)

\* The opened file is served whatever is renamed over its name.
OpenModel(c) == call[c].pc = "open" /\ Answer(c, "download", 0, call[c].seen)

\* A file cannot be read, or the reader hangs up.
ReadFails(c) ==
    /\ call[c].pc \in {"list", "open"}
    /\ End(c)
    /\ UNCHANGED <<files, history>> /\ Counters

\* gov_layer stops: no deferred removal runs.
Crash ==
    /\ crashes < MaxCrashes /\ crashes' = crashes + 1
    /\ \E c \in Calls : call[c] # Idle
    /\ call' = [c \in Calls |-> Idle]
    /\ UNCHANGED <<files, history, failures>>

UploadStep(c) ==
    \/ PostOutput(c) \/ MetricsPart(c) \/ OpenModelTemp(c) \/ CopyModel(c)
    \/ RenameModel(c) \/ OpenOutputTemp(c) \/ RenameOutput(c)
    \/ Refuse(c) \/ OutputFails(c)
    \/ \E r \in Rounds : RoundPart(c, r)

\* Mutant of ReadStep: the models are listed before the metrics are read.
ModelsFirst(c) ==
    GetModels(c) \/ ReadOutputLast(c) \/ Download(c) \/ OpenModel(c) \/ ReadFails(c)

ReadStep(c) == GetOutput(c) \/ ListModels(c) \/ Download(c) \/ OpenModel(c) \/ ReadFails(c)

Next == Crash \/ \E c \in Calls : UploadStep(c) \/ ReadStep(c)

Spec == Init /\ [][Next]_vars

(***************************************************************************)
(* Properties                                                              *)
(***************************************************************************)
Uploads == 0..Len(sent)
CallType ==
    [pc : {"idle", "parts", "copy", "output", "rename", "list", "open"},
     upload : Nat, metrics : BOOLEAN, round : 0..MaxRound, model : BOOLEAN,
     seen : Nat, floor : Known]

\* The type invariant.
TypeOK ==
    /\ models \in [Rounds -> Uploads] /\ output \in Uploads
    /\ temps \subseteq (DOMAIN sent) \X Kinds
    /\ call \in [Calls -> CallType]
    /\ \A c \in Calls :
          /\ Uploading(c) => call[c].upload \in DOMAIN sent
          /\ call[c].pc = "list" => call[c].seen \in Uploads
          /\ call[c].pc = "open" => call[c].seen \in 0..MaxRound
    /\ sent \in Seq(0..MaxRound) /\ received \subseteq DOMAIN sent /\ stored \subseteq DOMAIN sent
    /\ known \in Known
    /\ answer \in [kind : {"none", "get", "download"}, metrics : Uploads,
                   round : 0..MaxRound, floor : Known]
    /\ mixed \in BOOLEAN /\ failures \in Nat /\ crashes \in Nat

Quiet == \A c \in Calls : call[c] = Idle

\* Only what has arrived in full is ever visible: a model or metrics of an
\* upload that was cut off, refused or interrupted by a crash never is; and
\* such an upload leaves no temporary file either, unless it was a crash.
OnlyWholeUploads ==
    /\ \A r \in Rounds : models[r] # 0 => models[r] \in received /\ sent[models[r]] = r
    /\ output # 0 => output \in received /\ sent[output] # 0
    /\ (Quiet /\ crashes = 0) => temps = {}

\* An answer that has metrics has a model of at least their round, whatever
\* uploads finish between the two reads (getFLOutput): a session is never
\* shown metrics beside the model of an earlier round, or beside none.
MetricsHaveModel ==
    (answer.kind = "get" /\ answer.metrics # 0) => answer.round >= sent[answer.metrics]

\* Answers never go back: a request that starts after an upload was answered
\* 201, or after another answer, finds the output ready if it was, and a
\* model at least that far, across failing uploads and crashes.
AnswersAdvance ==
    /\ answer.round >= answer.floor.round
    /\ (answer.kind = "get" /\ answer.floor.ready) => answer.metrics # 0 /\ answer.round # 0

\* A retry repairs: while uploads do not overlap, if the last one that got
\* its model in place was answered 201, the metrics and its round's model
\* are both its own, whatever failed or crashed before it.
Placed == {u \in DOMAIN sent : sent[u] # 0}
StoredPairMatches ==
    (~mixed /\ Placed # {} /\ Max(Placed) \in stored) =>
        /\ output = Max(Placed)
        /\ models[sent[Max(Placed)]] = Max(Placed)
===============================================================================
