------------------------------ MODULE TEEOutcome ------------------------------
(***************************************************************************)
(* How a TEE run starts and how its outcome reaches contract_events.       *)
(*                                                                         *)
(* POST /v1/tee/run asks the coordinator to create a job, records          *)
(* run_started and leaves a watcher goroutine behind, which polls GetJob   *)
(* until the job is final and records how it ended.  The UI's              *)
(* GET /v1/tee/jobs/{jobId} records it too, and a restarted server resumes *)
(* the watchers of unsettled runs from the events.  settleMu makes         *)
(* check-then-record one step at a time.  The run gate itself is in        *)
(* ContractSigning; here a run is one coordinator job.                     *)
(***************************************************************************)
EXTENDS Naturals, Sequences, FiniteSets, SequencesExt

CONSTANTS
    Jobs,           \* coordinator jobs
    Pollers,        \* concurrent UI polls
    LongRuns,       \* TRUE if a job may outlast the watch limits (6 h, 24 h)
    MaxFailures,    \* database calls that may fail
    MaxCrashes      \* crashes of gov_layer

ASSUME OutcomeAssumption ==
    /\ Jobs # {}
    /\ LongRuns \in BOOLEAN /\ MaxFailures \in Nat /\ MaxCrashes \in Nat
    /\ Pollers \cap (Jobs \X {"run", "resume"}) = {}

VARIABLES
    coord,      \* the coordinator's state of each job
    start,      \* progress of the POST /v1/tee/run that created it
    events,     \* contract_events naming the job, oldest first
    thread,     \* watchers and polls
    mu,         \* holders of settleMu
    up,         \* is gov_layer running
    resumed,    \* has this process listed the unsettled runs
    abandoned,      \* history: jobs whose last watch ended without knowing an outcome
    failures, crashes

vars == <<coord, start, events, thread, mu, up, resumed, abandoned, failures, crashes>>

\* A job may be watched by the goroutine its run left behind and by one that
\* a restarted server resumed.
Watchers == Jobs \X {"run", "resume"}
Threads == Watchers \cup Pollers

Final == {"succeeded", "failed", "cancelled"}
Started == "run_started"
Failed == "run_failed"
Outcomes == {"run_succeeded", "run_execution_failed"}

Thread(pc, j, raw) == [pc |-> pc, job |-> j, raw |-> raw]

Off == Thread("off", CHOOSE j \in Jobs : TRUE, "none")

\* HasTEERunOutcome
HasOutcome(j) == \E o \in Outcomes : Contains(events[j], o)

\* Mutant of OutcomeEvent: a cancelled job counts as a success.
OutcomeUnlessFailed(raw) ==
    IF raw = "failed" THEN "run_execution_failed" ELSE "run_succeeded"

\* Only SUCCEEDED is a success; FAILED and CANCELLED are execution failures.
OutcomeEvent(raw) ==
    IF raw = "succeeded" THEN "run_succeeded" ELSE "run_execution_failed"

AddContractEvent(j, e) == events' = [events EXCEPT ![j] = Append(@, e)]
Goto(t, pc) == thread' = [thread EXCEPT ![t].pc = pc]

\* One database call fails; its caller logs that and goes on.
DBFails == failures < MaxFailures /\ failures' = failures + 1

Init ==
    /\ coord = [j \in Jobs |-> "none"]
    /\ start = [j \in Jobs |-> "new"]
    /\ events = [j \in Jobs |-> <<>>]
    /\ thread = [t \in Threads |-> Off]
    /\ mu = {}
    /\ up = TRUE
    /\ resumed = FALSE
    /\ abandoned = {}
    /\ failures = 0
    /\ crashes = 0

(***************************************************************************)
(* The coordinator                                                         *)
(***************************************************************************)
CoordAccept(j) ==
    /\ start[j] = "asked" /\ coord[j] = "none"
    /\ coord' = [coord EXCEPT ![j] = "running"]
    /\ UNCHANGED <<start, events, thread, mu, up, resumed, abandoned, failures, crashes>>

CoordFinish(j) ==
    /\ coord[j] = "running"
    /\ \E s \in Final : coord' = [coord EXCEPT ![j] = s]
    /\ UNCHANGED <<start, events, thread, mu, up, resumed, abandoned, failures, crashes>>

(***************************************************************************)
(* POST /v1/tee/run, after the gate                                        *)
(***************************************************************************)
CreateJob(j) ==
    /\ up /\ start[j] = "new"
    /\ start' = [start EXCEPT ![j] = "asked"]
    /\ UNCHANGED <<coord, events, thread, mu, up, resumed, abandoned, failures, crashes>>

CreateJobAnswered(j) ==
    /\ up /\ start[j] = "asked" /\ coord[j] # "none"
    /\ start' = [start EXCEPT ![j] = "answered"]
    /\ UNCHANGED <<coord, events, thread, mu, up, resumed, abandoned, failures, crashes>>

\* grpcurl fails, or is cut off after 60 s, whether or not the coordinator
\* has created the job by then.
CreateJobFailed(j) ==
    /\ up /\ start[j] = "asked"
    /\ start' = [start EXCEPT ![j] = "lost"]
    /\ \/ AddContractEvent(j, Failed) /\ UNCHANGED failures
       \/ UNCHANGED events /\ DBFails
    /\ UNCHANGED <<coord, thread, mu, up, resumed, abandoned, crashes>>

RecordStarted(j) ==
    /\ up /\ start[j] = "answered"
    /\ start' = [start EXCEPT ![j] = "recorded"]
    /\ \/ AddContractEvent(j, Started) /\ UNCHANGED failures
       \/ UNCHANGED events /\ DBFails
    /\ UNCHANGED <<coord, thread, mu, up, resumed, abandoned, crashes>>

\* go watchTEERun
StartWatcher(j) ==
    /\ up /\ start[j] = "recorded"
    /\ start' = [start EXCEPT ![j] = "ended"]
    /\ thread' = [thread EXCEPT ![<<j, "run">>] = Thread("poll", j, "none")]
    /\ UNCHANGED <<coord, events, mu, up, resumed, abandoned, failures, crashes>>

(***************************************************************************)
(* Watchers and polls.  A GetJob that fails or finds the job still running *)
(* changes nothing.                                                        *)
(***************************************************************************)
WatchPoll(t) ==
    /\ t \in Watchers /\ thread[t].pc = "poll"
    /\ coord[thread[t].job] \in Final
    /\ thread' = [thread EXCEPT ![t] = Thread("lock", @.job, coord[@.job])]
    /\ UNCHANGED <<coord, start, events, mu, up, resumed, abandoned, failures, crashes>>

\* A watcher ends without knowing an outcome.  Nothing is given up if the
\* job's other watcher goes on, or if it is a poll of the UI that ends.
GiveUp(t) ==
    LET left == {w \in Watchers \ {t} : thread[w].pc # "off" /\ thread[w].job = thread[t].job}
    IN  abandoned' = IF t \in Watchers /\ left = {}
                     THEN abandoned \cup {thread[t].job} ELSE abandoned

\* teeWatchMaxAge has passed.
WatchExpired(t) ==
    /\ LongRuns
    /\ t \in Watchers /\ thread[t].pc = "poll"
    /\ thread' = [thread EXCEPT ![t] = Off]
    /\ GiveUp(t)
    /\ UNCHANGED <<coord, start, events, mu, up, resumed, failures, crashes>>

\* GET /v1/tee/jobs/{jobId}, with the id the run's response gave the UI.
GetTEEJob(t, j) ==
    /\ up /\ t \in Pollers /\ thread[t] = Off
    /\ start[j] = "ended" /\ coord[j] \in Final
    /\ thread' = [thread EXCEPT ![t] = Thread("lock", j, coord[j])]
    /\ UNCHANGED <<coord, start, events, mu, up, resumed, abandoned, failures, crashes>>

\* Mutant of LockFree: settleMu is not taken.
LockAlways == TRUE

LockFree == mu = {}

SettleLock(t) ==
    /\ thread[t].pc = "lock" /\ LockFree
    /\ mu' = mu \cup {t}
    /\ Goto(t, "check")
    /\ UNCHANGED <<coord, start, events, up, resumed, abandoned, failures, crashes>>

\* settleTEERun returns true: unlock, and a watcher is done.
SettleReturn(t) ==
    /\ mu' = mu \ {t}
    /\ thread' = [thread EXCEPT ![t] = Off]

\* A failed check counts as settled.
SettleCheck(t) ==
    /\ thread[t].pc = "check"
    /\ \/ HasOutcome(thread[t].job) /\ SettleReturn(t) /\ UNCHANGED <<abandoned, failures>>
       \/ ~HasOutcome(thread[t].job) /\ Goto(t, "record") /\ UNCHANGED <<mu, abandoned, failures>>
       \/ SettleReturn(t) /\ DBFails /\ GiveUp(t)
    /\ UNCHANGED <<coord, start, events, up, resumed, crashes>>

\* So does a failed lookup of the contract's job_id, or a failed insert.
SettleRecord(t) ==
    /\ thread[t].pc = "record"
    /\ \/ AddContractEvent(thread[t].job, OutcomeEvent(thread[t].raw)) /\ UNCHANGED <<abandoned, failures>>
       \/ UNCHANGED events /\ DBFails /\ GiveUp(t)
    /\ SettleReturn(t)
    /\ UNCHANGED <<coord, start, up, resumed, crashes>>

(***************************************************************************)
(* Crash and restart                                                       *)
(***************************************************************************)
Crash ==
    /\ up /\ crashes < MaxCrashes
    /\ crashes' = crashes + 1
    /\ up' = FALSE
    /\ mu' = {}
    /\ thread' = [t \in Threads |-> Off]
    /\ start' = [j \in Jobs |-> IF start[j] \in {"new", "ended"} THEN start[j] ELSE "lost"]
    /\ UNCHANGED <<coord, events, resumed, abandoned, failures>>

Restart ==
    /\ ~up
    /\ up' = TRUE
    /\ resumed' = FALSE
    /\ UNCHANGED <<coord, start, events, thread, mu, abandoned, failures, crashes>>

\* Mutant of UnsettledTEERuns: the outcome events are looked up, not their
\* absence.
SettledTEERuns == {j \in Jobs : Contains(events[j], Started) /\ HasOutcome(j)}

\* ListUnsettledTEERuns
UnsettledTEERuns == {j \in Jobs : Contains(events[j], Started) /\ ~HasOutcome(j)}

\* Runs nobody watches and whose own watcher is not about to start.
Unwatched(js) == {j \in js : thread[<<j, "run">>].pc = "off" /\ start[j] # "recorded"}

\* resumeTEERunWatchers, in a goroutine of its own while requests are already
\* served; runs older than teeWatchResumeWindow are left out.
ResumeTEERunWatchers ==
    /\ up /\ ~resumed
    /\ resumed' = TRUE
    /\ \/ \E js \in SUBSET UnsettledTEERuns :
            /\ LongRuns \/ js = UnsettledTEERuns
            /\ thread' = [t \in Threads |->
                            IF t \in js \X {"resume"}
                            THEN Thread("poll", t[1], "none") ELSE thread[t]]
            /\ abandoned' = abandoned \cup Unwatched(UnsettledTEERuns \ js)
            /\ UNCHANGED failures
       \/ UNCHANGED thread /\ DBFails
          /\ abandoned' = abandoned \cup Unwatched(UnsettledTEERuns)
    /\ UNCHANGED <<coord, start, events, mu, up, crashes>>

StartStep(j) ==
    CreateJobAnswered(j) \/ CreateJobFailed(j) \/ RecordStarted(j) \/ StartWatcher(j)
SettleStep(t) == SettleLock(t) \/ SettleCheck(t) \/ SettleRecord(t)

Next ==
    \/ \E j \in Jobs : CoordAccept(j) \/ CoordFinish(j) \/ CreateJob(j) \/ StartStep(j)
    \/ \E t \in Threads : WatchPoll(t) \/ WatchExpired(t) \/ SettleStep(t)
    \/ \E t \in Pollers, j \in Jobs : GetTEEJob(t, j)
    \/ Crash \/ Restart \/ ResumeTEERunWatchers

Spec == Init /\ [][Next]_vars

(***************************************************************************)
(* Goroutines that can run do run; a watcher retries GetJob every 10 s; an *)
(* accepted job ends; a crashed server is started again.  SF on the lock   *)
(* is sync.Mutex's starvation mode: polls cannot keep it from a watcher    *)
(* for ever.  Nothing makes the UI poll.                                   *)
(***************************************************************************)
Fairness ==
    /\ \A j \in Jobs : WF_vars(CoordFinish(j)) /\ WF_vars(StartStep(j))
    /\ \A t \in Threads : WF_vars(WatchPoll(t)) /\ WF_vars(SettleStep(t)) /\ SF_vars(SettleLock(t))
    /\ WF_vars(Restart) /\ WF_vars(ResumeTEERunWatchers)

FairSpec == Spec /\ Fairness

(***************************************************************************)
(* Properties                                                              *)
(***************************************************************************)
Events == {Started, Failed} \cup Outcomes
ThreadType == [pc : {"off", "poll", "lock", "check", "record"}, job : Jobs,
               raw : {"none"} \cup Final]

\* The type invariant.
TypeOK ==
    /\ coord \in [Jobs -> {"none", "running"} \cup Final]
    /\ start \in [Jobs -> {"new", "asked", "answered", "recorded", "ended", "lost"}]
    /\ events \in [Jobs -> Seq(Events)]
    /\ thread \in [Threads -> ThreadType]
    /\ mu \subseteq Threads
    /\ up \in BOOLEAN /\ resumed \in BOOLEAN
    /\ abandoned \subseteq Jobs
    /\ failures \in Nat /\ crashes \in Nat

\* A run's outcome is recorded at most once, although its watcher, a resumed
\* watcher and the UI's polls settle it concurrently (settleMu), and the trail
\* of the run reads in order: nothing follows its outcome.
OutcomeOnce ==
    \A j \in Jobs : \A i \in DOMAIN events[j] :
        events[j][i] \in Outcomes => i = Len(events[j])

\* What is recorded is how the job ended at the coordinator, and it ended:
\* also when the answer is used long after it was fetched.
OutcomeTrue ==
    \A j \in Jobs : HasOutcome(j) =>
        /\ coord[j] \in Final
        /\ Contains(events[j], "run_succeeded") <=> coord[j] = "succeeded"

\* A run whose start was recorded gets its outcome recorded even if nobody
\* polls and the server restarts meanwhile, unless the last watcher it had in a
\* process met a failed database call or a watch limit (watchTEERun,
\* resumeTEERunWatchers).  A poll of the UI that fails excuses nothing.
StartedIsSettled ==
    \A j \in Jobs : Contains(events[j], Started) ~> (HasOutcome(j) \/ j \in abandoned)
===============================================================================
