--------------------------- MODULE TEEOutcomeProofs ---------------------------
(***************************************************************************)
(* Proofs about TEEOutcome, for any number of jobs, polls, failures and    *)
(* crashes, and runs of any length.                                        *)
(***************************************************************************)
EXTENDS TEEOutcome, SequenceTheorems, TLAPS

(***************************************************************************)
(* Events and threads                                                      *)
(***************************************************************************)
\* AddContractEvent adds one event at the end of one job's trail.
LEMMA AddEvent ==
    ASSUME TypeOK, NEW j \in Jobs, NEW e \in Events, AddContractEvent(j, e)
    PROVE  /\ events' \in [Jobs -> Seq(Events)]
           /\ \A k \in Jobs : k = j \/ events'[k] = events[k]
           /\ Len(events[j]) \in Nat /\ Len(events'[j]) = Len(events[j]) + 1
           /\ DOMAIN events'[j] = 1 .. Len(events[j]) + 1
           /\ DOMAIN events[j] = 1 .. Len(events[j])
           /\ events'[j][Len(events[j]) + 1] = e
           /\ \A i \in 1..Len(events[j]) : events'[j][i] = events[j][i]
<1>1. events[j] \in Seq(Events) /\ events'[j] = Append(events[j], e)
  BY DEF TypeOK, AddContractEvent
<1>2. \A k \in Jobs : k = j \/ events'[k] = events[k]
  BY DEF TypeOK, AddContractEvent
<1>3. Append(events[j], e) \in Seq(Events)
  BY <1>1, AppendProperties
<1> QED
  BY <1>1, <1>2, <1>3, AppendProperties, LenProperties DEF TypeOK, AddContractEvent

\* What a trail contains after that.
LEMMA ContainsAfterAdd ==
    ASSUME TypeOK, NEW j \in Jobs, NEW e \in Events, AddContractEvent(j, e)
    PROVE  \A k \in Jobs : \A x :
              Contains(events'[k], x) <=> (Contains(events[k], x) \/ (k = j /\ x = e))
<1>1. ASSUME NEW x PROVE Contains(events'[j], x) <=> (Contains(events[j], x) \/ x = e)
  BY AddEvent DEF Contains
<1>2. ASSUME NEW k \in Jobs, k # j, NEW x PROVE Contains(events'[k], x) <=> Contains(events[k], x)
  BY <1>2, AddEvent DEF Contains
<1> QED
  BY <1>1, <1>2

LEMMA OffType == Off \in ThreadType /\ Off.pc = "off"
  BY OutcomeAssumption DEF Off, Thread, ThreadType

\* settleTEERun's return leaves the other threads as they are.
LEMMA ReturnEffect ==
    ASSUME TypeOK, NEW t \in Threads, SettleReturn(t)
    PROVE  /\ thread' \in [Threads -> ThreadType]
           /\ thread'[t] = Off
           /\ \A u \in Threads : u = t \/ thread'[u] = thread[u]
           /\ mu' = mu \ {t}
  BY OffType DEF SettleReturn, TypeOK

LEMMA GotoEffect ==
    ASSUME TypeOK, NEW t \in Threads, NEW pc \in {"check", "record"}, Goto(t, pc)
    PROVE  /\ thread' \in [Threads -> ThreadType]
           /\ thread'[t].pc = pc /\ thread'[t].job = thread[t].job /\ thread'[t].raw = thread[t].raw
           /\ \A u \in Threads : u = t \/ thread'[u] = thread[u]
  BY DEF Goto, TypeOK, ThreadType

LEMMA OutcomeIsEvent ==
    /\ Started \in Events /\ Failed \in Events
    /\ Started \notin Outcomes /\ Failed \notin Outcomes
    /\ \A raw : OutcomeEvent(raw) \in Outcomes /\ OutcomeEvent(raw) \in Events
  BY DEF Started, Failed, Outcomes, Events, OutcomeEvent

(***************************************************************************)
(* Type correctness                                                        *)
(***************************************************************************)
\* The state is well typed initially.
LEMMA InitType == Init => TypeOK
<1> SUFFICES ASSUME Init PROVE TypeOK
  OBVIOUS
<1>1. events \in [Jobs -> Seq(Events)]
  BY EmptySeq DEF Init
<1>2. thread \in [Threads -> ThreadType]
  BY OffType DEF Init
<1>3. mu \subseteq Threads /\ abandoned \subseteq Jobs
  BY DEF Init
<1> QED
  BY <1>1, <1>2, <1>3 DEF Init, TypeOK

\* A database call that fails is counted.
LEMMA FailuresType == TypeOK /\ (DBFails \/ UNCHANGED failures) => failures' \in Nat
  BY DEF TypeOK, DBFails

LEMMA StartType ==
    ASSUME TypeOK, NEW j \in Jobs, StartStep(j)
    PROVE  TypeOK'
<1> USE OutcomeIsEvent, FailuresType
<1>1. CASE CreateJobAnswered(j)
  BY <1>1 DEF CreateJobAnswered, TypeOK
<1>2. CASE CreateJobFailed(j)
  <2>1. events' \in [Jobs -> Seq(Events)]
    BY <1>2, AddEvent DEF CreateJobFailed, TypeOK
  <2> QED
    BY <1>2, <2>1 DEF CreateJobFailed, TypeOK
<1>3. CASE RecordStarted(j)
  <2>1. events' \in [Jobs -> Seq(Events)]
    BY <1>3, AddEvent DEF RecordStarted, TypeOK
  <2> QED
    BY <1>3, <2>1 DEF RecordStarted, TypeOK
<1>4. CASE StartWatcher(j)
  BY <1>4 DEF StartWatcher, TypeOK, Thread, ThreadType
<1> QED
  BY <1>1, <1>2, <1>3, <1>4 DEF StartStep

LEMMA SettleType ==
    ASSUME TypeOK, NEW t \in Threads, SettleStep(t)
    PROVE  TypeOK'
<1> USE OutcomeIsEvent, FailuresType
<1>1. thread[t].job \in Jobs
  BY DEF TypeOK, ThreadType
<1>2. CASE SettleLock(t)
  BY <1>2, GotoEffect DEF SettleLock, TypeOK
<1>3. CASE SettleCheck(t)
  <2>1. thread' \in [Threads -> ThreadType] /\ mu' \subseteq Threads
    BY <1>3, GotoEffect, ReturnEffect DEF SettleCheck, GiveUp, TypeOK
  <2> QED
    BY <1>1, <1>3, <2>1 DEF SettleCheck, GiveUp, TypeOK
<1>4. CASE SettleRecord(t)
  <2>1. thread' \in [Threads -> ThreadType] /\ mu' \subseteq Threads
    BY <1>4, ReturnEffect DEF SettleRecord, GiveUp, TypeOK
  <2>2. events' \in [Jobs -> Seq(Events)]
    BY <1>1, <1>4, AddEvent DEF SettleRecord, GiveUp, TypeOK
  <2> QED
    BY <1>1, <1>4, <2>1, <2>2 DEF SettleRecord, GiveUp, TypeOK
<1> QED
  BY <1>2, <1>3, <1>4 DEF SettleStep

\* A restarted server watches unsettled runs, in threads of their own.
LEMMA ResumeEffect ==
    ASSUME TypeOK, ResumeTEERunWatchers
    PROVE  /\ thread' \in [Threads -> ThreadType]
           /\ \A t \in Threads :
                 \/ thread'[t] = thread[t]
                 \/ \E j \in UnsettledTEERuns :
                       t = <<j, "resume">> /\ thread'[t] = Thread("poll", j, "none")
<1>1. CASE UNCHANGED thread
  BY <1>1 DEF TypeOK
<1>2. ASSUME NEW js \in SUBSET UnsettledTEERuns,
             thread' = [t \in Threads |-> IF t \in js \X {"resume"}
                                           THEN Thread("poll", t[1], "none") ELSE thread[t]]
      PROVE  \A t \in Threads : /\ thread'[t] \in ThreadType
                 /\ \/ thread'[t] = thread[t]
                    \/ \E j \in UnsettledTEERuns :
                          t = <<j, "resume">> /\ thread'[t] = Thread("poll", j, "none")
  <2> TAKE t \in Threads
  <2>1. CASE t \in js \X {"resume"}
    <3>1. PICK j \in js : t = <<j, "resume">>
      BY <2>1
    <3>2. thread'[t] = Thread("poll", j, "none") /\ j \in Jobs
      BY <1>2, <2>1, <3>1 DEF UnsettledTEERuns
    <3> QED
      BY <3>1, <3>2 DEF Thread, ThreadType
  <2>2. CASE t \notin js \X {"resume"}
    BY <1>2, <2>2 DEF TypeOK
  <2> QED
    BY <2>1, <2>2
<1>3. \/ UNCHANGED thread
      \/ \E js \in SUBSET UnsettledTEERuns :
            thread' = [t \in Threads |-> IF t \in js \X {"resume"}
                                         THEN Thread("poll", t[1], "none") ELSE thread[t]]
  BY DEF ResumeTEERunWatchers
<1>4. UNCHANGED thread \/ \A t \in Threads : /\ thread'[t] \in ThreadType
                 /\ \/ thread'[t] = thread[t]
                    \/ \E j \in UnsettledTEERuns :
                          t = <<j, "resume">> /\ thread'[t] = Thread("poll", j, "none")
  BY <1>2, <1>3, Zenon
<1>5. thread' = [t \in Threads |-> thread'[t]]
  BY <1>3 DEF TypeOK
<1> QED
  BY <1>1, <1>4, <1>5

\* Every step keeps the state well typed.
LEMMA TypeStep == TypeOK /\ [Next]_vars => TypeOK'
<1> SUFFICES ASSUME TypeOK, [Next]_vars PROVE TypeOK'
  OBVIOUS
<1> USE OutcomeAssumption
<1>1. ASSUME NEW j \in Jobs, CoordAccept(j) \/ CoordFinish(j) \/ CreateJob(j) PROVE TypeOK'
  <2>1. CASE CoordAccept(j)
    BY <2>1 DEF CoordAccept, TypeOK
  <2>2. CASE CoordFinish(j)
    BY <2>2 DEF CoordFinish, TypeOK
  <2>3. CASE CreateJob(j)
    BY <2>3 DEF CreateJob, TypeOK
  <2> QED
    BY <1>1, <2>1, <2>2, <2>3
<1>2. ASSUME NEW j \in Jobs, StartStep(j) PROVE TypeOK'
  BY <1>2, StartType
<1>3. ASSUME NEW t \in Threads, WatchPoll(t) PROVE TypeOK'
  <2>1. Thread("lock", thread[t].job, coord[thread[t].job]) \in ThreadType
    BY <1>3 DEF WatchPoll, TypeOK, Thread, ThreadType
  <2>2. thread' \in [Threads -> ThreadType]
    BY <1>3, <2>1 DEF WatchPoll, TypeOK
  <2> QED
    BY <1>3, <2>2 DEF WatchPoll, TypeOK
<1>4. ASSUME NEW t \in Threads, WatchExpired(t) PROVE TypeOK'
  <2>1. thread[t].job \in Jobs
    BY DEF TypeOK, ThreadType
  <2> QED
    BY <1>4, <2>1, OffType DEF WatchExpired, GiveUp, TypeOK
<1>5. ASSUME NEW t \in Threads, SettleStep(t) PROVE TypeOK'
  BY <1>5, SettleType
<1>6. ASSUME NEW t \in Pollers, NEW j \in Jobs, GetTEEJob(t, j) PROVE TypeOK'
  <2>1. Thread("lock", j, coord[j]) \in ThreadType
    BY <1>6 DEF GetTEEJob, Thread, ThreadType
  <2>2. thread' \in [Threads -> ThreadType]
    BY <1>6, <2>1 DEF GetTEEJob, TypeOK
  <2> QED
    BY <1>6, <2>2 DEF GetTEEJob, TypeOK
<1>7. CASE Crash
  <2>1. thread' \in [Threads -> ThreadType] /\ mu' \subseteq Threads
    BY <1>7, OffType DEF Crash
  <2>2. start' \in [Jobs -> {"new", "asked", "answered", "recorded", "ended", "lost"}]
    <3>1. ASSUME NEW j \in Jobs
          PROVE  (IF start[j] \in {"new", "ended"} THEN start[j] ELSE "lost") \in
                     {"new", "asked", "answered", "recorded", "ended", "lost"}
      OBVIOUS
    <3> QED
      BY <1>7, <3>1 DEF Crash
  <2>3. crashes' \in Nat
    BY <1>7 DEF Crash, TypeOK
  <2>4. up' \in BOOLEAN /\ UNCHANGED <<coord, events, resumed, abandoned, failures>>
    BY <1>7 DEF Crash
  <2> QED
    BY <2>1, <2>2, <2>3, <2>4 DEF TypeOK
<1>8. CASE Restart
  BY <1>8 DEF Restart, TypeOK
<1>9. CASE ResumeTEERunWatchers
  <2>1. thread' \in [Threads -> ThreadType]
    BY <1>9, ResumeEffect
  <2>2. UnsettledTEERuns \subseteq Jobs
    BY DEF UnsettledTEERuns
  <2> QED
    BY <1>9, <2>1, <2>2, FailuresType DEF ResumeTEERunWatchers, Unwatched, TypeOK
<1>10. CASE UNCHANGED vars
  BY <1>10 DEF vars, TypeOK
<1> QED
  BY <1>1, <1>2, <1>3, <1>4, <1>5, <1>6, <1>7, <1>8, <1>9, <1>10 DEF Next

(***************************************************************************)
(* One outcome, and a true one                                             *)
(***************************************************************************)
InSettle == {"check", "record"}

\* settleMu: a thread between check and record holds the mutex alone.
MutexInv ==
    /\ \A t \in Threads : thread[t].pc \in InSettle => t \in mu
    /\ \A t, u \in mu : t = u

\* A thread is only reused when nothing runs in it.
ThreadsFree ==
    /\ \A j \in Jobs : start[j] # "ended" => thread[<<j, "run">>].pc = "off"
    /\ ~resumed => \A j \in Jobs : thread[<<j, "resume">>].pc = "off"
    /\ ~up => \A t \in Threads : thread[t].pc = "off"

\* Jobs that are watched, or have an outcome, are past their CreateJob.
Past == {"recorded", "ended", "lost"}
WatchedArePast ==
    /\ \A t \in Threads : thread[t].pc # "off" => start[thread[t].job] \in Past
    /\ \A j \in Jobs : (Contains(events[j], Started) \/ HasOutcome(j)) => start[j] \in Past

\* What a thread is about to record is how the job ended, and nobody else has
\* recorded it.
AnswersTrue ==
    \A t \in Threads :
        /\ thread[t].pc \in {"lock"} \cup InSettle =>
              thread[t].raw \in Final /\ coord[thread[t].job] = thread[t].raw
        /\ thread[t].pc = "record" => ~HasOutcome(thread[t].job)

\* The inductive invariant.
IInv ==
    /\ TypeOK /\ MutexInv /\ ThreadsFree /\ WatchedArePast /\ AnswersTrue
    /\ OutcomeOnce /\ OutcomeTrue

LEMMA InitInv == Init => IInv
<1> SUFFICES ASSUME Init PROVE IInv
  OBVIOUS
<1>1. \A t \in Threads : thread[t].pc = "off"
  BY OffType DEF Init
<1>2. \A k \in Jobs : <<k, "run">> \in Threads /\ <<k, "resume">> \in Threads
  BY DEF Threads, Watchers
<1>3. \A k \in Jobs : \A x : ~Contains(events[k], x)
  BY DEF Init, Contains
<1>4. \A k \in Jobs : DOMAIN events[k] = {}
  BY DEF Init
<1>5. MutexInv /\ ThreadsFree
  BY <1>1, <1>2 DEF Init, MutexInv, ThreadsFree, InSettle
<1>6. WatchedArePast /\ AnswersTrue
  BY <1>1, <1>3 DEF WatchedArePast, AnswersTrue, HasOutcome, InSettle
<1>7. OutcomeOnce /\ OutcomeTrue
  BY <1>3, <1>4 DEF OutcomeOnce, OutcomeTrue, HasOutcome
<1> QED
  BY <1>5, <1>6, <1>7, InitType DEF IInv

\* The coordinator changes no job that has ended.
LEMMA CoordInv ==
    ASSUME IInv, TypeOK', NEW j \in Jobs, CoordAccept(j) \/ CoordFinish(j)
    PROVE  IInv'
<1>1. UNCHANGED <<start, events, thread, mu, up, resumed>>
  BY DEF CoordAccept, CoordFinish
<1>2. \A k \in Jobs : coord[k] \in Final => coord'[k] = coord[k]
  BY DEF CoordAccept, CoordFinish, Final, IInv, TypeOK
<1>3. \A t \in Threads : thread[t].job \in Jobs
  BY DEF IInv, TypeOK, ThreadType
<1>4. MutexInv' /\ ThreadsFree' /\ WatchedArePast' /\ OutcomeOnce'
  BY <1>1 DEF IInv, MutexInv, ThreadsFree, WatchedArePast, OutcomeOnce, HasOutcome
<1>5. AnswersTrue'
  BY <1>1, <1>2, <1>3 DEF IInv, AnswersTrue, HasOutcome
<1>6. OutcomeTrue'
  BY <1>1, <1>2 DEF IInv, OutcomeTrue, HasOutcome
<1> QED
  BY <1>4, <1>5, <1>6 DEF IInv

\* A request to start a run that is not past its CreateJob is watched by nobody.
LEMMA RequestInv ==
    ASSUME IInv, TypeOK', NEW j \in Jobs, CreateJob(j) \/ CreateJobAnswered(j)
    PROVE  IInv'
<1>1. UNCHANGED <<coord, events, thread, mu, up, resumed>>
  BY DEF CreateJob, CreateJobAnswered
<1>2. /\ start[j] \notin Past /\ start[j] # "ended" /\ start'[j] # "ended"
      /\ \A k \in Jobs : k = j \/ start'[k] = start[k]
  BY DEF CreateJob, CreateJobAnswered, Past, IInv, TypeOK
<1>3. \A t \in Threads : thread[t].job \in Jobs
  BY DEF IInv, TypeOK, ThreadType
<1>4. MutexInv' /\ AnswersTrue' /\ OutcomeOnce' /\ OutcomeTrue'
  BY <1>1 DEF IInv, MutexInv, AnswersTrue, OutcomeOnce, OutcomeTrue, HasOutcome
<1>5. ThreadsFree' /\ WatchedArePast'
  BY <1>1, <1>2, <1>3 DEF IInv, ThreadsFree, WatchedArePast, HasOutcome
<1> QED
  BY <1>4, <1>5 DEF IInv

\* An event added to a trail without an outcome leaves OutcomeOnce true.
LEMMA AddOnce ==
    ASSUME TypeOK, OutcomeOnce, NEW j \in Jobs, NEW e \in Events, AddContractEvent(j, e),
           ~HasOutcome(j)
    PROVE  OutcomeOnce'
<1>1. \A i \in 1..Len(events[j]) : events[j][i] \notin Outcomes
  BY DEF HasOutcome, Contains
<1>2. \A i \in DOMAIN events'[j] : events'[j][i] \in Outcomes => i = Len(events'[j])
  BY <1>1, AddEvent
<1>3. \A k \in Jobs : k = j \/ events'[k] = events[k]
  BY AddEvent
<1> QED
  BY <1>2, <1>3 DEF OutcomeOnce

\* run_started and run_failed are recorded before anybody watches the job.
LEMMA RecordInv ==
    ASSUME IInv, TypeOK', NEW j \in Jobs, CreateJobFailed(j) \/ RecordStarted(j)
    PROVE  IInv'
<1>1. UNCHANGED <<coord, thread, mu, up, resumed>>
  BY DEF CreateJobFailed, RecordStarted
<1>2. /\ start[j] \notin Past /\ start[j] # "ended"
      /\ start'[j] # "ended" /\ start'[j] \in Past
      /\ \A k \in Jobs : k = j \/ start'[k] = start[k]
  BY DEF CreateJobFailed, RecordStarted, Past, IInv, TypeOK
<1>3. \A t \in Threads : thread[t].job \in Jobs
  BY DEF IInv, TypeOK, ThreadType
<1>4. ~HasOutcome(j)
  BY <1>2 DEF IInv, WatchedArePast
<1>5. PICK e \in {Failed, Started} : AddContractEvent(j, e) \/ UNCHANGED events
  BY DEF CreateJobFailed, RecordStarted
<1>6. \A k \in Jobs, o \in Outcomes : Contains(events'[k], o) <=> Contains(events[k], o)
  BY <1>5, ContainsAfterAdd, OutcomeIsEvent DEF IInv
<1>7. \A k \in Jobs : k = j \/ events'[k] = events[k]
  BY <1>5, AddEvent, OutcomeIsEvent DEF IInv
<1>8. OutcomeOnce'
  <2>1. CASE UNCHANGED events
    BY <2>1 DEF IInv, OutcomeOnce
  <2>2. CASE AddContractEvent(j, e)
    BY <1>4, <1>5, <2>2, AddOnce, OutcomeIsEvent DEF IInv
  <2> QED
    BY <1>5, <2>1, <2>2
<1>9. MutexInv' /\ ThreadsFree'
  BY <1>1, <1>2 DEF IInv, MutexInv, ThreadsFree
<1>10. WatchedArePast'
  BY <1>1, <1>2, <1>3, <1>7 DEF IInv, WatchedArePast, HasOutcome
<1>11. "run_succeeded" \in Outcomes
  BY DEF Outcomes
<1>12. AnswersTrue' /\ OutcomeTrue'
  BY <1>1, <1>3, <1>6, <1>11 DEF IInv, AnswersTrue, OutcomeTrue, HasOutcome
<1> QED
  BY <1>8, <1>9, <1>10, <1>12 DEF IInv

\* Threads start to watch, end, or start to settle with an answer just got.
LEMMA MoveThreads ==
    ASSUME IInv, TypeOK', UNCHANGED <<coord, events, mu>>,
           \A t \in Threads : \/ thread'[t] = thread[t]
                              \/ thread'[t].pc \in {"off", "poll"}
                              \/ /\ thread'[t].pc = "lock" /\ thread'[t].raw \in Final
                                 /\ coord[thread'[t].job] = thread'[t].raw
    PROVE  MutexInv' /\ AnswersTrue' /\ OutcomeOnce' /\ OutcomeTrue'
<1>1. MutexInv'
  BY DEF IInv, MutexInv, InSettle
<1>2. AnswersTrue'
  BY DEF IInv, AnswersTrue, InSettle, HasOutcome
<1> QED
  BY <1>1, <1>2 DEF IInv, OutcomeOnce, OutcomeTrue, HasOutcome

\* go watchTEERun: the thread was free.
LEMMA WatcherInv ==
    ASSUME IInv, TypeOK', NEW j \in Jobs, StartWatcher(j)
    PROVE  IInv'
<1>1. UNCHANGED <<coord, events, mu, up, resumed>> /\ up /\ start[j] = "recorded"
  BY DEF StartWatcher
<1>2. start'[j] = "ended" /\ \A k \in Jobs : k = j \/ start'[k] = start[k]
  BY DEF StartWatcher, IInv, TypeOK
<1>3. <<j, "run">> \in Threads /\ \A k \in Jobs : <<k, "resume">> # <<j, "run">>
  BY DEF Threads, Watchers
<1>4. /\ thread'[<<j, "run">>] = Thread("poll", j, "none")
      /\ \A t \in Threads : t = <<j, "run">> \/ thread'[t] = thread[t]
  BY <1>3 DEF StartWatcher, IInv, TypeOK
<1>5. MutexInv' /\ AnswersTrue' /\ OutcomeOnce' /\ OutcomeTrue'
  BY <1>1, <1>4, MoveThreads DEF Thread
<1>6. \A k \in Jobs : <<k, "run">> \in Threads /\ <<k, "resume">> \in Threads
  BY DEF Threads, Watchers
<1>7. ThreadsFree'
  BY <1>1, <1>2, <1>3, <1>4, <1>6 DEF IInv, ThreadsFree
<1>8. \A t \in Threads : thread[t].job \in Jobs
  BY DEF IInv, TypeOK, ThreadType
<1>9. WatchedArePast'
  BY <1>1, <1>2, <1>4, <1>8 DEF IInv, WatchedArePast, HasOutcome, Past, Thread
<1> QED
  BY <1>5, <1>7, <1>9 DEF IInv

\* A step of one running thread frees no thread and starts none.
LEMMA OneThread ==
    ASSUME IInv, TypeOK', NEW t \in Threads, UNCHANGED <<start, up, resumed>>,
           thread[t].pc # "off", thread'[t].pc # "off" => thread'[t].job = thread[t].job,
           \A u \in Threads : u = t \/ thread'[u] = thread[u]
    PROVE  /\ ThreadsFree'
           /\ \A u \in Threads : thread'[u].pc # "off" => start'[thread'[u].job] \in Past
<1>1. \A k \in Jobs : <<k, "run">> \in Threads /\ <<k, "resume">> \in Threads
  BY DEF Threads, Watchers
<1>2. ThreadsFree'
  BY <1>1 DEF IInv, ThreadsFree
<1> QED
  BY <1>2 DEF IInv, WatchedArePast

\* A watcher gets its answer, or gives up.
LEMMA WatchInv ==
    ASSUME IInv, TypeOK', NEW t \in Threads, WatchPoll(t) \/ WatchExpired(t)
    PROVE  IInv'
<1>1. UNCHANGED <<coord, start, events, mu, up, resumed>> /\ thread[t].pc = "poll"
  BY DEF WatchPoll, WatchExpired
<1>2. \A u \in Threads : u = t \/ thread'[u] = thread[u]
  BY DEF WatchPoll, WatchExpired, IInv, TypeOK
<1>3. \/ thread'[t].pc = "off"
      \/ /\ thread'[t].pc = "lock" /\ thread'[t].job = thread[t].job
         /\ thread'[t].raw = coord[thread[t].job] /\ thread'[t].raw \in Final
  BY OffType DEF WatchPoll, WatchExpired, Thread, IInv, TypeOK
<1>4. MutexInv' /\ AnswersTrue' /\ OutcomeOnce' /\ OutcomeTrue'
  <2>1. \A u \in Threads : \/ thread'[u] = thread[u]
                           \/ thread'[u].pc \in {"off", "poll"}
                           \/ /\ thread'[u].pc = "lock" /\ thread'[u].raw \in Final
                              /\ coord[thread'[u].job] = thread'[u].raw
    BY <1>2, <1>3
  <2> QED
    BY <1>1, <2>1, MoveThreads
<1>5. /\ ThreadsFree'
      /\ \A u \in Threads : thread'[u].pc # "off" => start'[thread'[u].job] \in Past
  BY <1>1, <1>2, <1>3, OneThread
<1>6. WatchedArePast'
  BY <1>1, <1>5 DEF IInv, WatchedArePast, HasOutcome
<1> QED
  BY <1>4, <1>5, <1>6 DEF IInv

\* A poll of the UI got its answer.
LEMMA PollInv ==
    ASSUME IInv, TypeOK', NEW t \in Pollers, NEW j \in Jobs, GetTEEJob(t, j)
    PROVE  IInv'
<1>1. UNCHANGED <<coord, start, events, mu, up, resumed>> /\ up /\ start[j] = "ended"
  BY DEF GetTEEJob
<1>2. t \in Threads /\ \A k \in Jobs : t # <<k, "run">> /\ t # <<k, "resume">>
  BY OutcomeAssumption DEF Threads
<1>3. \A u \in Threads : u = t \/ thread'[u] = thread[u]
  BY DEF GetTEEJob, IInv, TypeOK
<1>4. /\ thread'[t].pc = "lock" /\ thread'[t].job = j
      /\ thread'[t].raw = coord[j] /\ coord[j] \in Final
  BY <1>2 DEF GetTEEJob, Thread, IInv, TypeOK
<1>5. MutexInv' /\ AnswersTrue' /\ OutcomeOnce' /\ OutcomeTrue'
  <2>1. \A u \in Threads : \/ thread'[u] = thread[u]
                           \/ thread'[u].pc \in {"off", "poll"}
                           \/ /\ thread'[u].pc = "lock" /\ thread'[u].raw \in Final
                              /\ coord[thread'[u].job] = thread'[u].raw
    BY <1>3, <1>4
  <2> QED
    BY <1>1, <2>1, MoveThreads
<1>6. \A k \in Jobs : <<k, "run">> \in Threads /\ <<k, "resume">> \in Threads
  BY DEF Threads, Watchers
<1>7. ThreadsFree'
  BY <1>1, <1>2, <1>3, <1>6 DEF IInv, ThreadsFree
<1>8. WatchedArePast'
  BY <1>1, <1>3, <1>4 DEF IInv, WatchedArePast, HasOutcome, Past
<1> QED
  BY <1>5, <1>7, <1>8 DEF IInv

\* A restarted server watches runs whose start was recorded, in free threads.
LEMMA ResumeInv ==
    ASSUME IInv, TypeOK', ResumeTEERunWatchers
    PROVE  IInv'
<1>1. UNCHANGED <<coord, start, events, mu, up>> /\ up /\ resumed' = TRUE
  BY DEF ResumeTEERunWatchers
<1>2. \A t \in Threads :
         \/ thread'[t] = thread[t]
         \/ \E j \in UnsettledTEERuns :
               t = <<j, "resume">> /\ thread'[t] = Thread("poll", j, "none")
  BY ResumeEffect DEF IInv
<1>3. \A t \in Threads : \/ thread'[t] = thread[t]
                         \/ thread'[t].pc = "poll" /\ thread'[t].job \in UnsettledTEERuns
  <2> TAKE t \in Threads
  <2>1. ASSUME NEW j \in UnsettledTEERuns, thread'[t] = Thread("poll", j, "none")
        PROVE  thread'[t].pc = "poll" /\ thread'[t].job \in UnsettledTEERuns
    BY <2>1 DEF Thread
  <2> QED
    BY <1>2, <2>1
<1>4. MutexInv' /\ AnswersTrue' /\ OutcomeOnce' /\ OutcomeTrue'
  <2>1. \A t \in Threads : thread'[t] = thread[t] \/ thread'[t].pc \in {"off", "poll"}
    BY <1>3
  <2> QED
    BY <1>1, <2>1, MoveThreads
<1>5. \A k, l \in Jobs : <<k, "run">> \in Threads /\ <<k, "run">> # <<l, "resume">>
  BY DEF Threads, Watchers
<1>6. \A k \in Jobs : thread'[<<k, "run">>] = thread[<<k, "run">>]
  BY <1>2, <1>5 DEF UnsettledTEERuns
<1>7. ThreadsFree'
  BY <1>1, <1>6 DEF IInv, ThreadsFree
<1>8. WatchedArePast'
  BY <1>1, <1>3 DEF IInv, WatchedArePast, HasOutcome, UnsettledTEERuns
<1> QED
  BY <1>4, <1>7, <1>8 DEF IInv

\* A crash ends every thread and frees the mutex.
LEMMA CrashInv ==
    ASSUME IInv, TypeOK', Crash \/ Restart
    PROVE  IInv'
<1>1. UNCHANGED <<coord, events>>
  BY DEF Crash, Restart
<1>2. \A t \in Threads : thread'[t].pc = "off"
  BY OffType DEF Crash, Restart, IInv, ThreadsFree
<1>3. \A k \in Jobs : <<k, "run">> \in Threads /\ <<k, "resume">> \in Threads
  BY DEF Threads, Watchers
<1>4. MutexInv' /\ ThreadsFree'
  BY <1>2, <1>3 DEF Crash, Restart, IInv, MutexInv, ThreadsFree, InSettle
<1>5. \A k \in Jobs : start[k] \in Past => start'[k] \in Past
  BY DEF Crash, Restart, Past, IInv, TypeOK
<1>6. WatchedArePast'
  BY <1>1, <1>2, <1>5 DEF IInv, WatchedArePast, HasOutcome
<1>7. AnswersTrue' /\ OutcomeOnce' /\ OutcomeTrue'
  BY <1>1, <1>2 DEF IInv, AnswersTrue, OutcomeOnce, OutcomeTrue, HasOutcome, InSettle
<1> QED
  BY <1>4, <1>6, <1>7 DEF IInv

\* Lock, check and record: only the holder of the mutex records, once, what
\* the job's state was and still is.
LEMMA LockInv ==
    ASSUME IInv, TypeOK', NEW t \in Threads, SettleLock(t)
    PROVE  IInv'
<1>1. /\ UNCHANGED <<coord, start, events, up, resumed>>
      /\ thread[t].pc = "lock" /\ mu = {} /\ mu' = mu \cup {t}
  BY DEF SettleLock, LockFree
<1>2. /\ thread'[t].pc = "check" /\ thread'[t].job = thread[t].job /\ thread'[t].raw = thread[t].raw
      /\ \A u \in Threads : u = t \/ thread'[u] = thread[u]
  BY GotoEffect DEF SettleLock, IInv
<1>3. /\ ThreadsFree'
      /\ \A u \in Threads : thread'[u].pc # "off" => start'[thread'[u].job] \in Past
  BY <1>1, <1>2, OneThread
<1>4. MutexInv'
  BY <1>1, <1>2 DEF IInv, MutexInv
<1>5. AnswersTrue'
  BY <1>1, <1>2 DEF IInv, AnswersTrue, HasOutcome, InSettle
<1>6. WatchedArePast' /\ OutcomeOnce' /\ OutcomeTrue'
  BY <1>1, <1>3 DEF IInv, WatchedArePast, OutcomeOnce, OutcomeTrue, HasOutcome
<1> QED
  BY <1>3, <1>4, <1>5, <1>6 DEF IInv

LEMMA CheckInv ==
    ASSUME IInv, TypeOK', NEW t \in Threads, SettleCheck(t)
    PROVE  IInv'
<1>1. UNCHANGED <<coord, start, events, up, resumed>> /\ thread[t].pc = "check"
  BY DEF SettleCheck
<1>2. \/ /\ ~HasOutcome(thread[t].job) /\ mu' = mu
         /\ thread'[t].pc = "record"
         /\ thread'[t].job = thread[t].job /\ thread'[t].raw = thread[t].raw
      \/ mu' = mu \ {t} /\ thread'[t].pc = "off"
  BY GotoEffect, ReturnEffect, OffType DEF SettleCheck, IInv
<1>3. \A u \in Threads : u = t \/ thread'[u] = thread[u]
  BY GotoEffect, ReturnEffect DEF SettleCheck, IInv
<1>4. /\ ThreadsFree'
      /\ \A u \in Threads : thread'[u].pc # "off" => start'[thread'[u].job] \in Past
  BY <1>1, <1>2, <1>3, OneThread
<1>5. MutexInv'
  BY <1>1, <1>2, <1>3 DEF IInv, MutexInv, InSettle
<1>6. AnswersTrue'
  BY <1>1, <1>2, <1>3 DEF IInv, AnswersTrue, HasOutcome, InSettle
<1>7. WatchedArePast' /\ OutcomeOnce' /\ OutcomeTrue'
  BY <1>1, <1>4 DEF IInv, WatchedArePast, OutcomeOnce, OutcomeTrue, HasOutcome
<1> QED
  BY <1>4, <1>5, <1>6, <1>7 DEF IInv

LEMMA RecordOutcomeInv ==
    ASSUME IInv, TypeOK', NEW t \in Threads, SettleRecord(t)
    PROVE  IInv'
<1> DEFINE j == thread[t].job
           e == OutcomeEvent(thread[t].raw)
<1>1. UNCHANGED <<coord, start, up, resumed>> /\ thread[t].pc = "record"
  BY DEF SettleRecord
<1>2. /\ mu' = mu \ {t} /\ thread'[t].pc = "off"
      /\ \A u \in Threads : u = t \/ thread'[u] = thread[u]
  BY ReturnEffect, OffType DEF SettleRecord, IInv
<1>3. /\ j \in Jobs /\ e \in Events /\ e \in Outcomes /\ ~HasOutcome(j)
      /\ thread[t].raw \in Final /\ coord[j] = thread[t].raw
      /\ start[j] \in Past /\ t \in mu
  BY <1>1, OutcomeIsEvent DEF IInv, AnswersTrue, WatchedArePast, MutexInv, InSettle, TypeOK, ThreadType
<1>4. AddContractEvent(j, e) \/ UNCHANGED events
  BY DEF SettleRecord
<1>5. \A u \in Threads : thread'[u].pc \notin InSettle
  BY <1>2, <1>3 DEF IInv, MutexInv, InSettle
<1>6. ThreadsFree' /\ \A u \in Threads : thread'[u].pc # "off" => start'[thread'[u].job] \in Past
  BY <1>1, <1>2, OneThread
<1>7. MutexInv'
  BY <1>2, <1>5 DEF IInv, MutexInv
<1>8. AnswersTrue'
  BY <1>1, <1>2, <1>5 DEF IInv, AnswersTrue, InSettle
<1> HIDE DEF j, e
<1>9. \A k \in Jobs : k = j \/ \A x : Contains(events'[k], x) <=> Contains(events[k], x)
  BY <1>3, <1>4, ContainsAfterAdd DEF IInv
<1>10. WatchedArePast'
  BY <1>1, <1>3, <1>6, <1>9 DEF IInv, WatchedArePast, HasOutcome
<1>11. OutcomeOnce'
  <2>1. CASE UNCHANGED events
    BY <2>1 DEF IInv, OutcomeOnce
  <2>2. CASE AddContractEvent(j, e)
    BY <1>3, <2>2, AddOnce DEF IInv
  <2> QED
    BY <1>4, <2>1, <2>2
<1>12. e = "run_succeeded" <=> coord[j] = "succeeded"
  BY <1>3 DEF e, OutcomeEvent
<1>13. OutcomeTrue'
  <2>1. CASE UNCHANGED events
    BY <1>1, <2>1 DEF IInv, OutcomeTrue, HasOutcome
  <2>2. CASE AddContractEvent(j, e)
    <3>1. "run_succeeded" \in Outcomes /\ ~Contains(events[j], "run_succeeded")
      BY <1>3 DEF HasOutcome, Outcomes
    <3>2. Contains(events'[j], "run_succeeded") <=> coord[j] = "succeeded"
      BY <1>3, <1>12, <2>2, <3>1, ContainsAfterAdd DEF IInv
    <3>3. \A k \in Jobs : k = j \/ (HasOutcome(k)' <=> HasOutcome(k))
      BY <1>9 DEF HasOutcome
    <3> QED
      BY <1>1, <1>3, <1>9, <3>2, <3>3 DEF IInv, OutcomeTrue
  <2> QED
    BY <1>4, <2>1, <2>2
<1> QED
  BY <1>6, <1>7, <1>8, <1>10, <1>11, <1>13 DEF IInv

\* Every step keeps the invariant.
LEMMA InvStep == IInv /\ [Next]_vars => IInv'
<1> SUFFICES ASSUME IInv, [Next]_vars PROVE IInv'
  OBVIOUS
<1>0. TypeOK'
  BY TypeStep DEF IInv
<1>1. ASSUME NEW j \in Jobs, CoordAccept(j) \/ CoordFinish(j) PROVE IInv'
  BY <1>0, <1>1, CoordInv
<1>2. ASSUME NEW j \in Jobs, CreateJob(j) PROVE IInv'
  BY <1>0, <1>2, RequestInv
<1>3. ASSUME NEW j \in Jobs, StartStep(j) PROVE IInv'
  BY <1>0, <1>3, RequestInv, RecordInv, WatcherInv DEF StartStep
<1>4. ASSUME NEW t \in Threads, WatchPoll(t) \/ WatchExpired(t) PROVE IInv'
  BY <1>0, <1>4, WatchInv
<1>5. ASSUME NEW t \in Threads, SettleStep(t) PROVE IInv'
  BY <1>0, <1>5, LockInv, CheckInv, RecordOutcomeInv DEF SettleStep
<1>6. ASSUME NEW t \in Pollers, NEW j \in Jobs, GetTEEJob(t, j) PROVE IInv'
  BY <1>0, <1>6, PollInv
<1>7. CASE Crash \/ Restart
  BY <1>0, <1>7, CrashInv
<1>8. CASE ResumeTEERunWatchers
  BY <1>0, <1>8, ResumeInv
<1>9. CASE UNCHANGED vars
  BY <1>0, <1>9 DEF vars, IInv, MutexInv, ThreadsFree, WatchedArePast, AnswersTrue,
     OutcomeOnce, OutcomeTrue, HasOutcome
<1> QED
  BY <1>1, <1>2, <1>3, <1>4, <1>5, <1>6, <1>7, <1>8, <1>9 DEF Next

\* The state of TEEOutcome is well typed, for any jobs, polls and bounds.
THEOREM TypeCorrect == Spec => []TypeOK
<1> QED
  BY InitType, TypeStep, PTL DEF Spec

\* A run's outcome is recorded at most once and ends its trail, however
\* watchers, resumed watchers and polls interleave (settleTEERun, settleMu).
THEOREM Once == Spec => []OutcomeOnce
<1>1. IInv => OutcomeOnce
  BY DEF IInv
<1> QED
  BY <1>1, InitInv, InvStep, PTL DEF Spec

\* The recorded outcome is how the job ended, however old the answer was that
\* settleTEERun got.
THEOREM Truth == Spec => []OutcomeTrue
<1>1. IInv => OutcomeTrue
  BY DEF IInv
<1> QED
  BY <1>1, InitInv, InvStep, PTL DEF Spec
===============================================================================
