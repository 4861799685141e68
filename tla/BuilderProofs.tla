---------------------------- MODULE BuilderProofs ----------------------------
(***************************************************************************)
(* The builds of one run, for every set of builds and refresh requests and *)
(* any number of crashes and failing statements: types, whose verdict a    *)
(* record tells, that no event id is lost, and that records and results    *)
(* are those the deploy service works with (BuildOutcome).                 *)
(***************************************************************************)
EXTENDS Builder, TLAPS

-----------------------------------------------------------------------------
(* Types. *)

\* The statuses, as far as the proofs use them.
LEMMA StatusFacts ==
    /\ Outcomes \subseteq Statuses /\ BackendStatuses \subseteq Statuses
    /\ {"untracked", "running"} \subseteq Statuses
    /\ {"untracked", "running", "backend_tracking_lost"} \cap Terminal = {}
    /\ Outcomes \subseteq Terminal /\ BackendTerminal \subseteq Terminal
    /\ BackendStatuses \cap Outcomes = {}
    BY BuildOutcomes DEF BackendTerminal, BackendStatuses, Terminal, Statuses

\* The methods of a record return records.
LEMMA RecordTyped ==
    ASSUME NEW d \in Record, NEW s \in Statuses
    PROVE  /\ NewRecord \in Record
           /\ WithEvent(d) \in Record /\ WithRun(d) \in Record /\ Running(d) \in Record
           /\ Completed(d, s) \in Record /\ Failed(d, s) \in Record
    BY StatusFacts DEF Record, NewRecord, WithEvent, WithRun, Running, Completed, Failed

LEMMA NewRecordTyped == NewRecord \in Record
    BY StatusFacts DEF Record, NewRecord

\* A goroutine at rest.
LEMMA RestingTyped ==
    ASSUME NEW p \in Places \cup Results
    PROVE  Resting(p) \in Worker
    BY NewRecordTyped DEF Resting, Worker, Places, Results

LEMMA AnsweredTyped == Answered \in Request
    BY BuildsAssumption, NewRecordTyped DEF Answered, Request

\* The worker that saves, and the one that returns.
LEMMA SavingTyped ==
    ASSUME TypeOK, NEW b \in Builds, NEW d \in Record,
           NEW s \in Places \cup Results, NEW u \in Places \cup Results, Saving(b, d, s, u)
    PROVE  worker' \in [Builds -> Worker]
    BY DEF TypeOK, Saving, Worker, Places

LEMMA ReturnTyped ==
    ASSUME TypeOK, NEW b \in Builds, NEW res \in Results, Return(b, res)
    PROVE  worker' \in [Builds -> Worker]
    BY RestingTyped DEF TypeOK, Return

\* What a request asks for.
LEMMA AskTyped ==
    ASSUME TypeOK, NEW r \in Requests, NEW b \in Builds, NEW p \in {"query", "save"},
           NEW d \in Record, Ask(r, b, p, d)
    PROVE  request' \in [Requests -> Request]
    BY DEF TypeOK, Ask, Request

LEMMA TypeInit == Init => TypeOK
    BY RestingTyped, AnsweredTyped, NewRecordTyped
    DEF Init, TypeOK, Places

\* The steps of BuildAndWait.
LEMMA TypeOrch ==
    ASSUME TypeOK, OrchStep \/ InsertFails
    PROVE  TypeOK'
  <1>1. ASSUME NEW b \in Builds, Insert(b) PROVE TypeOK'
    <2>1. [k \in Builds |-> Resting("load")] \in [Builds -> Worker]
      BY RestingTyped DEF Places
    <2> QED
      BY <1>1, <2>1 DEF TypeOK, Insert, tekton
  <1>2. ASSUME NEW b \in Builds, CleanUp(b) PROVE TypeOK'
    <2>1. Failed(NewRecord, "backend_trigger_failed") \in Record
      BY RecordTyped, NewRecordTyped, StatusFacts DEF BackendStatuses, BackendTerminal
    <2>2. worker' \in [Builds -> Worker]
      BY <1>2, ReturnTyped DEF CleanUp, Results
    <2> QED
      BY <1>2, <2>1, <2>2, BuilderBounds DEF TypeOK, CleanUp, DbFails, tekton
  <1>3. CASE BuildAndWaitReturns
    BY <1>3 DEF TypeOK, BuildAndWaitReturns, tekton
  <1>4. CASE InsertFails
    BY <1>4, BuilderBounds DEF TypeOK, InsertFails, DbFails, tekton
  <1> QED
    BY <1>1, <1>2, <1>3, <1>4 DEF OrchStep

\* Tekton's answers.
LEMMA TriggerAnswers ==
    ASSUME NEW b, NEW answer \in TriggerBuild(b)
    PROVE  answer.pipeline \in {[pipeline EXCEPT ![b] = "starting"], pipeline}
  <1>1. ASSUME NEW started, answer = [known |-> TRUE, pipeline |-> started]
        PROVE  answer.pipeline = started
    BY <1>1
  <1>2. ASSUME NEW started, answer \in [known : {FALSE}, pipeline : {started, pipeline}]
        PROVE  answer.pipeline \in {started, pipeline}
    BY <1>2
  <1>3. ASSUME NEW started,
               answer \in {[known |-> TRUE, pipeline |-> started]}
                            \cup [known : {FALSE}, pipeline : {started, pipeline}]
        PROVE  answer.pipeline \in {started, pipeline}
    BY <1>1, <1>2, <1>3, Zenon
  <1> QED
    BY <1>3 DEF TriggerBuild

\* The steps of a worker.
LEMMA TypeWorker ==
    ASSUME TypeOK, NEW b \in Builds, WorkerStep(b) \/ FindTimeout(b) \/ MonitorTimeout(b)
    PROVE  TypeOK'
  <1> DEFINE d == worker[b].mem
  <1>d. d \in Record /\ worker[b].saved \in Places \cup Results /\ worker[b].unsaved \in Places \cup Results
    BY DEF TypeOK, Worker
  <1>r. /\ WithEvent(d) \in Record /\ WithRun(d) \in Record /\ Running(d) \in Record
        /\ \A s \in BackendStatuses : Failed(d, s) \in Record
        /\ \A s \in Outcomes : Completed(d, s) \in Record
    BY <1>d, RecordTyped, StatusFacts
  <1>p. /\ {"find", "lost", "monitor", "noEvent", "failed", "error"} \subseteq Places \cup Results
        /\ Outcomes \subseteq Places \cup Results /\ {"failed", "error"} \subseteq Results
    BY BuildOutcomes DEF Places, Results
  <1>s. {"backend_trigger_failed", "backend_tracking_failed", "backend_tracking_lost"} \subseteq BackendStatuses
    BY DEF BackendStatuses, BackendTerminal
  <1> HIDE DEF d
  <1>1. CASE Load(b)
    <2>1. row[b] \in Record /\ "trigger" \in Places
      BY DEF TypeOK, Places
    <2>2. [Resting("trigger") EXCEPT !.mem = row[b]] \in Worker
      BY <2>1, RestingTyped DEF Worker
    <2>3. worker' \in [Builds -> Worker]
      BY <1>1, <1>p, <2>2, ReturnTyped DEF Load, TypeOK
    <2> QED
      BY <1>1, <2>3, BuilderBounds DEF Load, TypeOK, DbFails, tekton
  <1>2. CASE Trigger(b)
    <2>1. worker' \in [Builds -> Worker]
      BY <1>2, <1>d, <1>r, <1>p, <1>s, SavingTyped, ReturnTyped DEF Trigger, d
    <2>2. \A answer \in TriggerBuild(b) :
             answer.pipeline \in {[pipeline EXCEPT ![b] = "starting"], pipeline}
      BY TriggerAnswers
    <2>3. pipeline' \in [Builds -> {"absent", "starting", "running", "ended", "gone"}]
      BY <1>2, <2>2 DEF Trigger, TypeOK
    <2> QED
      BY <1>2, <2>1, <2>3 DEF Trigger, TypeOK
  <1>3. CASE WorkerSave(b)
    <2>1. \A p \in Places : [Resting(p) EXCEPT !.mem = d] \in Worker
      BY <1>d, RestingTyped DEF Worker
    <2>2. worker' \in [Builds -> Worker]
      BY <1>3, <1>d, <2>1, ReturnTyped DEF WorkerSave, TypeOK, d
    <2> QED
      BY <1>3, <1>d, <2>2, BuilderBounds DEF WorkerSave, TypeOK, DbFails, tekton, d
  <1>4. CASE GiveUpEvent(b)
    <2>1. worker' \in [Builds -> Worker]
      BY <1>4, <1>d, <1>r, <1>p, <1>s, SavingTyped, ReturnTyped DEF GiveUpEvent, d
    <2> QED
      BY <1>4, <2>1 DEF GiveUpEvent, TypeOK, tekton
  <1>5. CASE Find(b)
    <2>1. worker' \in [Builds -> Worker]
      BY <1>5, <1>d, <1>r, <1>p, <1>s, SavingTyped DEF Find, d
    <2> QED
      BY <1>5, <2>1 DEF Find, TypeOK, tekton
  <1>6. CASE FindTimeout(b)
    <2>1. worker' \in [Builds -> Worker]
      BY <1>6, <1>d, <1>r, <1>p, <1>s, SavingTyped DEF FindTimeout, d
    <2> QED
      BY <1>6, <2>1 DEF FindTimeout, TypeOK, tekton
  <1>7. CASE SaveLost(b)
    <2>1. worker' \in [Builds -> Worker]
      BY <1>7, <1>d, <1>p, SavingTyped DEF SaveLost, d
    <2> QED
      BY <1>7, <2>1 DEF SaveLost, TypeOK, tekton
  <1>8. CASE CheckBuildStatus(b)
    <2>1. verdict[b] \in Outcomes
      BY DEF TypeOK
    <2>2. worker' \in [Builds -> Worker]
      BY <1>8, <1>d, <1>r, <1>p, <1>s, <2>1, SavingTyped DEF CheckBuildStatus, Complete, d
    <2> QED
      BY <1>8, <2>2 DEF CheckBuildStatus, TypeOK, tekton
  <1>9. CASE MonitorTimeout(b)
    <2>1. worker' \in [Builds -> Worker]
      BY <1>9, <1>d, <1>r, <1>p, <1>s, SavingTyped, ReturnTyped DEF MonitorTimeout, d
    <2> QED
      BY <1>9, <2>1 DEF MonitorTimeout, TypeOK, tekton
  <1> QED
    BY <1>1, <1>2, <1>3, <1>4, <1>5, <1>6, <1>7, <1>8, <1>9 DEF WorkerStep

\* The steps of a request.
LEMMA TypeRequest ==
    ASSUME TypeOK, NEW r \in Requests, RequestStep(r)
    PROVE  TypeOK'
  <1>s. {"backend_tracking_failed", "backend_tracking_lost"} \subseteq BackendStatuses
    BY DEF BackendStatuses, BackendTerminal
  <1> DEFINE k == request[r].build
             d == request[r].d
  <1>d. k \in Builds /\ d \in Record /\ WithRun(d) \in Record
    BY RecordTyped, NewRecordTyped, StatusFacts DEF TypeOK, Request
  <1>r. \A c \in {d, WithRun(d)} :
          /\ Running(c) \in Record
          /\ \A s \in BackendStatuses : Failed(c, s) \in Record
          /\ \A s \in Outcomes : Completed(c, s) \in Record
    BY <1>d, RecordTyped, StatusFacts
  <1> HIDE DEF k, d
  <1>1. ASSUME NEW b \in Builds, ReadBuild(r, b) PROVE TypeOK'
    <2>1. row[b] \in Record /\ Failed(row[b], "backend_tracking_failed") \in Record
      BY RecordTyped, StatusFacts, <1>s DEF TypeOK
    <2>2. request' \in [Requests -> Request]
      BY <1>1, <2>1, AskTyped DEF ReadBuild
    <2> QED
      BY <1>1, <2>2 DEF ReadBuild, TypeOK, tekton
  <1>2. CASE QueryBuild(r)
    <2>1. Answers(k) \subseteq Outcomes
      BY <1>d, BuildOutcomes DEF Answers, TypeOK
    <2>2. request' \in [Requests -> Request]
      BY <1>2, <1>d, <1>r, <1>s, <2>1, AskTyped, AnsweredTyped DEF QueryBuild, TypeOK, k, d
    <2> QED
      BY <1>2, <2>2 DEF QueryBuild, TypeOK, tekton
  <1>3. CASE KubeUnreachable(r)
    <2>1. request' \in [Requests -> Request]
      BY <1>3, <1>d, <1>r, <1>s, AskTyped DEF KubeUnreachable, k, d
    <2> QED
      BY <1>3, <2>1 DEF KubeUnreachable, TypeOK, tekton
  <1>4. CASE RefreshSave(r)
    BY <1>4, <1>d, AnsweredTyped, BuilderBounds DEF RefreshSave, TypeOK, DbFails, tekton, k, d
  <1> QED
    BY <1>1, <1>2, <1>3, <1>4 DEF RequestStep

\* Time, Tekton and crashes.
LEMMA TypeElsewhere ==
    ASSUME TypeOK, Elsewhere \/ Crash
    PROVE  TypeOK'
  <1>1. ASSUME NEW b \in Builds, AgeBuild(b) PROVE TypeOK'
    BY <1>1 DEF AgeBuild, TypeOK, tekton
  <1>2. ASSUME NEW b \in Builds, PipelineRuns(b) PROVE TypeOK'
    BY <1>2 DEF PipelineRuns, TypeOK
  <1>3. ASSUME NEW b \in Builds, PipelineDeleted(b) PROVE TypeOK'
    BY <1>3 DEF PipelineDeleted, TypeOK
  <1>4. CASE Crash
    <2>1. Resting("dead") \in Worker
      BY RestingTyped DEF Places
    <2> QED
      BY <1>4, <2>1, AnsweredTyped, BuilderBounds DEF Crash, TypeOK, tekton
  <1> QED
    BY <1>1, <1>2, <1>3, <1>4 DEF Elsewhere

LEMMA TypeStep == TypeOK /\ [Next]_vars => TypeOK'
  <1> SUFFICES ASSUME TypeOK, [Next]_vars PROVE TypeOK'
    OBVIOUS
  <1>1. CASE UNCHANGED vars
    BY <1>1 DEF TypeOK, vars
  <1> QED
    BY <1>1, TypeOrch, TypeWorker, TypeRequest, TypeElsewhere DEF Next

\* Every variable keeps its type: whoever saves a record saves a record, and goes on to a
\* place that BuildContainer knows.
THEOREM TypeCorrect == Spec => []TypeOK
    BY TypeInit, TypeStep, PTL DEF Spec

-----------------------------------------------------------------------------
(* Invariants. *)

\* Where everybody is.  The workers act between the insertion of the last record and
\* the return of BuildAndWait; before its worker has saved for the first time, a build's
\* record is new and no request holds it.
Fresh(b) ==
    /\ row[b] = NewRecord /\ b \notin aged
    /\ \A r \in Requests : request[r].pc # "idle" => request[r].build # b

After == {"noEvent", "find", "lost", "monitor"} \cup Results

PlaceInv ==
    /\ orch = "create" => \A b \in Builds : worker[b].pc = "none"
    /\ orch = "cleanup" => dbErrors > 0 /\ \A b \in Builds : worker[b].pc \in {"none", "failed"}
    /\ orch = "building" => inserted = Builds /\ \A b \in Builds : worker[b].pc \notin {"none", "dead"}
    /\ orch = "over" => \A b \in inserted : Returned(b)
    /\ orch = "dead" => \A b \in Builds : worker[b].pc \in {"dead"} \cup Results
    /\ \A b \in Builds \ inserted : worker[b].pc \in {"none", "dead"} /\ Fresh(b)
    /\ \A b \in Builds : worker[b].pc \in {"none", "load", "trigger"} => Fresh(b)
    /\ \A b \in Builds : worker[b].pc = "trigger" => worker[b].mem = NewRecord
    /\ \A b \in Builds : worker[b].pc = "save" => worker[b].saved \in After /\ worker[b].unsaved \in After

\* The event ids.  A worker that follows its pipeline run has the id in memory and in
\* the row; a record that is five minutes old without one has lost its worker, and so
\* has one that a request is about to save without one.
GivenUp(b) == ~ row[b].event /\ worker[b].pc \in Results \cup {"dead"}

Following == {"find", "lost", "monitor"}

WorkerEvent(b) ==
    LET w == worker[b]
    IN  /\ w.pc \in Following => row[b].event
        /\ w.pc \in Following \cup {"noEvent"} => w.mem.event
        /\ w.pc = "save" /\ ~ w.mem.event => /\ ~ row[b].event
                                             /\ w.saved = "failed" /\ w.unsaved = "error"
        /\ w.pc = "save" /\ w.unsaved \in Following => row[b].event

RequestEvent(r) ==
    LET q == request[r]
    IN  /\ q.d.event => row[q.build].event
        /\ q.d.event \/ GivenUp(q.build)
        /\ q.d.run \/ q.pc = "query" => q.d.event

EventInv ==
    /\ \A b \in Builds : WorkerEvent(b)
    /\ \A b \in Builds : /\ row[b].run => row[b].event
                         /\ worker[b].mem.run => worker[b].mem.event
                         /\ b \in aged => row[b].event \/ GivenUp(b)
    /\ \A r \in Requests : request[r].pc # "idle" => RequestEvent(r)

\* Whose verdict a record tells, wherever a copy of it is.
Honest(d, b) ==
    d.status \in Outcomes => /\ pipeline[b] \in {"ended", "gone"}
                             /\ d.status = verdict[b] \/ {d.status, verdict[b]} = {"success", "skipped"}

Verdicts == {"success", "skipped", "cancelled"}

VerdictInv ==
    /\ \A b \in Builds : /\ Honest(row[b], b) /\ Honest(worker[b].mem, b)
                         /\ worker[b].pc \in Verdicts => worker[b].pc = verdict[b]
                         /\ worker[b].saved \in Verdicts => worker[b].saved = verdict[b]
                         /\ worker[b].unsaved \notin Verdicts
    /\ \A r \in Requests : request[r].pc # "idle" => Honest(request[r].d, request[r].build)

\* What a worker has in memory where it may return.
TriggerFailed(d) == d.status = "backend_trigger_failed"

WorkerOutcome(b) ==
    LET w == worker[b]
        d == worker[b].mem
    IN  /\ w.pc = "noEvent" => dbErrors > 0
        /\ w.pc = "find" => ~ IsCompleted(d)
        /\ w.pc = "monitor" => (IsCompleted(d) => dbErrors > 0) /\ ~ TriggerFailed(d)
        /\ w.pc = "lost" => IsCompleted(d) /\ ~ TriggerFailed(d)
        /\ w.pc = "save" =>
             /\ w.saved # "noEvent"
             /\ w.saved \in Results => IsCompleted(d)
             /\ w.saved \in {"find", "monitor"} => ~ IsCompleted(d)
             /\ w.unsaved = "find" => ~ IsCompleted(d)
             /\ w.saved = "lost" \/ w.unsaved = "lost" => IsCompleted(d)
             /\ w.unsaved \in Results => w.unsaved = "error"
             /\ TriggerFailed(d) => w.saved = "failed" /\ w.unsaved = "error"

OutcomeInv ==
    /\ \A b \in Builds : WorkerOutcome(b)
    /\ \A r \in Requests : /\ request[r].pc = "query" => ~ IsCompleted(request[r].d)
                           /\ request[r].pc = "save" => ~ TriggerFailed(request[r].d)

\* The fields after a method of a record.
LEMMA RecordFields ==
    ASSUME NEW d \in Record
    PROVE  /\ d.event \in BOOLEAN /\ d.run \in BOOLEAN
           /\ WithEvent(d).status = d.status /\ WithEvent(d).event = TRUE /\ WithEvent(d).run = d.run
           /\ WithRun(d).status = d.status /\ WithRun(d).event = d.event /\ WithRun(d).run = TRUE
           /\ Running(d).status = "running" /\ Running(d).event = d.event /\ Running(d).run = d.run
    BY DEF Record, WithEvent, WithRun, Running

LEMMA StampFields ==
    ASSUME NEW d \in Record, NEW s
    PROVE  /\ Completed(d, s).status = s /\ Completed(d, s).event = d.event
           /\ Completed(d, s).run = d.run
           /\ Failed(d, s).status = s /\ Failed(d, s).event = d.event /\ Failed(d, s).run = d.run
    BY DEF Record, Completed, Failed

\* What may be written without asking Tekton.
LEMMA Unanswered ==
    {"untracked", "running", "backend_trigger_failed", "backend_tracking_failed",
     "backend_tracking_lost"} \cap Outcomes = {}
    BY BuildOutcomes

LEMMA NewRecordFields ==
    /\ NewRecord.status = "untracked" /\ NewRecord.event = FALSE /\ NewRecord.run = FALSE
    /\ NewRecord.status \notin Terminal /\ NewRecord.status \notin Outcomes
    BY StatusFacts DEF NewRecord

\* A trigger that succeeds, and one that fails.
LEMMA TriggerFields ==
    /\ WithEvent(NewRecord).event /\ WithEvent(NewRecord).status = "untracked"
    /\ LET d == Failed(NewRecord, "backend_trigger_failed")
       IN  ~ d.event /\ ~ d.run /\ d.status = "backend_trigger_failed"
    BY DEF NewRecord, WithEvent, Failed

\* What a worker and a request look like.
LEMMA Fields ==
    ASSUME TypeOK
    PROVE  /\ \A b \in Builds : /\ row[b] \in Record /\ worker[b].mem \in Record
                                /\ verdict[b] \in Outcomes
           /\ \A r \in Requests : /\ request[r].build \in Builds /\ request[r].d \in Record
                                  /\ request[r].pc \in {"idle", "query", "save"}
    BY DEF TypeOK, Worker, Request

\* The step of one worker: it is between the start of the workers and the return of
\* BuildAndWait, and changes nothing that is not its own.
Moving == {"load", "trigger", "noEvent", "find", "lost", "monitor", "save"}

WorkerMove(b) ==
    /\ orch = "building" /\ inserted = Builds
    /\ worker[b].pc \in Moving
    /\ worker'[b].pc \notin {"none", "dead", "load"}
    /\ worker'[b].pc = "trigger" => worker[b].pc = "load" /\ worker'[b].mem = row[b]
    /\ worker'[b].pc = "save" => worker'[b].saved \in After /\ worker'[b].unsaved \in After
    /\ row'[b] = row[b] \/ worker[b].pc = "save"
    /\ pipeline'[b] = pipeline[b] \/ worker[b].pc = "trigger"
    /\ dbErrors' \in Nat /\ dbErrors' >= dbErrors
    /\ \A k \in Builds \ {b} : /\ worker'[k] = worker[k] /\ row'[k] = row[k]
                               /\ pipeline'[k] = pipeline[k]
    /\ UNCHANGED <<orch, inserted, aged, request, verdict>>

LEMMA SavingAt ==
    ASSUME TypeOK, NEW b \in Builds, NEW d, NEW s, NEW u, Saving(b, d, s, u)
    PROVE  /\ worker'[b].pc = "save" /\ worker'[b].mem = d
           /\ worker'[b].saved = s /\ worker'[b].unsaved = u
           /\ \A k \in Builds \ {b} : worker'[k] = worker[k]
    BY DEF TypeOK, Saving

LEMMA ReturnAt ==
    ASSUME TypeOK, NEW b \in Builds, NEW res, Return(b, res)
    PROVE  /\ worker'[b].pc = res /\ worker'[b].mem = NewRecord
           /\ worker'[b].saved = "none" /\ worker'[b].unsaved = "none"
           /\ \A k \in Builds \ {b} : worker'[k] = worker[k]
    BY DEF TypeOK, Return, Resting

LEMMA LoadAt ==
    ASSUME TypeOK, NEW b \in Builds, Load(b)
    PROVE  /\ worker[b].pc = "load"
           /\ \/ /\ worker'[b].pc = "trigger" /\ worker'[b].mem = row[b]
                 /\ worker'[b].saved = "none" /\ worker'[b].unsaved = "none"
                 /\ \A k \in Builds \ {b} : worker'[k] = worker[k]
                 /\ UNCHANGED dbErrors
              \/ Return(b, "error") /\ DbFails
           /\ UNCHANGED <<orch, inserted, row, aged, request, pipeline, verdict, crashes>>
    BY DEF TypeOK, Load, At, Resting, tekton

LEMMA TriggerAt ==
    ASSUME TypeOK, PlaceInv, NEW b \in Builds, Trigger(b)
    PROVE  /\ worker[b].pc = "trigger" /\ worker[b].mem = NewRecord /\ Fresh(b)
           /\ \A k \in Builds \ {b} : pipeline'[k] = pipeline[k]
           /\ \/ Saving(b, WithEvent(NewRecord), "find", "noEvent")
              \/ Saving(b, Failed(NewRecord, "backend_trigger_failed"), "failed", "error")
           /\ UNCHANGED <<orch, inserted, row, aged, request, verdict, crashes, dbErrors>>
  <1>1. worker[b].pc = "trigger" /\ worker[b].mem = NewRecord /\ Fresh(b)
    BY DEF Trigger, At, PlaceInv
  <1>2. \A answer \in TriggerBuild(b) :
           answer.pipeline \in {[pipeline EXCEPT ![b] = "starting"], pipeline}
    BY TriggerAnswers
  <1>3. CanFail(NewRecord, "backend_trigger_failed")
    BY NewRecordFields DEF CanFail
  <1>4. PICK answer \in TriggerBuild(b) :
           /\ pipeline' = answer.pipeline
           /\ CASE answer.known -> Saving(b, WithEvent(NewRecord), "find", "noEvent")
                [] ~answer.known /\ CanFail(NewRecord, "backend_trigger_failed") ->
                     Saving(b, Failed(NewRecord, "backend_trigger_failed"), "failed", "error")
                [] OTHER -> Return(b, "error")
    BY <1>1 DEF Trigger
  <1>5. \/ Saving(b, WithEvent(NewRecord), "find", "noEvent")
        \/ Saving(b, Failed(NewRecord, "backend_trigger_failed"), "failed", "error")
    BY <1>3, <1>4
  <1>6. \A k \in Builds \ {b} : pipeline'[k] = pipeline[k]
    BY <1>2, <1>4 DEF TypeOK
  <1> QED
    BY <1>1, <1>5, <1>6 DEF Trigger

LEMMA SaveAt ==
    ASSUME TypeOK, NEW b \in Builds, WorkerSave(b)
    PROVE  /\ worker[b].pc = "save"
           /\ \A k \in Builds \ {b} : worker'[k] = worker[k] /\ row'[k] = row[k]
           /\ \/ /\ row'[b] = worker[b].mem /\ worker'[b].pc = worker[b].saved
                 /\ UNCHANGED dbErrors
              \/ /\ row' = row /\ worker'[b].pc = worker[b].unsaved
                 /\ DbFails
           /\ worker'[b].mem = IF worker'[b].pc \in Results THEN NewRecord ELSE worker[b].mem
           /\ worker'[b].saved = "none" /\ worker'[b].unsaved = "none"
           /\ UNCHANGED <<orch, inserted, aged, request, pipeline, verdict, crashes>>
    BY DEF TypeOK, WorkerSave, At, Return, Resting, tekton

\* The other steps save the record of one worker and nothing else.
QuietStep(b) ==
    \/ GiveUpEvent(b) \/ Find(b) \/ FindTimeout(b) \/ SaveLost(b) \/ CheckBuildStatus(b)
    \/ MonitorTimeout(b)

LEMMA QuietAt ==
    ASSUME TypeOK, NEW b \in Builds, QuietStep(b)
    PROVE  /\ worker[b].pc \in {"noEvent", "find", "lost", "monitor"}
           /\ \/ /\ worker'[b].pc = "save"
                 /\ worker'[b].saved \in After /\ worker'[b].unsaved \in After
              \/ worker'[b].pc = "error"
           /\ \A k \in Builds \ {b} : worker'[k] = worker[k]
           /\ UNCHANGED <<orch, inserted, row, aged, request, pipeline, verdict, crashes, dbErrors>>
  <1>1. UNCHANGED <<orch, inserted, row, aged, request, pipeline, verdict, crashes, dbErrors>>
    BY DEF QuietStep, GiveUpEvent, Find, FindTimeout, SaveLost, CheckBuildStatus, MonitorTimeout, tekton
  <1>2. worker[b].pc \in {"noEvent", "find", "lost", "monitor"}
    BY DEF QuietStep, GiveUpEvent, Find, FindTimeout, SaveLost, CheckBuildStatus, MonitorTimeout, At
  <1>3. Return(b, "error") \/ \E d : \E s, u \in After : Saving(b, d, s, u)
    <2>0. /\ {"find", "lost", "monitor", "failed", "error"} \subseteq After
          /\ verdict[b] \in After
      BY BuildOutcomes DEF After, Results, TypeOK
    <2>1. CASE GiveUpEvent(b)
      BY <2>0, <2>1 DEF GiveUpEvent
    <2>2. CASE Find(b)
      BY <2>0, <2>2 DEF Find
    <2>3. CASE FindTimeout(b)
      BY <2>0, <2>3 DEF FindTimeout
    <2>4. CASE SaveLost(b)
      BY <2>0, <2>4 DEF SaveLost
    <2>5. CASE CheckBuildStatus(b)
      BY <2>0, <2>5 DEF CheckBuildStatus, Complete
    <2>6. CASE MonitorTimeout(b)
      BY <2>0, <2>6 DEF MonitorTimeout
    <2> QED
      BY <2>1, <2>2, <2>3, <2>4, <2>5, <2>6 DEF QuietStep
  <1> QED
    BY <1>1, <1>2, <1>3, SavingAt, ReturnAt

AnyWorkerStep(b) == Load(b) \/ Trigger(b) \/ WorkerSave(b) \/ QuietStep(b)

LEMMA WorkerMoves ==
    ASSUME TypeOK, PlaceInv, NEW b \in Builds, AnyWorkerStep(b)
    PROVE  WorkerMove(b)
  <1>p. worker[b].pc \in Moving => orch = "building" /\ inserted = Builds
    BY DEF PlaceInv, Moving, Returned, Results, TypeOK
  <1>n. dbErrors \in Nat /\ (DbFails => dbErrors' \in Nat /\ dbErrors' >= dbErrors) /\ dbErrors >= dbErrors
    BY DEF TypeOK, DbFails
  <1>1. CASE Load(b)
    BY <1>1, <1>p, <1>n, LoadAt, ReturnAt DEF WorkerMove, Moving
  <1>2. CASE Trigger(b)
    BY <1>2, <1>p, <1>n, TriggerAt, SavingAt DEF WorkerMove, Moving, After, Results
  <1>3. CASE WorkerSave(b)
    <2>1. worker[b].saved \in After /\ worker[b].unsaved \in After
      BY <1>3, SaveAt DEF PlaceInv
    <2> QED
      BY <1>3, <2>1, <1>p, <1>n, SaveAt DEF WorkerMove, Moving, After, Results
  <1>4. CASE QuietStep(b)
    BY <1>4, <1>p, <1>n, QuietAt DEF WorkerMove, Moving
  <1> QED
    BY <1>1, <1>2, <1>3, <1>4 DEF AnyWorkerStep

\* The steps of a request.
ReadAs(r, b) ==
    /\ b \in inserted /\ ~ IsCompleted(row[b]) /\ request[r].pc = "idle"
    /\ request'[r].build = b
    /\ \/ /\ row[b].run \/ row[b].event
          /\ request'[r].pc = "query" /\ request'[r].d = row[b]
       \/ /\ ~ row[b].run /\ ~ row[b].event /\ b \in aged
          /\ request'[r].pc = "save" /\ request'[r].d = Failed(row[b], "backend_tracking_failed")

LEMMA ReadAt ==
    ASSUME TypeOK, NEW r \in Requests, NEW b \in Builds, ReadBuild(r, b)
    PROVE  /\ ReadAs(r, b)
           /\ \A q \in Requests \ {r} : request'[q] = request[q]
           /\ UNCHANGED <<orch, inserted, row, aged, worker, pipeline, verdict, crashes, dbErrors>>
    BY DEF TypeOK, ReadBuild, ReadAs, Ask, PastGrace, tekton

\* What a query makes of the record d of build b.
AskedFor(d, b, e) ==
    \/ e \in {Failed(d, "backend_tracking_failed"), Failed(d, "backend_tracking_lost"),
              Failed(WithRun(d), "backend_tracking_lost"), Running(WithRun(d))}
    \/ pipeline[b] = "ended" /\ \E s \in Answers(b) : e = Completed(WithRun(d), s)

LEMMA QueryAt ==
    ASSUME TypeOK, NEW r \in Requests, QueryBuild(r) \/ KubeUnreachable(r)
    PROVE  /\ request[r].pc = "query"
           /\ \/ request'[r] = Answered
              \/ /\ request'[r].pc = "save" /\ request'[r].build = request[r].build
                 /\ AskedFor(request[r].d, request[r].build, request'[r].d)
           /\ \A q \in Requests \ {r} : request'[q] = request[q]
           /\ UNCHANGED <<orch, inserted, row, aged, worker, pipeline, verdict, crashes, dbErrors>>
  <1> DEFINE b == request[r].build
             d == request[r].d
  <1>1. /\ request[r].pc = "query"
        /\ UNCHANGED <<orch, inserted, row, aged, worker, pipeline, verdict, crashes, dbErrors>>
    BY DEF QueryBuild, KubeUnreachable, tekton
  <1>2. \/ request' = [request EXCEPT ![r] = Answered]
        \/ \E e : AskedFor(d, b, e) /\ Ask(r, b, "save", e)
    <2>1. CASE QueryBuild(r)
      BY <2>1, Zenon DEF QueryBuild, AskedFor
    <2>2. CASE KubeUnreachable(r)
      <3>1. PICK k \in {d} \cup (IF Found(b) THEN {WithRun(d)} ELSE {}) :
                   Ask(r, b, "save", Failed(k, "backend_tracking_lost"))
        BY <2>2 DEF KubeUnreachable
      <3>2. k = d \/ k = WithRun(d)
        OBVIOUS
      <3> QED
        BY <3>1, <3>2 DEF AskedFor
    <2> QED
      BY <2>1, <2>2
  <1> HIDE DEF b, d
  <1>3. ASSUME NEW e, AskedFor(d, b, e), Ask(r, b, "save", e)
        PROVE  /\ request'[r].pc = "save" /\ request'[r].build = b /\ request'[r].d = e
               /\ \A q \in Requests \ {r} : request'[q] = request[q]
    BY <1>3 DEF Ask, TypeOK
  <1>4. CASE request' = [request EXCEPT ![r] = Answered]
    BY <1>1, <1>4 DEF TypeOK
  <1> QED
    BY <1>1, <1>2, <1>3, <1>4 DEF b, d

LEMMA RefreshSaveAt ==
    ASSUME TypeOK, NEW r \in Requests, RefreshSave(r)
    PROVE  /\ request[r].pc = "save" /\ request'[r] = Answered
           /\ \/ /\ row'[request[r].build] = request[r].d
                 /\ \A k \in Builds \ {request[r].build} : row'[k] = row[k]
                 /\ UNCHANGED dbErrors
              \/ row' = row /\ DbFails
           /\ \A q \in Requests \ {r} : request'[q] = request[q]
           /\ UNCHANGED <<orch, inserted, aged, worker, pipeline, verdict, crashes>>
    BY Fields DEF TypeOK, RefreshSave, tekton

RequestMove(r) ==
    /\ request'[r].pc # "idle" => request'[r].build \in Builds /\ ~ Fresh(request'[r].build)
    /\ \A q \in Requests \ {r} : request'[q] = request[q]
    /\ \A k \in Builds : row'[k] = row[k] \/ ~ Fresh(k)
    /\ dbErrors' \in Nat /\ dbErrors' >= dbErrors
    /\ UNCHANGED <<orch, inserted, aged, worker, pipeline, verdict>>

LEMMA RequestMoves ==
    ASSUME TypeOK, PlaceInv, NEW r \in Requests, RequestStep(r)
    PROVE  RequestMove(r)
  <1>n. dbErrors \in Nat /\ (DbFails => dbErrors' \in Nat /\ dbErrors' >= dbErrors) /\ dbErrors >= dbErrors
    BY DEF TypeOK, DbFails
  <1>a. Answered.pc = "idle"
    BY DEF Answered
  <1>1. ASSUME NEW b \in Builds, ReadBuild(r, b) PROVE RequestMove(r)
    BY <1>1, <1>n, ReadAt, NewRecordFields DEF RequestMove, ReadAs, Fresh
  <1>2. CASE QueryBuild(r) \/ KubeUnreachable(r)
    BY <1>2, <1>n, <1>a, QueryAt, Fields DEF RequestMove, Fresh
  <1>3. CASE RefreshSave(r)
    BY <1>3, <1>n, <1>a, RefreshSaveAt, Fields DEF RequestMove, Fresh
  <1> QED
    BY <1>1, <1>2, <1>3 DEF RequestStep

-----------------------------------------------------------------------------
(* Places. *)

LEMMA PlaceInit == Init => PlaceInv
    BY DEF Init, PlaceInv, Fresh, Resting, Answered, Returned, Results

LEMMA PlaceWorker ==
    ASSUME TypeOK, PlaceInv, NEW b \in Builds, WorkerMove(b)
    PROVE  PlaceInv'
  <1>1. \A k \in Builds \ {b} : Fresh(k) => Fresh(k)'
    BY DEF WorkerMove, Fresh
  <1>2. worker[b].pc # "save" => (Fresh(b) => Fresh(b)')
    BY DEF WorkerMove, Fresh
  <1>3. worker'[b].pc = "trigger" => Fresh(b)' /\ worker'[b].mem = NewRecord
    BY <1>2 DEF WorkerMove, PlaceInv, Fresh
  <1> QED
    BY <1>1, <1>3 DEF WorkerMove, PlaceInv, Returned

LEMMA PlaceRequest ==
    ASSUME TypeOK, PlaceInv, NEW r \in Requests, RequestMove(r)
    PROVE  PlaceInv'
  <1>1. \A k \in Builds : Fresh(k) => Fresh(k)'
    BY DEF RequestMove, Fresh
  <1>2. orch = "cleanup" => dbErrors' > 0
    BY DEF RequestMove, PlaceInv, TypeOK
  <1> QED
    BY <1>1, <1>2 DEF RequestMove, PlaceInv, Returned

LEMMA PlaceOrch ==
    ASSUME TypeOK, PlaceInv, OrchStep \/ InsertFails
    PROVE  PlaceInv'
  <1>1. ASSUME NEW b \in Builds, Insert(b) PROVE PlaceInv'
    <2>1. \A k \in Builds : Fresh(k) /\ Fresh(k)'
      BY <1>1 DEF Insert, PlaceInv, Fresh
    <2>2. CASE inserted' = Builds
      <3>1. \A k \in Builds : worker'[k].pc = "load"
        BY <1>1, <2>2 DEF Insert, Resting
      <3> QED
        BY <1>1, <2>1, <2>2, <3>1 DEF Insert, PlaceInv, Returned
    <2>3. CASE inserted' # Builds
      BY <1>1, <2>1, <2>3 DEF Insert, PlaceInv, Returned
    <2> QED
      BY <2>2, <2>3
  <1>2. ASSUME NEW b \in Builds, CleanUp(b) PROVE PlaceInv'
    <2>1. /\ worker'[b].pc = "failed" /\ \A k \in Builds \ {b} : worker'[k] = worker[k]
      BY <1>2, ReturnAt DEF CleanUp
    <2>2. \A k \in Builds \ {b} : row'[k] = row[k] /\ (Fresh(k) => Fresh(k)')
      BY <1>2 DEF CleanUp, TypeOK, Fresh
    <2>3. dbErrors' > 0
      BY <1>2 DEF CleanUp, PlaceInv, TypeOK, DbFails
    <2> QED
      BY <1>2, <2>1, <2>2, <2>3 DEF CleanUp, PlaceInv, Returned
  <1>3. CASE BuildAndWaitReturns
    BY <1>3 DEF BuildAndWaitReturns, PlaceInv, Fresh, Returned
  <1>4. CASE InsertFails
    BY <1>4 DEF InsertFails, DbFails, PlaceInv, Fresh, Returned, TypeOK
  <1> QED
    BY <1>1, <1>2, <1>3, <1>4 DEF OrchStep

LEMMA PlaceElsewhere ==
    ASSUME TypeOK, PlaceInv, Elsewhere \/ Crash
    PROVE  PlaceInv'
  <1>1. ASSUME NEW b \in Builds, AgeBuild(b) PROVE PlaceInv'
    <2>1. worker[b].pc \notin {"none", "load", "trigger"}
      BY <1>1, NewRecordFields DEF AgeBuild, PlaceInv, Fresh, TypeOK, Returned, Results
    <2>2. \A k \in Builds \ {b} : Fresh(k) => Fresh(k)'
      BY <1>1 DEF AgeBuild, Fresh
    <2> QED
      BY <1>1, <2>1, <2>2 DEF AgeBuild, PlaceInv, Returned
  <1>2. ASSUME NEW b \in Builds, PipelineRuns(b) \/ PipelineDeleted(b) PROVE PlaceInv'
    BY <1>2 DEF PipelineRuns, PipelineDeleted, PlaceInv, Fresh, Returned
  <1>3. CASE Crash
    <2>1. \A b \in Builds : worker'[b].pc \in {"dead"} \cup Results
      BY <1>3 DEF Crash, Resting, Returned
    <2>2. \A r \in Requests : request'[r].pc = "idle"
      BY <1>3 DEF Crash, Answered
    <2>3. \A b \in Builds \ inserted : worker'[b].pc = "dead"
      BY <1>3 DEF Crash, PlaceInv, Resting, Returned, Results
    <2> QED
      BY <1>3, <2>1, <2>2, <2>3 DEF Crash, PlaceInv, Fresh, Results
  <1> QED
    BY <1>1, <1>2, <1>3 DEF Elsewhere

\* Every step is one of five.
LEMMA Steps ==
    ASSUME [Next]_vars
    PROVE  \/ OrchStep \/ InsertFails
           \/ \E b \in Builds : AnyWorkerStep(b)
           \/ \E r \in Requests : RequestStep(r)
           \/ Elsewhere \/ Crash \/ UNCHANGED vars
    BY DEF Next, WorkerStep, AnyWorkerStep, QuietStep

LEMMA PlaceStep == TypeOK /\ PlaceInv /\ [Next]_vars => PlaceInv'
  <1> SUFFICES ASSUME TypeOK, PlaceInv, [Next]_vars PROVE PlaceInv'
    OBVIOUS
  <1>1. CASE UNCHANGED vars
    BY <1>1 DEF vars, PlaceInv, Fresh, Returned
  <1> QED
    BY <1>1, Steps, WorkerMoves, PlaceWorker, RequestMoves, PlaceRequest, PlaceOrch, PlaceElsewhere

LEMMA PlaceCorrect == Spec => [](TypeOK /\ PlaceInv)
    BY TypeInit, TypeStep, PlaceInit, PlaceStep, PTL DEF Spec

-----------------------------------------------------------------------------
(* Event ids. *)

LEMMA EventInit == Init => EventInv
    BY NewRecordFields
    DEF Init, EventInv, WorkerEvent, RequestEvent, Resting, Answered, Following

\* What the step of a worker owes: its own record and memory; the rest follows.
OwnEvent(b) ==
    /\ WorkerEvent(b)'
    /\ worker'[b].mem.run => worker'[b].mem.event
    /\ row'[b].run => row'[b].event
    /\ row[b].event => row'[b].event

LEMMA OwnEventEnough ==
    ASSUME TypeOK, PlaceInv, EventInv, NEW b \in Builds, WorkerMove(b), OwnEvent(b)
    PROVE  EventInv'
  <1>1. ~ GivenUp(b)
    BY DEF WorkerMove, Moving, GivenUp, Results
  <1>2. \A k \in Builds \ {b} : /\ WorkerEvent(k)' /\ (GivenUp(k) => GivenUp(k)')
                                /\ row'[k].run => row'[k].event
                                /\ worker'[k].mem.run => worker'[k].mem.event
                                /\ k \in aged' => row'[k].event \/ GivenUp(k)'
    BY DEF WorkerMove, EventInv, WorkerEvent, GivenUp
  <1>3. b \in aged' => row'[b].event
    BY <1>1 DEF WorkerMove, EventInv, OwnEvent
  <1>4. ASSUME NEW r \in Requests, request'[r].pc # "idle" PROVE RequestEvent(r)'
    <2>1. request' = request /\ RequestEvent(r) /\ request[r].build \in Builds
      BY <1>4, Fields DEF WorkerMove, EventInv
    <2>2. CASE request[r].build = b
      BY <2>1, <2>2, <1>1 DEF RequestEvent, OwnEvent
    <2>3. CASE request[r].build # b
      BY <2>1, <2>3, <1>2 DEF RequestEvent, WorkerMove
    <2> QED
      BY <2>2, <2>3
  <1> QED
    BY <1>2, <1>3, <1>4 DEF EventInv, OwnEvent

LEMMA EventQuiet ==
    ASSUME TypeOK, EventInv, NEW b \in Builds, QuietStep(b)
    PROVE  OwnEvent(b)
  <1> DEFINE d == worker[b].mem
  <1>d. d \in Record /\ d.event /\ (d.run => d.event)
    BY QuietAt, Fields DEF EventInv, WorkerEvent, Following
  <1>w. worker[b].pc \in Following => row[b].event
    BY DEF EventInv, WorkerEvent
  <1>r. row' = row /\ (row[b].run => row[b].event)
    BY QuietAt DEF EventInv
  <1>e. ASSUME NEW e, NEW s, NEW u, Saving(b, e, s, u), e.event, u \in Following => row[b].event
        PROVE  OwnEvent(b)
    BY <1>e, <1>r, SavingAt DEF OwnEvent, WorkerEvent, Following
  <1>x. Return(b, "error") => OwnEvent(b)
    BY <1>r, ReturnAt, NewRecordFields DEF OwnEvent, WorkerEvent, Following
  <1> HIDE DEF d
  <1>f. \A s : Failed(d, s).event /\ Completed(d, s).event /\ WithRun(d).event /\ Running(d).event
    BY <1>d, RecordFields, StampFields
  <1>1. CASE GiveUpEvent(b)
    BY <1>1, <1>e, <1>x, <1>f DEF GiveUpEvent, Following, d
  <1>2. CASE Find(b)
    BY <1>2, <1>e, <1>f, <1>w DEF Find, At, Following, d
  <1>3. CASE FindTimeout(b)
    BY <1>3, <1>e, <1>f, <1>w DEF FindTimeout, At, Following, d
  <1>4. CASE SaveLost(b)
    BY <1>4, <1>d, <1>e, <1>w DEF SaveLost, At, Following, d
  <1>5. CASE CheckBuildStatus(b)
    BY <1>5, <1>e, <1>f, <1>w DEF CheckBuildStatus, Complete, At, Following, d
  <1>6. CASE MonitorTimeout(b)
    BY <1>6, <1>e, <1>x, <1>f DEF MonitorTimeout, Following, d
  <1> QED
    BY <1>1, <1>2, <1>3, <1>4, <1>5, <1>6 DEF QuietStep

LEMMA EventWorker ==
    ASSUME TypeOK, PlaceInv, EventInv, NEW b \in Builds, AnyWorkerStep(b)
    PROVE  OwnEvent(b)
  <1>0. row[b].run => row[b].event
    BY DEF EventInv
  <1>1. CASE Load(b)
    BY <1>0, <1>1, LoadAt, ReturnAt, NewRecordFields DEF OwnEvent, WorkerEvent, Following
  <1>2. CASE Trigger(b)
    <2>1. row' = row /\ ~ row[b].event
      BY <1>2, TriggerAt, NewRecordFields DEF Fresh
    <2>2. /\ WithEvent(NewRecord).event
          /\ ~ Failed(NewRecord, "backend_trigger_failed").event
          /\ ~ Failed(NewRecord, "backend_trigger_failed").run
      BY TriggerFields
    <2>3. CASE Saving(b, WithEvent(NewRecord), "find", "noEvent")
      BY <1>0, <2>1, <2>2, <2>3, SavingAt DEF OwnEvent, WorkerEvent, Following
    <2>4. CASE Saving(b, Failed(NewRecord, "backend_trigger_failed"), "failed", "error")
      BY <1>0, <2>1, <2>2, <2>4, SavingAt DEF OwnEvent, WorkerEvent, Following
    <2> QED
      BY <1>2, <2>3, <2>4, TriggerAt
  <1>3. CASE WorkerSave(b)
    <2>1. WorkerEvent(b) /\ worker[b].pc = "save" /\ (worker[b].mem.run => worker[b].mem.event)
      BY <1>3, SaveAt DEF EventInv
    <2>2. worker[b].saved \in After /\ worker[b].unsaved \in After
      BY <2>1 DEF PlaceInv
    <2>3. worker'[b].mem.run => worker'[b].mem.event
      BY <1>3, <2>1, SaveAt, NewRecordFields
    <2>4. CASE worker[b].mem.event
      BY <1>0, <1>3, <2>1, <2>2, <2>3, <2>4, SaveAt
      DEF OwnEvent, WorkerEvent, Following, After, Results
    <2>5. CASE ~ worker[b].mem.event
      BY <1>0, <1>3, <2>1, <2>3, <2>5, SaveAt DEF OwnEvent, WorkerEvent, Following, Results
    <2> QED
      BY <2>4, <2>5
  <1>4. CASE QuietStep(b)
    BY <1>4, EventQuiet
  <1> QED
    BY <1>1, <1>2, <1>3, <1>4 DEF AnyWorkerStep

\* A request saves the event id that the row has.
LEMMA SavedEvent ==
    ASSUME TypeOK, EventInv, NEW r \in Requests, RefreshSave(r), NEW k \in Builds
    PROVE  (row'[k].event <=> row[k].event) /\ (row'[k].run => row'[k].event)
  <1>1. RequestEvent(r) /\ request[r].pc = "save"
    BY RefreshSaveAt DEF EventInv
  <1>2. row[k].run => row[k].event
    BY DEF EventInv
  <1> QED
    BY <1>1, <1>2, RefreshSaveAt DEF RequestEvent, GivenUp

LEMMA AskedEvent ==
    ASSUME NEW d \in Record, d.event, NEW b, NEW e, AskedFor(d, b, e)
    PROVE  e.event
  <1>1. WithRun(d) \in Record /\ WithRun(d).event
    BY RecordTyped, RecordFields, StampFields, StatusFacts
  <1>2. \A s : /\ Failed(d, s).event /\ Failed(WithRun(d), s).event
               /\ Running(WithRun(d)).event /\ Completed(WithRun(d), s).event
    BY <1>1, RecordFields, StampFields
  <1> QED
    BY <1>2 DEF AskedFor

LEMMA EventRequest ==
    ASSUME TypeOK, PlaceInv, EventInv, NEW r \in Requests, RequestStep(r)
    PROVE  EventInv' /\ \A k \in Builds : row[k].event => row'[k].event
  <1>1. \A k \in Builds : (row'[k].event <=> row[k].event) /\ (row'[k].run => row'[k].event)
    <2>1. ASSUME NEW b \in Builds, ReadBuild(r, b) PROVE row' = row
      BY <2>1, ReadAt
    <2>2. CASE QueryBuild(r) \/ KubeUnreachable(r)
      BY <2>2, QueryAt DEF EventInv
    <2>3. \A k \in Builds : row[k].run => row[k].event
      BY DEF EventInv
    <2> QED
      BY <2>1, <2>2, <2>3, SavedEvent DEF RequestStep
  <1>2. /\ worker' = worker /\ aged' = aged
        /\ \A q \in Requests \ {r} : request'[q] = request[q]
    BY RequestMoves DEF RequestMove
  <1>3. \A k \in Builds : GivenUp(k) <=> GivenUp(k)'
    BY <1>1, <1>2 DEF GivenUp
  <1>4. \A b \in Builds : WorkerEvent(b)'
    BY <1>1, <1>2 DEF EventInv, WorkerEvent
  <1>5. ASSUME NEW q \in Requests \ {r}, request'[q].pc # "idle" PROVE RequestEvent(q)'
    BY <1>1, <1>2, <1>3, <1>5, Fields DEF EventInv, RequestEvent
  <1>a. Answered.pc = "idle"
    BY DEF Answered
  <1>6. ASSUME request'[r].pc # "idle" PROVE RequestEvent(r)'
    <2>1. ASSUME NEW b \in Builds, ReadBuild(r, b) PROVE RequestEvent(r)'
      <3>1. ReadAs(r, b) /\ row[b] \in Record /\ (row[b].run => row[b].event)
        BY <2>1, ReadAt, Fields DEF EventInv
      <3>2. b \in aged => row[b].event \/ GivenUp(b)
        BY DEF EventInv
      <3>3. \A s : Failed(row[b], s).event = row[b].event /\ Failed(row[b], s).run = row[b].run
        BY <3>1, RecordFields, StampFields
      <3>4. request'[r].build = b /\ b \in Builds
        BY <3>1 DEF ReadAs
      <3>5. CASE request'[r].d = row[b] /\ (row[b].run \/ row[b].event)
        BY <1>1, <3>1, <3>4, <3>5 DEF RequestEvent
      <3>6. CASE /\ ~ row[b].run /\ ~ row[b].event /\ b \in aged
                 /\ request'[r].pc = "save" /\ request'[r].d = Failed(row[b], "backend_tracking_failed")
        BY <1>1, <1>3, <3>2, <3>3, <3>4, <3>6 DEF RequestEvent
      <3> QED
        BY <3>1, <3>5, <3>6 DEF ReadAs
    <2>2. CASE QueryBuild(r) \/ KubeUnreachable(r)
      <3>1. RequestEvent(r) /\ request[r].d \in Record /\ request[r].build \in Builds
        BY <2>2, QueryAt, Fields DEF EventInv
      <3>2. /\ request'[r].build = request[r].build
            /\ AskedFor(request[r].d, request[r].build, request'[r].d)
        BY <2>2, <1>6, <1>a, QueryAt
      <3>3. request[r].d.event /\ request'[r].d.event
        BY <2>2, <3>1, <3>2, AskedEvent, QueryAt DEF RequestEvent
      <3> QED
        BY <1>1, <1>3, <3>1, <3>2, <3>3 DEF RequestEvent
    <2>3. CASE RefreshSave(r)
      BY <2>3, <1>6, <1>a, RefreshSaveAt
    <2> QED
      BY <2>1, <2>2, <2>3 DEF RequestStep
  <1> QED
    BY <1>1, <1>2, <1>3, <1>4, <1>5, <1>6 DEF EventInv

LEMMA EventOrch ==
    ASSUME TypeOK, PlaceInv, EventInv, OrchStep \/ InsertFails
    PROVE  EventInv' /\ \A k \in Builds : row[k].event => row'[k].event
  <1>1. ASSUME NEW b \in Builds, Insert(b)
        PROVE  EventInv' /\ \A k \in Builds : row[k].event => row'[k].event
    <2>1. \A k \in Builds : /\ worker'[k] \in {Resting("load"), worker[k]}
                            /\ worker[k].pc = "none" /\ Fresh(k)
      BY <1>1 DEF Insert, PlaceInv
    <2>2. \A k \in Builds : WorkerEvent(k)' /\ (worker'[k].mem.run => worker'[k].mem.event)
      BY <1>1, <2>1, NewRecordFields DEF Insert, EventInv, WorkerEvent, Resting, Following
    <2>3. \A r \in Requests : request[r].pc = "idle"
      BY <2>1, Fields DEF Fresh
    <2> QED
      BY <1>1, <2>1, <2>2, <2>3 DEF Insert, EventInv, Fresh
  <1>2. ASSUME NEW b \in Builds, CleanUp(b)
        PROVE  EventInv' /\ \A k \in Builds : row[k].event => row'[k].event
    <2>1. /\ worker'[b] = Resting("failed")
          /\ \A k \in Builds \ {b} : worker'[k] = worker[k] /\ row'[k] = row[k]
          /\ row'[b] \in {row[b], Failed(NewRecord, "backend_trigger_failed")}
          /\ UNCHANGED <<aged, request>>
      BY <1>2 DEF CleanUp, Return, TypeOK
    <2>2. worker[b].pc = "none" /\ Fresh(b)
      BY <1>2 DEF CleanUp, PlaceInv, Returned, Results
    <2>3. ~ row'[b].event /\ ~ row'[b].run /\ ~ row[b].event
      BY <2>1, <2>2, NewRecordFields, TriggerFields DEF Fresh
    <2>4. \A k \in Builds : WorkerEvent(k)' /\ (worker'[k].mem.run => worker'[k].mem.event)
      BY <2>1, NewRecordFields DEF EventInv, WorkerEvent, Resting, Following
    <2>5. \A k \in Builds \ {b} : GivenUp(k) => GivenUp(k)'
      BY <2>1 DEF GivenUp
    <2>6. ASSUME NEW r \in Requests, request'[r].pc # "idle" PROVE RequestEvent(r)'
      BY <2>1, <2>2, <2>5, <2>6, Fields DEF EventInv, RequestEvent, Fresh
    <2> QED
      BY <2>1, <2>2, <2>3, <2>4, <2>5, <2>6 DEF EventInv, Fresh
  <1>3. CASE BuildAndWaitReturns \/ InsertFails
    BY <1>3 DEF BuildAndWaitReturns, InsertFails, EventInv, WorkerEvent, RequestEvent, GivenUp, tekton
  <1> QED
    BY <1>1, <1>2, <1>3 DEF OrchStep

LEMMA EventElsewhere ==
    ASSUME TypeOK, PlaceInv, EventInv, Elsewhere \/ Crash
    PROVE  EventInv' /\ \A k \in Builds : row[k].event => row'[k].event
  <1>1. ASSUME NEW b \in Builds, AgeBuild(b) PROVE EventInv' /\ row' = row
    <2>1. row[b].event \/ GivenUp(b)
      <3>1. worker[b].pc \in Places \cup Results
        BY DEF TypeOK, Worker
      <3>2. worker[b].pc # "none" \/ row[b].event
        BY <1>1 DEF AgeBuild, PlaceInv, TypeOK, Returned, Results
      <3> QED
        BY <1>1, <3>1, <3>2 DEF AgeBuild, EventInv, WorkerEvent, Following, GivenUp, Places
    <2> QED
      BY <1>1, <2>1 DEF AgeBuild, EventInv, WorkerEvent, RequestEvent, GivenUp
  <1>2. ASSUME NEW b \in Builds, PipelineRuns(b) \/ PipelineDeleted(b) PROVE EventInv' /\ row' = row
    BY <1>2 DEF PipelineRuns, PipelineDeleted, EventInv, WorkerEvent, RequestEvent, GivenUp
  <1>3. CASE Crash
    <2>1. \A k \in Builds : /\ worker'[k] \in {worker[k], Resting("dead")}
                            /\ worker'[k].pc \in {"dead"} \cup Results
      BY <1>3 DEF Crash, Returned, Resting
    <2>2. \A k \in Builds : /\ WorkerEvent(k)' /\ (worker'[k].mem.run => worker'[k].mem.event)
                            /\ (GivenUp(k) => GivenUp(k)')
      BY <1>3, <2>1, NewRecordFields DEF Crash, EventInv, WorkerEvent, GivenUp, Resting, Following, Results
    <2>3. \A r \in Requests : request'[r].pc = "idle"
      BY <1>3 DEF Crash, Answered
    <2> QED
      BY <1>3, <2>2, <2>3 DEF Crash, EventInv
  <1> QED
    BY <1>1, <1>2, <1>3 DEF Elsewhere

LEMMA EventStep ==
    ASSUME TypeOK, PlaceInv, EventInv, [Next]_vars
    PROVE  EventInv' /\ \A b \in Builds : row[b].event => row'[b].event
  <1>1. CASE UNCHANGED vars
    BY <1>1 DEF vars, EventInv, WorkerEvent, RequestEvent, GivenUp
  <1>2. ASSUME NEW b \in Builds, AnyWorkerStep(b)
        PROVE  EventInv' /\ \A k \in Builds : row[k].event => row'[k].event
    BY <1>2, WorkerMoves, EventWorker, OwnEventEnough DEF WorkerMove, OwnEvent
  <1> QED
    BY <1>1, <1>2, Steps, EventRequest, EventOrch, EventElsewhere

LEMMA EventCorrect == Spec => [](TypeOK /\ PlaceInv /\ EventInv)
  <1>1. Init => EventInv
    BY EventInit
  <1>2. TypeOK /\ PlaceInv /\ EventInv /\ [Next]_vars => EventInv'
    BY EventStep
  <1> QED
    BY <1>1, <1>2, PlaceCorrect, PTL DEF Spec

\* Whoever saves a whole row from an old copy saves the event id too, if the row has one:
\* a request that has read the row without its id does so only when no worker is left
\* that could save it.
THEOREM EventKeptHolds == Spec => EventKept
  <1>1. TypeOK /\ PlaceInv /\ EventInv /\ [Next]_vars
          => [\A b \in Builds : row[b].event => row'[b].event]_vars
    BY EventStep
  <1> QED
    BY <1>1, EventCorrect, PTL DEF Spec, EventKept

-----------------------------------------------------------------------------
(* Verdicts. *)

LEMMA VerdictInit == Init => VerdictInv
    BY NewRecordFields DEF Init, VerdictInv, Honest, Resting, Answered, Verdicts

\* What the step of a worker owes.
OwnVerdict(b) ==
    /\ Honest(row[b], b)' /\ Honest(worker[b].mem, b)'
    /\ worker'[b].pc \in Verdicts => worker'[b].pc = verdict'[b]
    /\ worker'[b].saved \in Verdicts => worker'[b].saved = verdict'[b]
    /\ worker'[b].unsaved \notin Verdicts

LEMMA OwnVerdictEnough ==
    ASSUME TypeOK, PlaceInv, VerdictInv, NEW b \in Builds, WorkerMove(b), OwnVerdict(b)
    PROVE  VerdictInv'
  <1>1. ASSUME NEW k \in Builds \ {b}
        PROVE  /\ Honest(row[k], k)' /\ Honest(worker[k].mem, k)'
               /\ worker'[k].pc \in Verdicts => worker'[k].pc = verdict'[k]
               /\ worker'[k].saved \in Verdicts => worker'[k].saved = verdict'[k]
               /\ worker'[k].unsaved \notin Verdicts
    BY <1>1 DEF WorkerMove, VerdictInv, Honest
  <1>2. ASSUME NEW r \in Requests, request'[r].pc # "idle"
        PROVE  Honest(request[r].d, request[r].build)'
    <2>1. request' = request /\ Honest(request[r].d, request[r].build) /\ request[r].build \in Builds
      BY <1>2, Fields DEF WorkerMove, VerdictInv
    <2>2. pipeline'[request[r].build] = pipeline[request[r].build]
      BY <1>2, <2>1 DEF WorkerMove, PlaceInv, Fresh
    <2> QED
      BY <2>1, <2>2 DEF Honest, WorkerMove
  <1> QED
    BY <1>1, <1>2 DEF VerdictInv, OwnVerdict

LEMMA VerdictQuiet ==
    ASSUME TypeOK, VerdictInv, NEW b \in Builds, QuietStep(b)
    PROVE  OwnVerdict(b)
  <1> DEFINE d == worker[b].mem
  <1>d. d \in Record /\ Honest(d, b)
    BY Fields DEF VerdictInv
  <1>r. /\ row' = row /\ pipeline' = pipeline /\ verdict' = verdict
        /\ Honest(row[b], b) /\ verdict[b] \in Outcomes
    BY QuietAt, Fields DEF VerdictInv
  <1>e. ASSUME NEW e, NEW s, NEW u, Saving(b, e, s, u), Honest(e, b),
               s \in Verdicts => s = verdict[b], u \notin Verdicts
        PROVE  OwnVerdict(b)
    BY <1>e, <1>r, SavingAt DEF OwnVerdict, Honest, Verdicts
  <1>x. Return(b, "error") => OwnVerdict(b)
    BY <1>r, ReturnAt, NewRecordFields DEF OwnVerdict, Honest, Verdicts
  <1> HIDE DEF d
  <1>f. /\ Honest(Failed(d, "backend_tracking_failed"), b)
        /\ Honest(Failed(d, "backend_tracking_lost"), b)
        /\ Honest(Running(d), b) /\ Honest(WithRun(d), b)
    <2>1. /\ Failed(d, "backend_tracking_failed").status = "backend_tracking_failed"
          /\ Failed(d, "backend_tracking_lost").status = "backend_tracking_lost"
      BY <1>d, StampFields
    <2>2. Running(d).status = "running" /\ WithRun(d).status = d.status
      BY <1>d, RecordFields
    <2> QED
      BY <1>d, <2>1, <2>2, Unanswered DEF Honest
  <1>1. CASE GiveUpEvent(b)
    BY <1>1, <1>e, <1>x, <1>f DEF GiveUpEvent, Verdicts, d
  <1>2. CASE Find(b)
    BY <1>2, <1>e, <1>f DEF Find, Verdicts, d
  <1>3. CASE FindTimeout(b)
    BY <1>3, <1>e, <1>f DEF FindTimeout, Verdicts, d
  <1>4. CASE SaveLost(b)
    BY <1>4, <1>d, <1>e DEF SaveLost, Verdicts, d
  <1>5. CASE CheckBuildStatus(b)
    <2>1. Completed(d, verdict[b]).status = verdict[b]
      BY <1>d, RecordFields, StampFields
    <2>2. pipeline[b] = "ended" => Honest(Completed(d, verdict[b]), b)
      BY <2>1 DEF Honest
    <2> QED
      BY <1>5, <2>2, <1>e, <1>f DEF CheckBuildStatus, Complete, Verdicts, d
  <1>6. CASE MonitorTimeout(b)
    BY <1>6, <1>e, <1>x, <1>f DEF MonitorTimeout, Verdicts, d
  <1> QED
    BY <1>1, <1>2, <1>3, <1>4, <1>5, <1>6 DEF QuietStep

LEMMA VerdictWorker ==
    ASSUME TypeOK, PlaceInv, VerdictInv, NEW b \in Builds, AnyWorkerStep(b)
    PROVE  OwnVerdict(b)
  <1>0. Honest(row[b], b) /\ Honest(worker[b].mem, b) /\ worker[b].unsaved \notin Verdicts
    BY DEF VerdictInv
  <1>1. CASE Load(b)
    BY <1>0, <1>1, LoadAt, ReturnAt, NewRecordFields DEF OwnVerdict, Honest, Verdicts
  <1>2. CASE Trigger(b)
    <2>1. row' = row /\ row[b] = NewRecord
      BY <1>2, TriggerAt DEF Fresh
    <2>2. /\ WithEvent(NewRecord).status \notin Outcomes
          /\ Failed(NewRecord, "backend_trigger_failed").status \notin Outcomes
      BY TriggerFields, StatusFacts DEF BackendStatuses, BackendTerminal
    <2>3. CASE Saving(b, WithEvent(NewRecord), "find", "noEvent")
      BY <2>1, <2>2, <2>3, SavingAt, NewRecordFields DEF OwnVerdict, Honest, Verdicts
    <2>4. CASE Saving(b, Failed(NewRecord, "backend_trigger_failed"), "failed", "error")
      BY <2>1, <2>2, <2>4, SavingAt, NewRecordFields DEF OwnVerdict, Honest, Verdicts
    <2> QED
      BY <1>2, <2>3, <2>4, TriggerAt
  <1>3. CASE WorkerSave(b)
    <2>1. worker'[b].pc \in Verdicts => worker'[b].pc = verdict'[b]
      BY <1>0, <1>3, SaveAt DEF VerdictInv
    <2>2. Honest(worker[b].mem, b)' /\ Honest(row[b], b)'
      BY <1>0, <1>3, SaveAt, NewRecordFields DEF Honest
    <2> QED
      BY <1>3, <2>1, <2>2, SaveAt DEF OwnVerdict, Verdicts
  <1>4. CASE QuietStep(b)
    BY <1>4, VerdictQuiet
  <1> QED
    BY <1>1, <1>2, <1>3, <1>4 DEF AnyWorkerStep

\* What a request makes of a finished run is Tekton's verdict, but for a skipped build.
LEMMA AskedHonest ==
    ASSUME TypeOK, NEW b \in Builds, NEW d \in Record, NEW e, Honest(d, b), AskedFor(d, b, e)
    PROVE  Honest(e, b)
  <1>1. WithRun(d) \in Record
    BY RecordTyped, StatusFacts
  <1>2. /\ Failed(d, "backend_tracking_failed").status \notin Outcomes
        /\ Failed(d, "backend_tracking_lost").status \notin Outcomes
        /\ Failed(WithRun(d), "backend_tracking_lost").status \notin Outcomes
        /\ Running(WithRun(d)).status \notin Outcomes
    <2>1. /\ Failed(d, "backend_tracking_failed").status = "backend_tracking_failed"
          /\ Failed(d, "backend_tracking_lost").status = "backend_tracking_lost"
          /\ Failed(WithRun(d), "backend_tracking_lost").status = "backend_tracking_lost"
      BY <1>1, StampFields
    <2>2. Running(WithRun(d)).status = "running"
      BY <1>1, RecordFields
    <2> QED
      BY <2>1, <2>2, Unanswered
  <1>3. ASSUME pipeline[b] = "ended", NEW s \in Answers(b), e = Completed(WithRun(d), s)
        PROVE  Honest(e, b)
    <2>1. e.status = s
      BY <1>1, <1>3, RecordFields, StampFields
    <2>2. s = verdict[b] \/ {s, verdict[b]} = {"success", "skipped"}
      BY DEF Answers
    <2> QED
      BY <1>3, <2>1, <2>2 DEF Honest
  <1> QED
    BY <1>2, <1>3 DEF AskedFor, Honest

LEMMA VerdictRequest ==
    ASSUME TypeOK, PlaceInv, VerdictInv, NEW r \in Requests, RequestStep(r)
    PROVE  VerdictInv'
  <1>1. /\ worker' = worker /\ pipeline' = pipeline /\ verdict' = verdict
        /\ \A q \in Requests \ {r} : request'[q] = request[q]
    BY RequestMoves DEF RequestMove
  <1>a. Answered.pc = "idle"
    BY DEF Answered
  <1>h. \A b \in Builds : Honest(row[b], b)
    BY DEF VerdictInv
  <1>2. \A b \in Builds : row'[b] = row[b] \/ Honest(row'[b], b)
    <2>1. ASSUME NEW b \in Builds, ReadBuild(r, b) PROVE row' = row
      BY <2>1, ReadAt
    <2>2. CASE QueryBuild(r) \/ KubeUnreachable(r)
      BY <2>2, QueryAt
    <2>3. CASE RefreshSave(r)
      BY <2>3, RefreshSaveAt DEF VerdictInv
    <2> QED
      BY <2>1, <2>2, <2>3 DEF RequestStep
  <1>3. ASSUME request'[r].pc # "idle"
        PROVE  request'[r].build \in Builds /\ Honest(request'[r].d, request'[r].build)
    <2>1. ASSUME NEW b \in Builds, ReadBuild(r, b)
          PROVE  request'[r].build \in Builds /\ Honest(request'[r].d, request'[r].build)
      <3>1. ReadAs(r, b) /\ row[b] \in Record
        BY <2>1, ReadAt, Fields
      <3>2. Honest(Failed(row[b], "backend_tracking_failed"), b)
        BY <3>1, RecordFields, StampFields, Unanswered DEF Honest
      <3> QED
        BY <1>h, <3>1, <3>2 DEF ReadAs
    <2>2. CASE QueryBuild(r) \/ KubeUnreachable(r)
      <3>1. /\ Honest(request[r].d, request[r].build)
            /\ request[r].d \in Record /\ request[r].build \in Builds
        BY <2>2, QueryAt, Fields DEF VerdictInv
      <3>2. /\ request'[r].build = request[r].build
            /\ AskedFor(request[r].d, request[r].build, request'[r].d)
        BY <2>2, <1>3, <1>a, QueryAt
      <3> QED
        BY <3>1, <3>2, AskedHonest
    <2>3. CASE RefreshSave(r)
      BY <2>3, <1>3, <1>a, RefreshSaveAt
    <2> QED
      BY <2>1, <2>2, <2>3 DEF RequestStep
  <1>4. \A b \in Builds : Honest(row[b], b)' /\ Honest(worker[b].mem, b)'
    BY <1>1, <1>2, <1>h DEF VerdictInv, Honest
  <1>5. ASSUME NEW q \in Requests, request'[q].pc # "idle"
        PROVE  Honest(request[q].d, request[q].build)'
    <2>1. Honest(request'[q].d, request'[q].build)
      BY <1>1, <1>3, <1>5 DEF VerdictInv
    <2> QED
      BY <1>1, <2>1 DEF Honest
  <1> QED
    BY <1>1, <1>4, <1>5 DEF VerdictInv

\* A goroutine at rest says nothing of its own.
VerdictQuietly ==
    /\ \A k \in Builds : \/ worker'[k] = worker[k]
                         \/ worker'[k] \in {Resting("load"), Resting("failed"), Resting("dead")}
    /\ \A k \in Builds : row'[k] = row[k] \/ row'[k].status \notin Outcomes
    /\ \A r \in Requests : request'[r] = request[r] \/ request'[r].pc = "idle"
    /\ pipeline' = pipeline /\ verdict' = verdict

LEMMA VerdictRested ==
    ASSUME VerdictInv, VerdictQuietly
    PROVE  VerdictInv'
  <1>1. ASSUME NEW k \in Builds
        PROVE  /\ Honest(worker[k].mem, k)' /\ worker'[k].unsaved \notin Verdicts
               /\ worker'[k].pc \in Verdicts => worker'[k].pc = verdict'[k]
               /\ worker'[k].saved \in Verdicts => worker'[k].saved = verdict'[k]
    <2>1. CASE worker'[k] = worker[k]
      BY <2>1 DEF VerdictQuietly, VerdictInv, Honest
    <2>2. CASE worker'[k] \in {Resting("load"), Resting("failed"), Resting("dead")}
      BY <2>2, NewRecordFields DEF Honest, Resting, Verdicts
    <2> QED
      BY <2>1, <2>2 DEF VerdictQuietly
  <1>2. \A k \in Builds : Honest(row[k], k)'
    BY DEF VerdictQuietly, VerdictInv, Honest
  <1>3. \A r \in Requests : request'[r].pc # "idle" => Honest(request[r].d, request[r].build)'
    BY DEF VerdictQuietly, VerdictInv, Honest
  <1> QED
    BY <1>1, <1>2, <1>3 DEF VerdictInv

LEMMA VerdictOther ==
    ASSUME TypeOK, PlaceInv, VerdictInv, OrchStep \/ InsertFails \/ Elsewhere \/ Crash
    PROVE  VerdictInv'
  <1>1. ASSUME NEW b \in Builds, Insert(b) PROVE VerdictInv'
    <2>1. \A k \in Builds : worker'[k] \in {Resting("load"), worker[k]}
      BY <1>1 DEF Insert, TypeOK
    <2> QED
      BY <1>1, <2>1, VerdictRested DEF Insert, VerdictQuietly, tekton
  <1>2. ASSUME NEW b \in Builds, CleanUp(b) PROVE VerdictInv'
    <2>1. \A k \in Builds :
             /\ worker'[k] \in {Resting("failed"), worker[k]}
             /\ row'[k] \in {row[k], Failed(NewRecord, "backend_trigger_failed")}
      BY <1>2 DEF CleanUp, Return, TypeOK
    <2>2. Failed(NewRecord, "backend_trigger_failed").status \notin Outcomes
      BY TriggerFields, Unanswered
    <2> QED
      BY <1>2, <2>1, <2>2, VerdictRested DEF CleanUp, VerdictQuietly, tekton
  <1>3. CASE BuildAndWaitReturns \/ InsertFails
    BY <1>3 DEF BuildAndWaitReturns, InsertFails, VerdictInv, Honest, tekton
  <1>4. ASSUME NEW b \in Builds, AgeBuild(b) PROVE VerdictInv'
    BY <1>4 DEF AgeBuild, VerdictInv, Honest, tekton
  <1>5. ASSUME NEW b \in Builds, PipelineRuns(b) \/ PipelineDeleted(b) PROVE VerdictInv'
    <2>1. \A k \in Builds : pipeline[k] \in {"ended", "gone"} => pipeline'[k] \in {"ended", "gone"}
      BY <1>5 DEF PipelineRuns, PipelineDeleted, TypeOK
    <2>2. UNCHANGED <<row, worker, request, verdict>>
      BY <1>5 DEF PipelineRuns, PipelineDeleted
    <2>3. ASSUME NEW d, NEW k \in Builds, Honest(d, k)
          PROVE  d.status \in Outcomes =>
                   /\ pipeline'[k] \in {"ended", "gone"}
                   /\ d.status = verdict'[k] \/ {d.status, verdict'[k]} = {"success", "skipped"}
      BY <2>1, <2>2, <2>3 DEF Honest
    <2>4. \A k \in Builds : Honest(row[k], k)' /\ Honest(worker[k].mem, k)'
      BY <2>2, <2>3 DEF VerdictInv, Honest
    <2>5. \A r \in Requests : request'[r].pc # "idle" => Honest(request[r].d, request[r].build)'
      BY <2>2, <2>3, Fields DEF VerdictInv, Honest
    <2> QED
      BY <2>2, <2>4, <2>5 DEF VerdictInv
  <1>6. CASE Crash
    <2>1. \A k \in Builds : worker'[k] \in {worker[k], Resting("dead")}
      BY <1>6 DEF Crash
    <2>2. \A r \in Requests : request'[r].pc = "idle"
      BY <1>6 DEF Crash, Answered
    <2> QED
      BY <1>6, <2>1, <2>2, VerdictRested DEF Crash, VerdictQuietly, tekton
  <1> QED
    BY <1>1, <1>2, <1>3, <1>4, <1>5, <1>6 DEF OrchStep, Elsewhere

LEMMA VerdictStep == TypeOK /\ PlaceInv /\ VerdictInv /\ [Next]_vars => VerdictInv'
  <1> SUFFICES ASSUME TypeOK, PlaceInv, VerdictInv, [Next]_vars PROVE VerdictInv'
    OBVIOUS
  <1>1. CASE UNCHANGED vars
    BY <1>1 DEF vars, VerdictInv, Honest
  <1> QED
    BY <1>1, Steps, WorkerMoves, VerdictWorker, OwnVerdictEnough, VerdictRequest, VerdictOther

\* Whatever the interleaving of the worker's saves with those of any number of refresh
\* requests, and whatever crashes: a final status in a record, and the result that decides
\* on the deployment, is what Tekton has said of the finished run.
THEOREM TektonDecidesHolds == Spec => []TektonDecides
  <1>1. VerdictInv => TektonDecides
    BY DEF VerdictInv, TektonDecides, Honest, Verdicts
  <1> QED
    BY <1>1, VerdictInit, VerdictStep, PlaceCorrect, PTL DEF Spec

-----------------------------------------------------------------------------
(* What the deploy service is told. *)

\* Which records are completed.
LEMMA CompletedFacts ==
    ASSUME NEW d \in Record
    PROVE  /\ IsCompleted(Failed(d, "backend_tracking_failed"))
           /\ ~ TriggerFailed(Failed(d, "backend_tracking_failed"))
           /\ ~ IsCompleted(Failed(d, "backend_tracking_lost"))
           /\ ~ TriggerFailed(Failed(d, "backend_tracking_lost"))
           /\ ~ IsCompleted(Running(d)) /\ ~ TriggerFailed(Running(d))
           /\ IsCompleted(WithRun(d)) <=> IsCompleted(d)
           /\ TriggerFailed(WithRun(d)) <=> TriggerFailed(d)
           /\ TriggerFailed(d) => IsCompleted(d)
           /\ \A s \in Outcomes : IsCompleted(Completed(d, s)) /\ ~ TriggerFailed(Completed(d, s))
  <1>1. /\ {"backend_tracking_failed", "backend_trigger_failed"} \subseteq Terminal
        /\ "backend_tracking_lost" \notin Terminal /\ "running" \notin Terminal
        /\ Outcomes \subseteq Terminal /\ "backend_trigger_failed" \notin Outcomes
    BY BuildOutcomes DEF Terminal, BackendTerminal
  <1>2. /\ Failed(d, "backend_tracking_failed").status = "backend_tracking_failed"
        /\ Failed(d, "backend_tracking_lost").status = "backend_tracking_lost"
        /\ \A s \in Outcomes : Completed(d, s).status = s
    BY StampFields
  <1>3. Running(d).status = "running" /\ WithRun(d).status = d.status
    BY RecordFields
  <1> QED
    BY <1>1, <1>2, <1>3 DEF IsCompleted, TriggerFailed

LEMMA OutcomeInit == Init => OutcomeInv
    BY DEF Init, OutcomeInv, WorkerOutcome, Resting, Answered

LEMMA OutcomeQuiet ==
    ASSUME TypeOK, OutcomeInv, NEW b \in Builds, QuietStep(b)
    PROVE  WorkerOutcome(b)'
  <1> DEFINE d == worker[b].mem
  <1>d. d \in Record /\ verdict[b] \in Outcomes
    BY Fields
  <1>w. WorkerOutcome(b)
    BY DEF OutcomeInv
  <1>e. ASSUME NEW e, NEW s, NEW u, Saving(b, e, s, u),
               s # "noEvent", s \in Results => IsCompleted(e),
               s \in {"find", "monitor"} => ~ IsCompleted(e), u = "find" => ~ IsCompleted(e),
               s = "lost" \/ u = "lost" => IsCompleted(e),
               u \in Results => u = "error", ~ TriggerFailed(e)
        PROVE  WorkerOutcome(b)'
    BY <1>e, SavingAt DEF WorkerOutcome
  <1>x. Return(b, "error") => WorkerOutcome(b)'
    BY ReturnAt DEF WorkerOutcome
  <1> HIDE DEF d
  <1>c. /\ IsCompleted(Failed(d, "backend_tracking_failed"))
        /\ ~ TriggerFailed(Failed(d, "backend_tracking_failed"))
        /\ ~ IsCompleted(Failed(d, "backend_tracking_lost"))
        /\ ~ TriggerFailed(Failed(d, "backend_tracking_lost"))
        /\ ~ IsCompleted(Running(d)) /\ ~ TriggerFailed(Running(d))
        /\ IsCompleted(WithRun(d)) <=> IsCompleted(d)
        /\ TriggerFailed(WithRun(d)) <=> TriggerFailed(d)
        /\ TriggerFailed(d) => IsCompleted(d)
        /\ IsCompleted(Completed(d, verdict[b])) /\ ~ TriggerFailed(Completed(d, verdict[b]))
    BY <1>d, CompletedFacts
  <1>r. {"failed", "error"} \subseteq Results /\ Outcomes \subseteq Results
        /\ {"find", "lost", "monitor"} \cap Results = {}
    BY BuildOutcomes DEF Results
  <1>1. CASE GiveUpEvent(b)
    BY <1>1, <1>c, <1>e, <1>x, <1>r DEF GiveUpEvent, d
  <1>2. CASE Find(b)
    <2>1. ~ IsCompleted(d) /\ ~ TriggerFailed(d)
      BY <1>2, <1>w, <1>c DEF Find, At, WorkerOutcome, d
    <2> QED
      BY <1>2, <2>1, <1>c, <1>e, <1>r DEF Find, d
  <1>3. CASE FindTimeout(b)
    BY <1>3, <1>c, <1>e, <1>r DEF FindTimeout, d
  <1>4. CASE SaveLost(b)
    <2>1. IsCompleted(d) /\ ~ TriggerFailed(d)
      BY <1>4, <1>w DEF SaveLost, At, WorkerOutcome, d
    <2> QED
      BY <1>4, <2>1, <1>e, <1>r DEF SaveLost, d
  <1>5. CASE CheckBuildStatus(b)
    <2>1. verdict[b] \notin {"noEvent", "find", "monitor", "lost"}
      BY <1>d, BuildOutcomes
    <2> QED
      BY <1>5, <2>1, <1>d, <1>c, <1>e, <1>r DEF CheckBuildStatus, Complete, d
  <1>6. CASE MonitorTimeout(b)
    BY <1>6, <1>c, <1>e, <1>x, <1>r DEF MonitorTimeout, d
  <1> QED
    BY <1>1, <1>2, <1>3, <1>4, <1>5, <1>6 DEF QuietStep

LEMMA OutcomeWorker ==
    ASSUME TypeOK, PlaceInv, OutcomeInv, NEW b \in Builds, AnyWorkerStep(b)
    PROVE  OutcomeInv'
  <1>1. WorkerMove(b)
    BY WorkerMoves
  <1>2. WorkerOutcome(b)'
    <2>1. CASE Load(b)
      BY <2>1, LoadAt, ReturnAt DEF WorkerOutcome
    <2>2. CASE Trigger(b)
      <3>1. /\ ~ IsCompleted(WithEvent(NewRecord)) /\ ~ TriggerFailed(WithEvent(NewRecord))
            /\ IsCompleted(Failed(NewRecord, "backend_trigger_failed"))
        BY TriggerFields, BuildOutcomes DEF IsCompleted, TriggerFailed, Terminal, BackendTerminal
      <3>2. CASE Saving(b, WithEvent(NewRecord), "find", "noEvent")
        BY <3>1, <3>2, SavingAt DEF WorkerOutcome, Results
      <3>3. CASE Saving(b, Failed(NewRecord, "backend_trigger_failed"), "failed", "error")
        BY <3>1, <3>3, SavingAt DEF WorkerOutcome, Results
      <3> QED
        BY <2>2, <3>2, <3>3, TriggerAt
    <2>3. CASE WorkerSave(b)
      <3>1. WorkerOutcome(b) /\ worker[b].pc = "save"
        BY <2>3, SaveAt DEF OutcomeInv
      <3>2. worker[b].saved \in After /\ worker[b].unsaved \in After
        BY <3>1 DEF PlaceInv
      <3>3. DbFails => dbErrors' > 0
        BY DEF DbFails, TypeOK
      <3>4. CASE worker'[b].pc \in Results
        BY <3>4 DEF WorkerOutcome, Results
      <3>5. CASE worker'[b].pc \notin Results
        BY <2>3, <3>1, <3>2, <3>3, <3>5, SaveAt DEF WorkerOutcome, After, Results
      <3> QED
        BY <3>4, <3>5
    <2>4. CASE QuietStep(b)
      BY <2>4, OutcomeQuiet
    <2> QED
      BY <2>1, <2>2, <2>3, <2>4 DEF AnyWorkerStep
  <1>3. \A k \in Builds \ {b} : WorkerOutcome(k)'
    BY <1>1 DEF WorkerMove, OutcomeInv, WorkerOutcome, TypeOK
  <1> QED
    BY <1>1, <1>2, <1>3 DEF OutcomeInv, WorkerMove

\* A refresh never saves that the trigger has failed.
LEMMA AskedNoTrigger ==
    ASSUME TypeOK, NEW b \in Builds, NEW d \in Record, NEW e, AskedFor(d, b, e)
    PROVE  ~ TriggerFailed(e)
  <1>1. WithRun(d) \in Record
    BY RecordTyped, StatusFacts
  <1>2. Answers(b) \subseteq Outcomes
    BY BuildOutcomes DEF Answers, TypeOK
  <1> QED
    BY <1>1, <1>2, CompletedFacts DEF AskedFor

LEMMA OutcomeRequest ==
    ASSUME TypeOK, PlaceInv, OutcomeInv, NEW r \in Requests, RequestStep(r)
    PROVE  OutcomeInv'
  <1>1. /\ worker' = worker /\ dbErrors' \in Nat /\ dbErrors' >= dbErrors
        /\ \A q \in Requests \ {r} : request'[q] = request[q]
    BY RequestMoves DEF RequestMove
  <1>a. Answered.pc = "idle"
    BY DEF Answered
  <1>2. /\ request'[r].pc = "query" => ~ IsCompleted(request'[r].d)
        /\ request'[r].pc = "save" => ~ TriggerFailed(request'[r].d)
    <2>1. ASSUME NEW b \in Builds, ReadBuild(r, b)
          PROVE  /\ request'[r].pc = "query" => ~ IsCompleted(request'[r].d)
                 /\ request'[r].pc = "save" => ~ TriggerFailed(request'[r].d)
      BY <2>1, ReadAt, Fields, CompletedFacts DEF ReadAs
    <2>2. CASE QueryBuild(r) \/ KubeUnreachable(r)
      BY <2>2, <1>a, QueryAt, Fields, AskedNoTrigger
    <2>3. CASE RefreshSave(r)
      BY <2>3, <1>a, RefreshSaveAt
    <2> QED
      BY <2>1, <2>2, <2>3 DEF RequestStep
  <1>3. \A b \in Builds : WorkerOutcome(b)'
    BY <1>1 DEF OutcomeInv, WorkerOutcome, TypeOK
  <1> QED
    BY <1>1, <1>2, <1>3 DEF OutcomeInv

LEMMA OutcomeOther ==
    ASSUME TypeOK, OutcomeInv, OrchStep \/ InsertFails \/ Elsewhere \/ Crash
    PROVE  OutcomeInv'
  <1>1. /\ \A b \in Builds : \/ worker'[b] = worker[b]
                             \/ worker'[b] \in {Resting("load"), Resting("failed"), Resting("dead")}
        /\ \A r \in Requests : request'[r] = request[r] \/ request'[r].pc = "idle"
        /\ dbErrors' \in Nat /\ dbErrors' >= dbErrors
    <2>1. ASSUME NEW b \in Builds, Insert(b) PROVE <1>1!1 /\ <1>1!2 /\ dbErrors' = dbErrors
      BY <2>1 DEF Insert, TypeOK
    <2>2. ASSUME NEW b \in Builds, CleanUp(b)
          PROVE  <1>1!1 /\ <1>1!2 /\ dbErrors' \in {dbErrors, dbErrors + 1}
      BY <2>2 DEF CleanUp, Return, DbFails, TypeOK
    <2>3. CASE BuildAndWaitReturns \/ InsertFails
      BY <2>3 DEF BuildAndWaitReturns, InsertFails, DbFails, TypeOK
    <2>4. ASSUME NEW b \in Builds, AgeBuild(b) \/ PipelineRuns(b) \/ PipelineDeleted(b)
          PROVE  UNCHANGED <<worker, request, dbErrors>>
      BY <2>4 DEF AgeBuild, PipelineRuns, PipelineDeleted
    <2>5. CASE Crash
      BY <2>5 DEF Crash, Answered, TypeOK
    <2> QED
      BY <2>1, <2>2, <2>3, <2>4, <2>5 DEF OrchStep, Elsewhere, TypeOK
  <1>2. \A b \in Builds : WorkerOutcome(b)'
    BY <1>1 DEF OutcomeInv, WorkerOutcome, Resting, TypeOK
  <1> QED
    BY <1>1, <1>2 DEF OutcomeInv

LEMMA OutcomeStep == TypeOK /\ PlaceInv /\ OutcomeInv /\ [Next]_vars => OutcomeInv'
  <1> SUFFICES ASSUME TypeOK, PlaceInv, OutcomeInv, [Next]_vars PROVE OutcomeInv'
    OBVIOUS
  <1>1. CASE UNCHANGED vars
    BY <1>1 DEF vars, OutcomeInv, WorkerOutcome
  <1> QED
    BY <1>1, Steps, OutcomeWorker, OutcomeRequest, OutcomeOther

LEMMA OutcomeCorrect == Spec => [](TypeOK /\ PlaceInv /\ OutcomeInv)
    BY OutcomeInit, OutcomeStep, PlaceCorrect, PTL DEF Spec

-----------------------------------------------------------------------------
(* Refinement. *)

Told(b) == IF ~ Returned(b) THEN "pending"
           ELSE IF worker[b].pc \in {"success", "skipped"} THEN "ok" ELSE "failed"

records == [b \in Builds |-> Coarse(b)]
results == [b \in Builds |-> Told(b)]

\* A step as BuildOutcome sees it, told build by build: which of its actions it is.
Unseen(b) == Coarse(b)' = Coarse(b) /\ Told(b)' = Told(b)

Seen(b) ==
    \/ Unseen(b)
    \/ /\ Coarse(b) = "none" /\ Coarse(b)' = "active"
       /\ Told(b)' = Told(b) /\ dbErrors' = dbErrors
    \/ /\ Coarse(b) # "none" /\ Coarse(b)' \in {"active", "ended"}
       /\ Told(b)' = Told(b) /\ dbErrors' = dbErrors
    \/ /\ dbErrors > 0 /\ Coarse(b) # "none" /\ Told(b) = "pending"
       /\ Coarse(b)' \in {Coarse(b), "triggerFailed"} /\ Told(b)' = "failed"
    \/ /\ Coarse(b) # "none" /\ Told(b) = "pending" /\ Told(b)' \in {"ok", "failed"}
       /\ \/ Coarse(b)' = "ended"
          \/ Told(b)' = "failed" /\ Coarse(b)' = "triggerFailed"
          \/ Told(b)' = "failed" /\ dbErrors' > 0 /\ Coarse(b)' = Coarse(b)

LEMMA UnseenImplements ==
    ASSUME TypeOK, dbErrors' \in Nat, dbErrors' >= dbErrors, \A k \in Builds : Unseen(k)
    PROVE  [Outcome!Next]_(Outcome!bvars)
  <1>1. records' = records /\ results' = results
    BY DEF Unseen, records, results
  <1>2. (dbErrors > 0)' <=> (dbErrors > 0) \/ dbErrors' > 0
    BY DEF TypeOK
  <1>3. CASE (dbErrors > 0)' <=> (dbErrors > 0)
    BY <1>1, <1>3 DEF Outcome!bvars, records, results, Told
  <1>4. CASE dbErrors' > 0
    BY <1>1, <1>4 DEF Outcome!Next, Outcome!Trouble, records, results, Told
  <1> QED
    BY <1>2, <1>3, <1>4

LEMMA SeenImplements ==
    ASSUME TypeOK, dbErrors' \in Nat, dbErrors' >= dbErrors,
           NEW b \in Builds, Seen(b), \A k \in Builds \ {b} : Unseen(k)
    PROVE  [Outcome!Next]_(Outcome!bvars)
  <1>r. records' = [records EXCEPT ![b] = Coarse(b)'] /\ records[b] = Coarse(b)
    BY DEF Unseen, records
  <1>s. results' = [results EXCEPT ![b] = Told(b)'] /\ results[b] = Told(b)
    BY DEF Unseen, results
  <1>u. dbErrors > 0 => (dbErrors > 0)'
    BY DEF TypeOK
  <1>v. (dbErrors > 0)' = (dbErrors > 0) \/ (dbErrors > 0)' = TRUE
    BY <1>u
  <1>t. (dbErrors > 0)' \in {dbErrors > 0, TRUE}
    BY <1>v, Zenon
  <1>o. ASSUME Told(b)' = Told(b) PROVE results' = results
    BY <1>s, <1>o DEF results
  <1>q. ASSUME Coarse(b)' = Coarse(b) PROVE records' = records
    BY <1>r, <1>q DEF records
  <1>1. CASE Unseen(b)
    BY <1>1, UnseenImplements
  <1>2. CASE /\ Coarse(b) = "none" /\ Coarse(b)' = "active"
             /\ Told(b)' = Told(b) /\ dbErrors' = dbErrors
    <2>1. Outcome!Insert(b)
      BY <1>2, <1>r, <1>o DEF Outcome!Insert, records, results, Told
    <2> QED
      BY <2>1 DEF Outcome!Next
  <1>3. CASE /\ Coarse(b) # "none" /\ Coarse(b)' \in {"active", "ended"}
             /\ Told(b)' = Told(b) /\ dbErrors' = dbErrors
    <2>1. Outcome!Observe(b)
      BY <1>3, <1>r, <1>o DEF Outcome!Observe, records, results, Told
    <2> QED
      BY <2>1 DEF Outcome!Next
  <1>4. CASE /\ dbErrors > 0 /\ Coarse(b) # "none" /\ Told(b) = "pending"
             /\ Coarse(b)' \in {Coarse(b), "triggerFailed"} /\ Told(b)' = "failed"
    <2>1. records' \in {records, [records EXCEPT ![b] = "triggerFailed"]}
      BY <1>4, <1>r, <1>q
    <2>2. Outcome!CleanUp(b)
      BY <1>4, <2>1, <1>r, <1>s, <1>t DEF Outcome!CleanUp, Outcome!Fails, records, results, Told
    <2> QED
      BY <2>2 DEF Outcome!Next
  <1>5. CASE /\ Coarse(b) # "none" /\ Told(b) = "pending" /\ Told(b)' \in {"ok", "failed"}
             /\ \/ Coarse(b)' = "ended"
                \/ Told(b)' = "failed" /\ Coarse(b)' = "triggerFailed"
                \/ Told(b)' = "failed" /\ dbErrors' > 0 /\ Coarse(b)' = Coarse(b)
    <2>1. Outcome!End(b)
      BY <1>5, <1>r, <1>s, <1>t, <1>q DEF Outcome!End, Outcome!Fails, records, results, Told
    <2> QED
      BY <2>1 DEF Outcome!Next
  <1> QED
    BY <1>1, <1>2, <1>3, <1>4, <1>5 DEF Seen

LEMMA RefineInit == Init => Outcome!Init
    BY DEF Init, Outcome!Init, Coarse, Returned, Resting, Results

\* A worker that returns an error without having saved has met with one.
LEMMA QuietError ==
    ASSUME TypeOK, OutcomeInv, NEW b \in Builds, QuietStep(b), worker'[b].pc = "error"
    PROVE  dbErrors > 0
  <1>w. WorkerOutcome(b)
    BY DEF OutcomeInv
  <1>1. \A d, s, u : ~ Saving(b, d, s, u)
    BY SavingAt
  <1>2. CASE GiveUpEvent(b)
    BY <1>2, <1>w DEF GiveUpEvent, At, WorkerOutcome
  <1>3. CASE MonitorTimeout(b)
    <2>1. ~ CanFail(worker[b].mem, "backend_tracking_failed")
      BY <1>1, <1>3 DEF MonitorTimeout
    <2> QED
      BY <1>3, <1>w, <2>1 DEF MonitorTimeout, At, CanFail, WorkerOutcome
  <1> QED
    BY <1>1, <1>2, <1>3
    DEF QuietStep, Find, FindTimeout, SaveLost, CheckBuildStatus, Complete

LEMMA RefineWorker ==
    ASSUME TypeOK, PlaceInv, OutcomeInv, NEW b \in Builds, AnyWorkerStep(b)
    PROVE  [Outcome!Next]_(Outcome!bvars)
  <1>1. WorkerMove(b)
    BY WorkerMoves
  <1>2. \A k \in Builds \ {b} : Unseen(k)
    BY <1>1 DEF WorkerMove, Unseen, Coarse, Told, Returned
  <1>3. b \in inserted /\ inserted' = inserted /\ Told(b) = "pending" /\ Coarse(b) # "none"
    BY <1>1 DEF WorkerMove, Coarse, Told, Returned, Moving, Results
  <1>4. Seen(b)
    <2>e. ASSUME worker'[b].pc = "error", row'[b] = row[b], dbErrors' > 0 PROVE Seen(b)
      BY <1>3, <2>e DEF Seen, Told, Coarse, Returned, Results
    <2>u. ASSUME worker'[b].pc \notin Results, row'[b] = row[b] PROVE Seen(b)
      BY <1>3, <2>u DEF Seen, Unseen, Told, Coarse, Returned
    <2>f. DbFails => dbErrors' > 0
      BY DEF DbFails, TypeOK
    <2>1. CASE Load(b)
      BY <2>1, <2>e, <2>u, <2>f, LoadAt, ReturnAt DEF Results
    <2>2. CASE Trigger(b)
      BY <2>2, <2>u, TriggerAt, SavingAt DEF Results
    <2>3. CASE WorkerSave(b)
      <3>1. WorkerOutcome(b) /\ worker[b].pc = "save"
        BY <2>3, SaveAt DEF OutcomeInv
      <3>2. worker[b].saved \in After /\ worker[b].unsaved \in After
        BY <3>1 DEF PlaceInv
      <3>3. CASE row'[b] = worker[b].mem /\ worker'[b].pc = worker[b].saved /\ dbErrors' = dbErrors
        <4>1. Coarse(b)' = IF TriggerFailed(worker[b].mem) THEN "triggerFailed"
                           ELSE IF IsCompleted(worker[b].mem) THEN "ended" ELSE "active"
          BY <1>3, <3>3 DEF Coarse, TriggerFailed, IsCompleted
        <4>2. CASE worker[b].saved \in Results
          BY <1>3, <3>1, <3>3, <4>1, <4>2 DEF Seen, WorkerOutcome, Told, Returned
        <4>3. CASE worker[b].saved \notin Results
          <5>1. ~ TriggerFailed(worker[b].mem) /\ Told(b)' = Told(b)
            BY <1>3, <3>1, <3>3, <4>3 DEF WorkerOutcome, Told, Returned, Results
          <5> QED
            BY <1>3, <3>3, <4>1, <5>1 DEF Seen
        <4> QED
          BY <4>2, <4>3
      <3>4. CASE row' = row /\ worker'[b].pc = worker[b].unsaved /\ DbFails
        BY <2>e, <2>f, <2>u, <3>1, <3>4 DEF WorkerOutcome
      <3> QED
        BY <2>3, <3>3, <3>4, SaveAt
    <2>4. CASE QuietStep(b)
      BY <2>4, <2>e, <2>u, QuietAt, QuietError DEF Results
    <2> QED
      BY <2>1, <2>2, <2>3, <2>4 DEF AnyWorkerStep
  <1> QED
    BY <1>1, <1>2, <1>4, SeenImplements DEF WorkerMove

LEMMA RefineRequest ==
    ASSUME TypeOK, PlaceInv, OutcomeInv, NEW r \in Requests, RequestStep(r)
    PROVE  [Outcome!Next]_(Outcome!bvars)
  <1>1. /\ worker' = worker /\ inserted' = inserted
        /\ dbErrors' \in Nat /\ dbErrors' >= dbErrors
    BY RequestMoves DEF RequestMove
  <1>2. ASSUME row' = row PROVE \A k \in Builds : Unseen(k)
    BY <1>1, <1>2 DEF Unseen, Coarse, Told, Returned
  <1>3. CASE RefreshSave(r)
    <2>0. PICK b \in Builds : b = request[r].build
      BY Fields
    <2>1. b \in inserted /\ ~ TriggerFailed(request[r].d)
      BY <1>3, <2>0, RefreshSaveAt DEF PlaceInv, Fresh, OutcomeInv
    <2>2. CASE /\ row'[b] = request[r].d /\ dbErrors' = dbErrors
               /\ \A k \in Builds \ {b} : row'[k] = row[k]
      <3>1. \A k \in Builds \ {b} : Unseen(k)
        BY <1>1, <2>2 DEF Unseen, Coarse, Told, Returned
      <3>2. Coarse(b) # "none" /\ Coarse(b)' \in {"active", "ended"} /\ Told(b)' = Told(b)
        BY <1>1, <2>1, <2>2 DEF Coarse, TriggerFailed, Told, Returned
      <3> QED
        BY <1>1, <2>1, <2>2, <3>1, <3>2, SeenImplements DEF Seen
    <2>3. CASE row' = row
      BY <1>1, <1>2, <2>3, UnseenImplements
    <2> QED
      BY <1>3, <2>0, <2>2, <2>3, RefreshSaveAt
  <1>4. ASSUME NEW b \in Builds, ReadBuild(r, b) PROVE row' = row
    BY <1>4, ReadAt
  <1>5. CASE QueryBuild(r) \/ KubeUnreachable(r)
    BY <1>1, <1>2, <1>5, QueryAt, UnseenImplements
  <1> QED
    BY <1>1, <1>2, <1>3, <1>4, <1>5, UnseenImplements DEF RequestStep

LEMMA RefineOther ==
    ASSUME TypeOK, PlaceInv, OrchStep \/ InsertFails \/ Elsewhere \/ Crash
    PROVE  [Outcome!Next]_(Outcome!bvars)
  <1>n. dbErrors \in Nat /\ (DbFails => dbErrors' \in Nat /\ dbErrors' >= dbErrors) /\ dbErrors >= dbErrors
    BY DEF TypeOK, DbFails
  <1>1. ASSUME NEW b \in Builds, Insert(b) PROVE [Outcome!Next]_(Outcome!bvars)
    <2>1. \A k \in Builds : Told(k) = "pending" /\ Told(k)' = "pending"
      BY <1>1 DEF Insert, PlaceInv, Told, Returned, Results, Resting
    <2>2. Coarse(b) = "none" /\ Coarse(b)' = "active"
      <3>1. row'[b] = NewRecord /\ b \in inserted' /\ b \notin inserted
        BY <1>1 DEF Insert, PlaceInv, Fresh
      <3> QED
        BY <3>1, NewRecordFields DEF Coarse, IsCompleted
    <2>3. \A k \in Builds \ {b} : Coarse(k)' = Coarse(k)
      BY <1>1 DEF Insert, Coarse
    <2>4. Seen(b) /\ \A k \in Builds \ {b} : Unseen(k)
      BY <1>1, <2>1, <2>2, <2>3 DEF Insert, Seen, Unseen
    <2> QED
      BY <1>1, <1>n, <2>4, SeenImplements DEF Insert
  <1>2. ASSUME NEW b \in Builds, CleanUp(b) PROVE [Outcome!Next]_(Outcome!bvars)
    <2>1. /\ worker'[b].pc = "failed" /\ \A k \in Builds \ {b} : worker'[k] = worker[k]
      BY <1>2, ReturnAt DEF CleanUp
    <2>2. /\ \A k \in Builds \ {b} : row'[k] = row[k]
          /\ row'[b] \in {row[b], Failed(NewRecord, "backend_trigger_failed")}
          /\ b \in inserted /\ ~ Returned(b) /\ inserted' = inserted
          /\ dbErrors' \in Nat /\ dbErrors' >= dbErrors /\ dbErrors > 0
      BY <1>2, <1>n DEF CleanUp, PlaceInv, TypeOK
    <2>3. \A k \in Builds \ {b} : Unseen(k)
      BY <2>1, <2>2 DEF Unseen, Coarse, Told, Returned
    <2>4. Told(b) = "pending" /\ Told(b)' = "failed"
      BY <2>1, <2>2 DEF Told, Returned, Results
    <2>5. Coarse(b) # "none" /\ Coarse(b)' \in {Coarse(b), "triggerFailed"}
      BY <2>2, TriggerFields DEF Coarse, IsCompleted
    <2> QED
      BY <2>2, <2>3, <2>4, <2>5, SeenImplements DEF Seen
  <1>3. CASE BuildAndWaitReturns \/ InsertFails
    <2>1. \A k \in Builds : Unseen(k)
      BY <1>3 DEF BuildAndWaitReturns, InsertFails, Unseen, Coarse, Told, Returned
    <2> QED
      BY <1>3, <1>n, <2>1, UnseenImplements DEF BuildAndWaitReturns, InsertFails
  <1>4. ASSUME NEW b \in Builds, AgeBuild(b) \/ PipelineRuns(b) \/ PipelineDeleted(b)
        PROVE  [Outcome!Next]_(Outcome!bvars)
    <2>1. UNCHANGED <<inserted, row, worker, dbErrors>>
      BY <1>4 DEF AgeBuild, PipelineRuns, PipelineDeleted
    <2>2. \A k \in Builds : Unseen(k)
      BY <2>1 DEF Unseen, Coarse, Told, Returned
    <2> QED
      BY <1>n, <2>1, <2>2, UnseenImplements
  <1>5. CASE Crash
    <2>1. \A k \in Builds : Unseen(k)
      BY <1>5 DEF Crash, Unseen, Coarse, Told, Returned, Results, Resting
    <2> QED
      BY <1>5, <1>n, <2>1, UnseenImplements DEF Crash
  <1> QED
    BY <1>1, <1>2, <1>3, <1>4, <1>5 DEF OrchStep, Elsewhere

LEMMA RefineStep ==
    TypeOK /\ PlaceInv /\ OutcomeInv /\ [Next]_vars => [Outcome!Next]_(Outcome!bvars)
  <1> SUFFICES ASSUME TypeOK, PlaceInv, OutcomeInv, [Next]_vars
               PROVE  [Outcome!Next]_(Outcome!bvars)
    OBVIOUS
  <1>1. CASE UNCHANGED vars
    <2>1. dbErrors' \in Nat /\ dbErrors' >= dbErrors /\ \A k \in Builds : Unseen(k)
      BY <1>1 DEF vars, TypeOK, Unseen, Coarse, Told, Returned
    <2> QED
      BY <2>1, UnseenImplements
  <1> QED
    BY <1>1, Steps, RefineWorker, RefineRequest, RefineOther

\* The records and results that a run's builds leave, whatever fails and whoever refreshes
\* them meanwhile, are those ProjectOps counts on: a result "ok" is backed by an ended
\* record, and a failed result that leaves its record active by an error of the database.
THEOREM ImplementsOutcomeHolds == Spec => ImplementsOutcome
    BY RefineInit, RefineStep, OutcomeCorrect, PTL DEF Spec, ImplementsOutcome, Outcome!Spec
=============================================================================
