------------------------------ MODULE Builder ------------------------------
(***************************************************************************)
(* The builds of one run in detail: BuildAndWait inserts a BUILD_HISTORY   *)
(* record for every container and starts a worker for each                 *)
(* (domain/service/build/orchestrator_impl.go); a worker triggers a Tekton *)
(* pipeline run, looks it up by its event id and follows it                *)
(* (builder_impl.go); refresh requests follow the same records on their    *)
(* own (refreshBuildHistoryStatus, deployer_status.go).                    *)
(*                                                                         *)
(* Nothing here runs in a transaction or under a row lock.  A worker loads *)
(* its record once and saves the whole row from memory ever after; a       *)
(* request loads the row, asks Kubernetes and saves the whole row.         *)
(***************************************************************************)
EXTENDS StatusRecord, Naturals, FiniteSets

CONSTANTS
    Builds,        \* the containers that are built
    Requests,      \* concurrent refresh requests
    Unreachable,   \* the workers and requests that may find Kubernetes unreachable
    MaxCrashes, MaxDbErrors

ASSUME BuildOutcomes == Outcomes = {"success", "skipped", "failed", "cancelled"}
\* A run without containers has nothing to build and does not come here.
ASSUME BuildsAssumption == Builds # {}
ASSUME BuilderBounds == MaxCrashes \in Nat /\ MaxDbErrors \in Nat
ASSUME UnreachableAssumption == Unreachable \subseteq Builds \cup Requests

VARIABLES
    orch,       \* where BuildAndWait is
    inserted,   \* the builds that have a record
    row,        \* the rows of BUILD_HISTORY
    aged,       \* builds whose record is older than five minutes
    worker,     \* the goroutine of each build
    request,    \* the refresh requests
    pipeline,   \* Tekton's side: each build's pipeline run ...
    verdict,    \* ... and what it comes to, as its reason and results tell
    crashes, dbErrors

vars == <<orch, inserted, row, aged, worker, request, pipeline, verdict, crashes, dbErrors>>
tekton == <<pipeline, verdict>>

-----------------------------------------------------------------------------
\* What BuildContainer returns: a status, or an error without a result, which
\* BuildAndWait counts as failed.
Results == {"success", "skipped", "failed", "cancelled", "error"}

Places == {"none", "load", "trigger", "noEvent", "find", "lost", "monitor", "save", "dead"}

Worker == [pc : Places \cup Results, mem : Record,
           saved : Places \cup Results, unsaved : Places \cup Results]

Request == [pc : {"idle", "query", "save"}, build : Builds, d : Record]

TypeOK ==
    /\ orch \in {"create", "cleanup", "building", "over", "dead"}
    /\ inserted \subseteq Builds /\ aged \subseteq inserted
    /\ row \in [Builds -> Record]
    /\ worker \in [Builds -> Worker]
    /\ request \in [Requests -> Request]
    /\ pipeline \in [Builds -> {"absent", "starting", "running", "ended", "gone"}]
    /\ verdict \in [Builds -> Outcomes]
    /\ crashes \in Nat /\ dbErrors \in Nat

Resting(place) == [pc |-> place, mem |-> NewRecord, saved |-> "none", unsaved |-> "none"]
Answered == [pc |-> "idle", build |-> CHOOSE b \in Builds : TRUE, d |-> NewRecord]

Init ==
    /\ orch = "create"
    /\ inserted = {} /\ aged = {}
    /\ row = [b \in Builds |-> NewRecord]
    /\ worker = [b \in Builds |-> Resting("none")]
    /\ request = [r \in Requests |-> Answered]
    /\ pipeline = [b \in Builds |-> "absent"]
    /\ verdict \in [Builds -> Outcomes]
    /\ crashes = 0 /\ dbErrors = 0

At(b, place) == worker[b].pc = place

Returned(b) == worker[b].pc \in Results

\* The worker goes on to another place with its record ...
Goto(b, place) == worker' = [worker EXCEPT ![b].pc = place]

\* ... returns ...
Return(b, res) == worker' = [worker EXCEPT ![b] = Resting(res)]

\* ... or is about to save d; then it goes on or returns.
Saving(b, d, saved, unsaved) ==
    worker' = [worker EXCEPT ![b] =
                 [pc |-> "save", mem |-> d, saved |-> saved, unsaved |-> unsaved]]

DbFails ==
    /\ dbErrors < MaxDbErrors
    /\ dbErrors' = dbErrors + 1

-----------------------------------------------------------------------------
(* BuildAndWait. *)

\* createBuildHistories: one INSERT after the other; then the workers start.
Insert(b) ==
    /\ orch = "create" /\ b \notin inserted
    /\ inserted' = inserted \cup {b}
    /\ IF inserted' = Builds
       THEN orch' = "building" /\ worker' = [k \in Builds |-> Resting("load")]
       ELSE UNCHANGED <<orch, worker>>
    /\ UNCHANGED <<row, aged, request, tekton, crashes, dbErrors>>

InsertFails ==
    /\ orch = "create"
    /\ DbFails
    /\ orch' = "cleanup"
    /\ UNCHANGED <<inserted, row, aged, worker, request, tekton, crashes>>

\* cleanupBuildHistories: the records created before the failure are marked, a
\* failing UPDATE is skipped.
CleanUp(b) ==
    /\ orch = "cleanup" /\ b \in inserted /\ ~ Returned(b)
    /\ \/ /\ row' = [row EXCEPT ![b] = Failed(NewRecord, "backend_trigger_failed")]
          /\ UNCHANGED dbErrors
       \/ /\ DbFails
          /\ UNCHANGED row
    /\ Return(b, "failed")
    /\ UNCHANGED <<orch, inserted, aged, request, tekton, crashes>>

\* Every worker has returned; the project leaves the status 'building'.
BuildAndWaitReturns ==
    /\ orch \in {"building", "cleanup"}
    /\ \A b \in inserted : Returned(b)
    /\ orch' = "over"
    /\ UNCHANGED <<inserted, row, aged, worker, request, tekton, crashes, dbErrors>>

-----------------------------------------------------------------------------
(* BuildContainer. *)

Load(b) ==
    /\ At(b, "load")
    /\ \/ /\ worker' = [worker EXCEPT ![b] = [Resting("trigger") EXCEPT !.mem = row[b]]]
          /\ UNCHANGED dbErrors
       \/ /\ DbFails
          /\ Return(b, "error")
    /\ UNCHANGED <<orch, inserted, row, aged, request, tekton, crashes>>

\* The request to Tekton: the run it starts, and whether its event id is learnt.  An error
\* does not say whether Tekton has accepted the request.
TriggerBuild(b) ==
    LET started == [pipeline EXCEPT ![b] = "starting"]
    IN  {[known |-> TRUE, pipeline |-> started]}
          \cup [known : {FALSE}, pipeline : {started, pipeline}]

\* prepareBuildRequest and the trigger.
Trigger(b) ==
    LET d == worker[b].mem
    IN  /\ At(b, "trigger")
        /\ \E answer \in TriggerBuild(b) :
             /\ pipeline' = answer.pipeline
             /\ CASE answer.known -> Saving(b, WithEvent(d), "find", "noEvent")
                  [] ~answer.known /\ CanFail(d, "backend_trigger_failed") ->
                       Saving(b, Failed(d, "backend_trigger_failed"), "failed", "error")
                  [] OTHER -> Return(b, "error")
        /\ UNCHANGED <<orch, inserted, row, aged, request, verdict, crashes, dbErrors>>

\* buildHistoryRepo.Save: the whole row from memory, or an error.
WorkerSave(b) ==
    LET w == worker[b]
        To(place) == IF place \in Results THEN Return(b, place)
                     ELSE worker' = [worker EXCEPT ![b] = [Resting(place) EXCEPT !.mem = w.mem]]
    IN  /\ At(b, "save")
        /\ \/ /\ row' = [row EXCEPT ![b] = w.mem]
              /\ To(w.saved)
              /\ UNCHANGED dbErrors
           \/ /\ DbFails
              /\ To(w.unsaved)
              /\ UNCHANGED row
        /\ UNCHANGED <<orch, inserted, aged, request, tekton, crashes>>

\* The event id could not be saved: the build cannot be tracked.
GiveUpEvent(b) ==
    LET d == worker[b].mem
    IN  /\ At(b, "noEvent")
        /\ IF CanFail(d, "backend_tracking_failed")
           THEN Saving(b, Failed(d, "backend_tracking_failed"), "failed", "error")
           ELSE Return(b, "error")
        /\ UNCHANGED <<orch, inserted, row, aged, request, tekton, crashes, dbErrors>>

Found(b) == pipeline[b] \in {"running", "ended"}

\* A tick of findPipelineRunWithRetry: found, not found yet, or Kubernetes cannot
\* be reached.  (A failing save of the run's name or of tracking_lost is tolerated.)
Find(b) ==
    LET d == worker[b].mem
    IN  /\ At(b, "find")
        /\ \/ Found(b) /\ Saving(b, WithRun(d), "monitor", "monitor")
           \/ b \in Unreachable /\ CanFail(d, "backend_tracking_lost")
              /\ Saving(b, Failed(d, "backend_tracking_lost"), "find", "find")
        /\ UNCHANGED <<orch, inserted, row, aged, request, tekton, crashes, dbErrors>>

\* Five minutes without a run.  findPipelineRunWithRetry saves the failure ...
FindTimeout(b) ==
    /\ At(b, "find") /\ b \in aged
    /\ Saving(b, Failed(worker[b].mem, "backend_tracking_failed"), "lost", "lost")
    /\ UNCHANGED <<orch, inserted, row, aged, request, tekton, crashes, dbErrors>>

\* ... and BuildContainer saves it once more, whether that succeeded or not.
SaveLost(b) ==
    /\ At(b, "lost")
    /\ Saving(b, worker[b].mem, "failed", "error")
    /\ UNCHANGED <<orch, inserted, row, aged, request, tekton, crashes, dbErrors>>

\* A mutant: the result is returned although it could not be saved.
CompleteUnsaved(b, s) ==
    /\ CanComplete(worker[b].mem, s)
    /\ Saving(b, Completed(worker[b].mem, s), s, s)

\* handleBuildSuccess and handleBuildFailure: saved before it is returned; when the
\* save fails the next tick tries again.
Complete(b, s) ==
    /\ CanComplete(worker[b].mem, s)
    /\ Saving(b, Completed(worker[b].mem, s), s, "monitor")

\* checkBuildStatus.  Only a change is saved; a record that is completed in memory,
\* because a save has failed, stays as it is until the end of the pipeline run.
CheckBuildStatus(b) ==
    LET d == worker[b].mem
    IN  /\ At(b, "monitor")
        /\ \/ /\ pipeline[b] = "gone" /\ CanFail(d, "backend_tracking_failed")
              /\ Saving(b, Failed(d, "backend_tracking_failed"), "failed", "monitor")
           \/ /\ b \in Unreachable /\ CanFail(d, "backend_tracking_lost")
              /\ Saving(b, Failed(d, "backend_tracking_lost"), "monitor", "monitor")
           \/ /\ pipeline[b] = "running" /\ d.status # "running" /\ CanRun(d)
              /\ Saving(b, Running(d), "monitor", "monitor")
           \/ /\ pipeline[b] = "ended"
              /\ Complete(b, verdict[b])
        /\ UNCHANGED <<orch, inserted, row, aged, request, tekton, crashes, dbErrors>>

\* A mutant: the timer is not looked at.
MonitorForEver(b) == At(b, "monitor") /\ b \in aged /\ UNCHANGED vars

\* The monitor gives up after 30 minutes; a record that is already completed in
\* memory is not saved again.
MonitorTimeout(b) ==
    LET d == worker[b].mem
    IN  /\ At(b, "monitor") /\ b \in aged
        /\ IF CanFail(d, "backend_tracking_failed")
           THEN Saving(b, Failed(d, "backend_tracking_failed"), "failed", "error")
           ELSE Return(b, "error")
        /\ UNCHANGED <<orch, inserted, row, aged, request, tekton, crashes, dbErrors>>

-----------------------------------------------------------------------------
(* refreshBuildHistoryStatus, asked for by RefreshActiveBuildStatuses. *)

\* Mutants: the grace period never ends; there is none.
WithinGrace(b) == FALSE
NoGrace(b) == b \in inserted

\* time.Since(createdAt) > 5*time.Minute
PastGrace(b) == b \in aged

Ask(r, b, place, d) == request' = [request EXCEPT ![r] = [pc |-> place, build |-> b, d |-> d]]

\* The latest record of a container is read, while the project is building (a crash
\* leaves it so); a completed one is not refreshed, a young one without an event id
\* is left to its worker.
ReadBuild(r, b) ==
    LET d == row[b]
    IN  /\ orch # "over" /\ b \in inserted
        /\ request[r].pc = "idle" /\ ~ IsCompleted(d)
        /\ \/ (d.run \/ d.event) /\ Ask(r, b, "query", d)
           \/ ~ d.run /\ ~ d.event /\ PastGrace(b)
              /\ Ask(r, b, "save", Failed(d, "backend_tracking_failed"))
        /\ UNCHANGED <<orch, inserted, row, aged, worker, tekton, crashes, dbErrors>>

\* A mutant: a run that has ended has succeeded.
AnswersFinished(b) == {"success"}

\* What updateBuildHistoryFromKubeStatus makes of a finished run: a skipped build is
\* told by the reason here (by the results in the worker).
Answers(b) == IF verdict[b] = "skipped" THEN {"skipped", "success"} ELSE {verdict[b]}

\* The run is looked up, if need be, and asked for its state.
QueryBuild(r) ==
    LET b == request[r].build
        d == request[r].d
    IN  /\ request[r].pc = "query"
        /\ \/ /\ ~ Found(b)
              /\ IF d.run \/ PastGrace(b)
                 THEN Ask(r, b, "save", Failed(d, "backend_tracking_failed"))
                 ELSE request' = [request EXCEPT ![r] = Answered]
           \/ pipeline[b] = "running" /\ Ask(r, b, "save", Running(WithRun(d)))
           \/ /\ pipeline[b] = "ended"
              /\ \E s \in Answers(b) : Ask(r, b, "save", Completed(WithRun(d), s))
        /\ UNCHANGED <<orch, inserted, row, aged, worker, tekton, crashes, dbErrors>>

\* Kubernetes cannot be reached, at the look-up or at the query.
KubeUnreachable(r) ==
    LET b == request[r].build
        d == request[r].d
    IN  /\ r \in Unreachable /\ request[r].pc = "query"
        /\ \E k \in {d} \cup (IF Found(b) THEN {WithRun(d)} ELSE {}) :
              Ask(r, b, "save", Failed(k, "backend_tracking_lost"))
        /\ UNCHANGED <<orch, inserted, row, aged, worker, tekton, crashes, dbErrors>>

\* The whole row is saved from the copy that was read.
RefreshSave(r) ==
    /\ request[r].pc = "save"
    /\ \/ /\ row' = [row EXCEPT ![request[r].build] = request[r].d]
          /\ UNCHANGED dbErrors
       \/ /\ DbFails
          /\ UNCHANGED row
    /\ request' = [request EXCEPT ![r] = Answered]
    /\ UNCHANGED <<orch, inserted, aged, worker, tekton, crashes>>

-----------------------------------------------------------------------------
(* Time, Tekton, crashes. *)

\* Five minutes have passed since the record was created: the worker has triggered
\* the pipeline by then and tried to save the event id.
AgeBuild(b) ==
    /\ b \in inserted \ aged
    /\ orch \notin {"create", "cleanup"}
    /\ worker[b].pc \in {"load", "trigger", "noEvent", "save"} => row[b].event
    /\ aged' = aged \cup {b}
    /\ UNCHANGED <<orch, inserted, row, worker, request, tekton, crashes, dbErrors>>

PipelineRuns(b) ==
    /\ \/ pipeline[b] = "starting" /\ pipeline' = [pipeline EXCEPT ![b] = "running"]
       \/ pipeline[b] = "running"  /\ pipeline' = [pipeline EXCEPT ![b] = "ended"]
    /\ UNCHANGED <<orch, inserted, row, aged, worker, request, verdict, crashes, dbErrors>>

PipelineDeleted(b) ==
    /\ Found(b)
    /\ pipeline' = [pipeline EXCEPT ![b] = "gone"]
    /\ UNCHANGED <<orch, inserted, row, aged, worker, request, verdict, crashes, dbErrors>>

\* The server dies with its goroutines and requests; the rows stay.
Crash ==
    /\ crashes < MaxCrashes
    /\ orch \in {"create", "cleanup", "building"}
    /\ crashes' = crashes + 1
    /\ orch' = "dead"
    /\ worker' = [b \in Builds |-> IF Returned(b) THEN worker[b] ELSE Resting("dead")]
    /\ request' = [r \in Requests |-> Answered]
    /\ UNCHANGED <<inserted, row, aged, tekton, dbErrors>>

-----------------------------------------------------------------------------
WorkerStep(b) ==
    Load(b) \/ Trigger(b) \/ WorkerSave(b) \/ GiveUpEvent(b) \/ Find(b) \/ SaveLost(b)
    \/ CheckBuildStatus(b)

OrchStep ==
    \/ \E b \in Builds : Insert(b) \/ CleanUp(b)
    \/ BuildAndWaitReturns

RequestStep(r) == QueryBuild(r) \/ KubeUnreachable(r) \/ RefreshSave(r) \/ \E b \in Builds : ReadBuild(r, b)

Elsewhere == \E b \in Builds : AgeBuild(b) \/ PipelineRuns(b) \/ PipelineDeleted(b)

Next ==
    \/ OrchStep \/ InsertFails
    \/ \E b \in Builds : WorkerStep(b) \/ FindTimeout(b) \/ MonitorTimeout(b)
    \/ \E r \in Requests : RequestStep(r)
    \/ Elsewhere \/ Crash

Spec == Init /\ [][Next]_vars

\* The goroutines are scheduled; time passes and a pipeline run comes to its end;
\* a select does not overlook an expired timer for ever.
Fairness ==
    /\ WF_vars(OrchStep)
    /\ \A b \in Builds : /\ WF_vars(WorkerStep(b))
                         /\ SF_vars(FindTimeout(b)) /\ SF_vars(MonitorTimeout(b))
                         /\ WF_vars(AgeBuild(b)) /\ WF_vars(PipelineRuns(b))

FairSpec == Spec /\ Fairness

-----------------------------------------------------------------------------
(* Safety. *)

\* Whatever the order in which the worker and the refresh requests save, a record
\* says success or skipped, failed or cancelled only when Tekton has said so, and
\* the result that decides on the deployment is Tekton's own verdict.
TektonDecides ==
    \A b \in Builds :
       /\ row[b].status \in Outcomes =>
            /\ pipeline[b] \in {"ended", "gone"}
            /\ row[b].status = verdict[b] \/ {row[b].status, verdict[b]} = {"success", "skipped"}
       /\ worker[b].pc \in {"success", "skipped", "cancelled"} => worker[b].pc = verdict[b]

\* "EventID is CRITICAL for tracking and recovery": a record that has its event id
\* keeps it, although everybody saves whole rows from copies of his own.
EventKept == [][\A b \in Builds : row[b].event => row'[b].event]_vars

(* Liveness. *)

\* BuildAndWait waits for every worker, so every worker must return, though
\* Kubernetes stays unreachable and the database refuses a save.
WorkerReturns ==
    \A b \in Builds : (b \in inserted /\ ~ Returned(b)) ~> (Returned(b) \/ crashes > 0)

\* The builds a crash has left without a worker are completed, and stay so, when
\* somebody keeps refreshing and Kubernetes answers now and then.
KeepsRefreshing ==
    \A r \in Requests : /\ \A b \in Builds : WF_vars(ReadBuild(r, b))
                        /\ WF_vars(RequestStep(r)) /\ SF_vars(QueryBuild(r))
RecordsRecover ==
    KeepsRefreshing => (orch = "dead" ~> [](\A b \in inserted : IsCompleted(row[b])))

(* Refinement. *)

Coarse(b) ==
    IF b \notin inserted THEN "none"
    ELSE IF row[b].status = "backend_trigger_failed" THEN "triggerFailed"
    ELSE IF IsCompleted(row[b]) THEN "ended" ELSE "active"

Outcome == INSTANCE BuildOutcome
           WITH record  <- [b \in Builds |-> Coarse(b)],
                result  <- [b \in Builds |-> IF ~ Returned(b) THEN "pending"
                                             ELSE IF worker[b].pc \in {"success", "skipped"}
                                             THEN "ok" ELSE "failed"],
                trouble <- dbErrors > 0

\* The records and results are those that ProjectOps works with.
ImplementsOutcome == Outcome!Spec
=============================================================================
