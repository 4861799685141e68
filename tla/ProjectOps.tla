----------------------------- MODULE ProjectOps -----------------------------
(***************************************************************************)
(* Build and deploy of ONE project: the row that serves as its lock, the   *)
(* deployment rows, the goroutines of BuildAndDeployProject, the refresh   *)
(* requests, project edits and deletion, the Tekton pipeline runs, and     *)
(* crashes of the server (domain/service/deploy, domain/service/build,     *)
(* application/update_project.go, delete_project.go,                       *)
(* refresh_project_status.go).                                             *)
(*                                                                         *)
(* Granularity.  A transaction that takes the row lock before it reads is  *)
(* one step.  A read outside a transaction, or a plain SELECT inside one,  *)
(* is a step of its own, and so is the later write: what was read may be   *)
(* stale by then.  A call to Kubernetes or Tekton is a step.               *)
(*                                                                         *)
(* The builds are coarse here: a build record is absent, active,           *)
(* triggerFailed or ended; the module Builder has the detail.              *)
(***************************************************************************)
EXTENDS StatusRecord, ProjectRow, Naturals, FiniteSets

CONSTANTS
    Containers,    \* the project's containers
    Requests,      \* concurrent POST .../refresh requests
    Edits,         \* concurrent project updates and deletions
    Environment,   \* which of the circumstances below may occur
    MaxCrashes,    \* bound on server crashes
    MaxDbErrors    \* bound on failing transactions and statements

Circumstances == {"refreshDeploy", "refreshBuilds", "update", "delete", "slow", "unreachable"}

ASSUME EnvironmentAssumption == Environment \subseteq Circumstances
ASSUME TrackersAssumption == Ops \cap Requests = {} /\ NoOp \notin Requests
ASSUME BoundsAssumption == MaxCrashes \in Nat /\ MaxDbErrors \in Nat

VARIABLES
    project,      \* the row of PROJECTS
    created,      \* the deployments that have a row
    deployment,   \* the rows of DEPLOYMENTS
    aged,         \* deployments created more than five minutes ago
    pipeline,     \* Tekton's side: the state of each deployment's pipeline run
    build,        \* BUILD_HISTORY: build[o][c] is the record run o made for container c
    latest,       \* the run whose record is container c's latest
    settled,      \* <<o, c>>: build[o][c] finished more than five minutes ago
    results,      \* what the worker of <<o, c>> has returned to run o
    track,        \* the goroutine of each run and each request: where it is, what it holds
    seen,         \* what request r has read about the builds
    held,         \* the project aggregate held by request r
    edit,         \* an edit in flight and the aggregate it holds
    crashes, dbErrors

lockVars  == <<project, created, deployment>>
buildVars == <<build, latest, settled, results>>
reqVars   == <<seen, held>>
vars == <<project, created, deployment, aged, pipeline, build, latest, settled, results,
          track, seen, held, edit, crashes, dbErrors>>

-----------------------------------------------------------------------------
Trackers == Ops \cup Requests

PipelineStates == {"absent", "starting", "Unknown", "True", "False", "gone"}
BuildStates    == {"none", "active", "triggerFailed", "ended"}

\* Where the goroutine of a run is: before its deployment exists, or after.
BuildPhase  == {"fetch", "create", "building", "update", "lock", "buildError"}
DeployPhase == {"trigger", "saveEvent", "monitor"}
RefreshPhase == {"query", "save", "commit", "failRead", "failSave"}
Places == {"idle", "done", "builds", "reset"}
              \cup BuildPhase \cup DeployPhase \cup RefreshPhase

Track == [pc : Places, target : Ops \cup {NoOp}, d : Record, fail : Statuses,
          ret : {"idle", "monitor", "done"}]

Seen == [op : Ops \cup {NoOp}, status : {"unread", "missing", "refreshing"} \cup BuildStates]

EditState == [pc : {"idle", "update", "delete", "done"}, row : Row]

TypeOK ==
    /\ project \in Row
    /\ created \subseteq Ops
    /\ deployment \in [Ops -> Record]
    /\ aged \subseteq Ops
    /\ pipeline \in [Ops -> PipelineStates]
    /\ build \in [Ops -> [Containers -> BuildStates]]
    /\ latest \in [Containers -> Ops \cup {NoOp}]
    /\ settled \subseteq Ops \X Containers
    /\ results \in [Ops -> [Containers -> {"pending", "ok", "failed"}]]
    /\ track \in [Trackers -> Track]
    /\ seen \in [Requests -> [Containers -> Seen]]
    /\ held \in [Requests -> Row]
    /\ edit \in [Edits -> EditState]
    /\ crashes \in Nat /\ dbErrors \in Nat

IdleTrack(t) == [pc |-> "idle", target |-> t, d |-> NewRecord, fail |-> "untracked", ret |-> "idle"]
Unread == [op |-> NoOp, status |-> "unread"]

Init ==
    /\ project = NewRow
    /\ created = {} /\ aged = {} /\ settled = {}
    /\ deployment = [o \in Ops |-> NewRecord]
    /\ pipeline = [o \in Ops |-> "absent"]
    /\ build = [o \in Ops |-> [c \in Containers |-> "none"]]
    /\ latest = [c \in Containers |-> NoOp]
    /\ results = [o \in Ops |-> [c \in Containers |-> "pending"]]
    /\ track = [p \in Trackers |-> IdleTrack(IF p \in Ops THEN p ELSE NoOp)]
    /\ seen = [r \in Requests |-> [c \in Containers |-> Unread]]
    /\ held = [r \in Requests |-> NewRow]
    /\ edit = [e \in Edits |-> [pc |-> "idle", row |-> NewRow]]
    /\ crashes = 0 /\ dbErrors = 0

-----------------------------------------------------------------------------
(* Steps shared by the operations. *)

At(p, place) == track[p].pc = place

\* A run tracks the deployment it creates, a request the one it finds.
Home(p) == IF p \in Ops THEN p ELSE NoOp

\* The goroutine p moves on; it drops the deployment it held.
Goto(p, place) == track' = [track EXCEPT ![p] = [IdleTrack(Home(p)) EXCEPT !.pc = place]]

\* A transaction or a statement of the next step fails: nothing is written.
DbFails ==
    /\ dbErrors < MaxDbErrors
    /\ dbErrors' = dbErrors + 1

Live(o) == track[o].pc \notin {"idle", "done"}

\* refreshDeploymentStatus returns with an error or an unfinished deployment: the
\* monitor waits for its next tick, a request is answered.
Rest(p) == IF p \in Ops THEN "monitor" ELSE "idle"
\* ... and with a completed one: the monitor of deployProjectInternal ends.
End(p)  == IF p \in Ops THEN "done" ELSE "idle"

-----------------------------------------------------------------------------
(* BuildAndDeployProject and its goroutine. *)

\* The request: under the row lock nothing -> building, then the goroutine starts.
\* A project that is busy, deleted or without containers is refused: no step.
BuildAndDeployProject(o) ==
    /\ At(o, "idle")
    /\ CanStartBuild(project)
    /\ project' = Save(project, StartBuild(project))
    /\ Goto(o, "fetch")
    /\ UNCHANGED <<created, deployment, aged, pipeline, buildVars, reqVars, edit,
                   crashes, dbErrors>>

\* GetUnifiedContainerConfig fails, or the containers were deleted meanwhile.
FetchConfig(o) ==
    /\ At(o, "fetch")
    /\ \/ Goto(o, "create")
       \/ Goto(o, "buildError")
    /\ UNCHANGED <<lockVars, aged, pipeline, buildVars, reqVars, edit, crashes, dbErrors>>

\* createBuildHistories inserts one record after the other ...
CreateBuild(o, c) ==
    /\ At(o, "create")
    /\ build[o][c] = "none"
    /\ build' = [build EXCEPT ![o][c] = "active"]
    /\ latest' = [latest EXCEPT ![c] = o]
    /\ IF \A k \in Containers \ {c} : build[o][k] # "none"
       THEN Goto(o, "building") ELSE UNCHANGED track
    /\ UNCHANGED <<lockVars, aged, pipeline, settled, results, reqVars, edit,
                   crashes, dbErrors>>

\* ... and when an insert fails marks the earlier ones backend_trigger_failed, as
\* far as the database lets it.
CreateBuildFails(o) ==
    /\ At(o, "create")
    /\ DbFails
    /\ \E cleaned \in SUBSET {c \in Containers : build[o][c] # "none"} :
          /\ build' = [build EXCEPT ![o] =
                         [c \in Containers |-> IF c \in cleaned THEN "triggerFailed" ELSE @[c]]]
          /\ settled' = settled \ ({o} \X cleaned)
    /\ Goto(o, "buildError")
    /\ UNCHANGED <<lockVars, aged, pipeline, latest, results, reqVars, edit, crashes>>

\* A worker that is still at it may find its record ended by a refresh request and
\* save it as running or tracking_lost again.
BuildProgress(o, c) ==
    /\ At(o, "building")
    /\ results[o][c] = "pending"
    /\ build[o][c] = "ended"
    /\ build' = [build EXCEPT ![o][c] = "active"]
    /\ settled' = settled \ {<<o, c>>}
    /\ UNCHANGED <<lockVars, aged, pipeline, latest, results, track, reqVars, edit,
                   crashes, dbErrors>>

\* BuildContainer returns and BuildAndWait collects the result; the last one lets
\* the goroutine go on: to the post-build updates or, when a build failed, to
\* handleBuildError.
BuildEnds(o, c) ==
    /\ At(o, "building")
    /\ results[o][c] = "pending"
    /\ \E res \in {"ok", "failed"} :
         /\ LET all == [results[o] EXCEPT ![c] = res]
            IN  IF \A k \in Containers : all[k] # "pending"
                THEN /\ Goto(o, IF \A k \in Containers : all[k] = "ok"
                                THEN "update" ELSE "buildError")
                     /\ results' = [results EXCEPT ![o] = [k \in Containers |-> "pending"]]
                ELSE /\ results' = [results EXCEPT ![o] = all]
                     /\ UNCHANGED track
         /\ \/ /\ build' = [build EXCEPT ![o][c] = "ended"]
               /\ settled' = settled \ {<<o, c>>}
               /\ UNCHANGED dbErrors
            \/ /\ res = "failed"                 \* the trigger itself failed
               /\ build' = [build EXCEPT ![o][c] = "triggerFailed"]
               /\ settled' = settled \ {<<o, c>>}
               /\ UNCHANGED dbErrors
            \/ /\ res = "failed"                 \* the terminal state is not saved
               /\ DbFails
               /\ UNCHANGED <<build, settled>>
    /\ UNCHANGED <<lockVars, aged, pipeline, latest, reqVars, edit, crashes>>

\* UpdateContainerAfterBuild of every container (module ContainerBuild): an error,
\* ErrContainerChangedDuringBuild among them, aborts the deployment.
UpdateContainers(o) ==
    /\ At(o, "update")
    /\ \/ Goto(o, "lock")
       \/ Goto(o, "buildError")
    /\ UNCHANGED <<lockVars, aged, pipeline, buildVars, reqVars, edit, crashes, dbErrors>>

\* deployProjectInternal, step 1: under the row lock building -> deploying, with a
\* new deployment as the owner.  Any error goes to handleBuildError.
DeployProjectInternal(o) ==
    /\ At(o, "lock")
    /\ \/ /\ CanStartDeploy(project)
          /\ project' = Save(project, StartDeploy(project, o))
          /\ created' = created \cup {o}
          /\ deployment' = [deployment EXCEPT ![o] = NewRecord]
          /\ Goto(o, "trigger")
          /\ UNCHANGED dbErrors
       \/ /\ ~ CanStartDeploy(project)
          /\ Goto(o, "buildError")
          /\ UNCHANGED <<lockVars, dbErrors>>
       \/ /\ DbFails
          /\ Goto(o, "buildError")
          /\ UNCHANGED lockVars
    /\ UNCHANGED <<aged, pipeline, buildVars, reqVars, edit, crashes>>

\* handleBuildError: building -> nothing, whoever started the build.  Its own
\* errors are logged and forgotten.
HandleBuildError(o) ==
    /\ At(o, "buildError")
    /\ \/ /\ project' = IF CanCompleteBuild(project)
                         THEN Save(project, CompleteBuild(project)) ELSE project
          /\ UNCHANGED dbErrors
       \/ /\ DbFails
          /\ UNCHANGED project
    /\ Goto(o, "done")
    /\ UNCHANGED <<created, deployment, aged, pipeline, buildVars, reqVars, edit, crashes>>

-----------------------------------------------------------------------------
(* deployProjectInternal after the lock is taken, and refreshDeploymentStatus,   *)
(* which its monitor and RefreshActiveDeployment share.                          *)

\* handleDeployFailure(p's target, status) is called; it ends at the place ret.
FailWith(p, status, ret) ==
    track' = [track EXCEPT ![p] = [@ EXCEPT !.pc = "failRead", !.d = NewRecord,
                                            !.fail = status, !.ret = ret]]

\* Volumes, the Tekton request, TriggerDeploy.  An error does not say whether Tekton
\* has accepted the request.
TriggerDeploy(o) ==
    /\ At(o, "trigger")
    /\ \/ /\ pipeline' = [pipeline EXCEPT ![o] = "starting"]
          /\ \/ Goto(o, "saveEvent")
             \/ FailWith(o, "backend_trigger_failed", "done")
       \/ /\ FailWith(o, "backend_trigger_failed", "done")
          /\ UNCHANGED pipeline
    /\ UNCHANGED <<lockVars, aged, buildVars, reqVars, edit, crashes, dbErrors>>

\* The deployment created at step 1 is saved with its event id: the whole row, from
\* the copy in memory.
SaveEvent(o) ==
    /\ At(o, "saveEvent")
    /\ \/ /\ deployment' = [deployment EXCEPT ![o] = WithEvent(NewRecord)]
          /\ Goto(o, "monitor")
          /\ UNCHANGED dbErrors
       \/ /\ DbFails
          /\ FailWith(o, "backend_tracking_failed", "done")
          /\ UNCHANGED deployment
    /\ UNCHANGED <<project, created, aged, pipeline, buildVars, reqVars, edit, crashes>>

\* A mutant: the grace period never ends.
WithinGrace(t) == FALSE

\* time.Since(createdAt) > 5*time.Minute
PastGrace(t) == t \in aged

\* refreshDeploymentStatus(t) reads the deployment: done, too young to have an event
\* id, beyond rescue, or to be looked up.
ReadDeployment(p, t) ==
    LET d == deployment[t]
    IN  \/ /\ IsCompleted(d)
           /\ Goto(p, End(p))
        \/ /\ ~ IsCompleted(d) /\ ~ d.run /\ ~ d.event
           /\ IF PastGrace(t)
              THEN track' = [track EXCEPT ![p] = [IdleTrack(t) EXCEPT
                                !.pc = "failRead", !.fail = "backend_tracking_failed",
                                !.ret = Rest(p)]]
              ELSE Goto(p, Rest(p))
        \/ /\ ~ IsCompleted(d) /\ (d.run \/ d.event)
           /\ track' = [track EXCEPT ![p] = [IdleTrack(t) EXCEPT !.pc = "query", !.d = d]]

\* The monitor's tick.
MonitorTick(o) ==
    /\ At(o, "monitor")
    /\ ReadDeployment(o, o)
    /\ UNCHANGED <<lockVars, aged, pipeline, buildVars, reqVars, edit, crashes, dbErrors>>

\* A mutant: the timer is not looked at.
MonitorForEver(o) == At(o, "monitor") /\ o \in aged /\ UNCHANGED vars

\* The monitor gives up after 30 minutes.
MonitorTimeout(o) ==
    /\ At(o, "monitor")
    /\ o \in aged
    /\ FailWith(o, "backend_tracking_failed", "done")
    /\ UNCHANGED <<lockVars, aged, pipeline, buildVars, reqVars, edit, crashes, dbErrors>>

\* Kubernetes cannot be reached, at the look-up by event id or at the query by name.
KubeUnreachable(p) ==
    /\ "unreachable" \in Environment
    /\ At(p, "query")
    /\ \E d \in {track[p].d} \cup
                  (IF pipeline[track[p].target] \in {"Unknown", "True", "False"}
                   THEN {WithRun(track[p].d)} ELSE {}) :
          track' = [track EXCEPT ![p].pc = "save", ![p].d = Failed(d, "backend_tracking_lost")]
    /\ UNCHANGED <<lockVars, aged, pipeline, buildVars, reqVars, edit, crashes, dbErrors>>

\* Kubernetes answers: the run does not exist (an error unless the deployment has
\* had five minutes, or had a run before), is under way, or has come to its end;
\* the words of the answer tell a cancelled run from a failed one.  The look-up of
\* the run by event id and the query by name are one step.
KubeAnswers(p) ==
    LET t   == track[p].target
        d   == WithRun(track[p].d)
        Hold(place, r) == track' = [track EXCEPT ![p].pc = place, ![p].d = r]
    IN  /\ At(p, "query")
        /\ \/ /\ pipeline[t] \in {"absent", "starting", "gone"}
              /\ IF track[p].d.run \/ PastGrace(t)
                 THEN FailWith(p, "backend_tracking_failed", Rest(p))
                 ELSE Goto(p, Rest(p))
           \/ pipeline[t] = "Unknown"   /\ Hold("save", Running(d))
           \/ pipeline[t] = "True"      /\ Hold("commit", Completed(d, "success"))
           \/ /\ pipeline[t] = "False"
              /\ \E s \in {"failed", "cancelled"} : Hold("commit", Completed(d, s))
        /\ UNCHANGED <<lockVars, aged, pipeline, buildVars, reqVars, edit, crashes, dbErrors>>

\* A state that is not terminal is saved outside any transaction.
SaveTracked(p) ==
    /\ At(p, "save")
    /\ \/ /\ deployment' = [deployment EXCEPT ![track[p].target] = track[p].d]
          /\ UNCHANGED dbErrors
       \/ /\ DbFails
          /\ UNCHANGED deployment
    /\ Goto(p, Rest(p))
    /\ UNCHANGED <<project, created, aged, pipeline, buildVars, reqVars, edit, crashes>>

\* A mutant: the two updates are not in one transaction.
CommitTrackedInParts(p) ==
    /\ At(p, "commit")
    /\ \/ /\ ~ project.deleted
          /\ project' = Release(project, track[p].target)
          /\ Goto(p, End(p))
          /\ UNCHANGED dbErrors
       \/ /\ \/ project.deleted /\ UNCHANGED dbErrors
             \/ DbFails
          /\ Goto(p, Rest(p))
          /\ UNCHANGED project
    /\ deployment' = [deployment EXCEPT ![track[p].target] = track[p].d]
    /\ UNCHANGED <<created, aged, pipeline, buildVars, reqVars, edit, crashes>>

\* A mutant: the lock is not released.
CommitDeployment(p) ==
    /\ At(p, "commit")
    /\ deployment' = [deployment EXCEPT ![track[p].target] = track[p].d]
    /\ Goto(p, End(p))
    /\ UNCHANGED <<project, created, aged, pipeline, buildVars, reqVars, edit, crashes, dbErrors>>

\* A terminal state is saved and the lock released in one transaction, which fails
\* when the project is deleted.
CommitTracked(p) ==
    /\ At(p, "commit")
    /\ \/ /\ ~ project.deleted
          /\ deployment' = [deployment EXCEPT ![track[p].target] = track[p].d]
          /\ project' = Release(project, track[p].target)
          /\ Goto(p, End(p))
          /\ UNCHANGED dbErrors
       \/ /\ \/ project.deleted /\ UNCHANGED dbErrors
             \/ DbFails
          /\ Goto(p, Rest(p))
          /\ UNCHANGED <<project, deployment>>
    /\ UNCHANGED <<created, aged, pipeline, buildVars, reqVars, edit, crashes>>

\* handleDeployFailure: a plain SELECT of the deployment ...
FailRead(p) ==
    /\ At(p, "failRead")
    /\ track' = [track EXCEPT ![p].pc = "failSave", ![p].d = deployment[track[p].target]]
    /\ UNCHANGED <<lockVars, aged, pipeline, buildVars, reqVars, edit, crashes, dbErrors>>

\* ... then the updates of both rows.  A refused transition, a deleted project and
\* a database error roll everything back; nobody is told.
FailSave(p) ==
    LET t == track[p].target
        d == track[p].d
    IN  /\ At(p, "failSave")
        /\ \/ /\ CanFail(d, track[p].fail) /\ ~ project.deleted
              /\ deployment' = [deployment EXCEPT ![t] = Failed(d, track[p].fail)]
              /\ project' = Release(project, t)
              /\ UNCHANGED dbErrors
           \/ /\ ~ CanFail(d, track[p].fail) \/ project.deleted
              /\ UNCHANGED <<project, deployment, dbErrors>>
           \/ /\ DbFails
              /\ UNCHANGED <<project, deployment>>
        /\ Goto(p, track[p].ret)
        /\ UNCHANGED <<created, aged, pipeline, buildVars, reqVars, edit, crashes>>

-----------------------------------------------------------------------------
(* POST .../refresh: refreshProjectStatus. *)

\* The project is deploying: RefreshActiveDeployment reads the owner of the lock and
\* refreshes that deployment.  (Between this read and the one of the status nothing
\* is kept, so the later read is the one that counts.)
RefreshActiveDeployment(r) ==
    /\ "refreshDeploy" \in Environment
    /\ At(r, "idle")
    /\ ~ project.deleted /\ project.active # NoOp
    /\ ReadDeployment(r, project.active)
    /\ UNCHANGED <<lockVars, aged, pipeline, buildVars, reqVars, edit, crashes, dbErrors>>

\* The project is building: RefreshActiveBuildStatuses.
RefreshActiveBuildStatuses(r) ==
    /\ "refreshBuilds" \in Environment
    /\ At(r, "idle")
    /\ ~ project.deleted /\ project.op = "building"
    /\ Goto(r, "builds")
    /\ UNCHANGED <<lockVars, aged, pipeline, buildVars, reqVars, edit, crashes, dbErrors>>

\* The latest record of one container; a container without a record is skipped.
ReadBuild(r, c) ==
    /\ At(r, "builds")
    /\ seen[r][c].status = "unread"
    /\ seen' = [seen EXCEPT ![r][c] =
          IF latest[c] = NoOp THEN [op |-> NoOp, status |-> "missing"]
          ELSE LET st == build[latest[c]][c]
               IN  [op |-> latest[c], status |-> IF st = "active" THEN "refreshing" ELSE st]]
    /\ UNCHANGED <<lockVars, aged, pipeline, buildVars, track, held, edit, crashes, dbErrors>>

\* refreshBuildHistoryStatus of an unfinished record: an answer from Kubernetes is
\* saved over the row, or nothing is written (grace period, error).
RefreshBuild(r, c) ==
    LET o == seen[r][c].op
    IN  /\ At(r, "builds")
        /\ seen[r][c].status = "refreshing"
        /\ \E st \in {"active", "ended"} :
             /\ seen' = [seen EXCEPT ![r][c].status = st]
             /\ \/ /\ build' = [build EXCEPT ![o][c] = st]
                   /\ settled' = settled \ {<<o, c>>}
                \/ /\ st = "active"
                   /\ UNCHANGED <<build, settled>>
        /\ UNCHANGED <<lockVars, aged, pipeline, latest, results, track, held, edit,
                       crashes, dbErrors>>

\* A mutant: without the grace period.
BuildsHaveEnded(r) ==
    LET found == {c \in Containers : seen[r][c].status # "missing"}
    IN  found # {} /\ \A c \in found : seen[r][c].status = "ended"

\* Every record found is completed (trigger_failed does not count), and none within
\* the last five minutes.
BuildsAreOver(r) ==
    LET found == {c \in Containers : seen[r][c].status # "missing"}
    IN  /\ found # {}
        /\ \A c \in found : seen[r][c].status = "ended" /\ <<seen[r][c].op, c>> \in settled

\* All containers are read.  When the builds are over the project is loaded: FOR
\* UPDATE, but outside a transaction, so the row lock is gone with the statement.
LoadForReset(r) ==
    LET reset == BuildsAreOver(r) /\ CanCompleteBuild(project)
    IN  /\ At(r, "builds")
        /\ \A c \in Containers : seen[r][c].status \notin {"unread", "refreshing"}
        /\ Goto(r, IF reset THEN "reset" ELSE "idle")
        /\ held' = IF reset THEN [held EXCEPT ![r] = project] ELSE held
        /\ seen' = [seen EXCEPT ![r] = [c \in Containers |-> Unread]]
        /\ UNCHANGED <<lockVars, aged, pipeline, buildVars, edit, crashes, dbErrors>>

\* The aggregate loaded before is completed and saved over the row.
ResetProject(r) ==
    /\ At(r, "reset")
    /\ \/ /\ project' = Save(project, CompleteBuild(held[r]))
          /\ UNCHANGED dbErrors
       \/ /\ DbFails
          /\ UNCHANGED project
    /\ Goto(r, "idle")
    /\ held' = [held EXCEPT ![r] = NewRow]
    /\ UNCHANGED <<created, deployment, aged, pipeline, buildVars, seen, edit, crashes>>

-----------------------------------------------------------------------------
(* UpdateProject and DeleteProject: a plain SELECT and, later in the same       *)
(* transaction, an UPDATE of every column from the aggregate that was read.     *)

ReadForUpdate(e) ==
    /\ "update" \in Environment
    /\ edit[e].pc = "idle" /\ ~ project.deleted
    /\ edit' = [edit EXCEPT ![e] = [pc |-> "update", row |-> project]]
    /\ UNCHANGED <<lockVars, aged, pipeline, buildVars, reqVars, track, crashes, dbErrors>>

UpdateProject(e) ==
    /\ edit[e].pc = "update"
    /\ project' = Save(project, edit[e].row)
    /\ edit' = [edit EXCEPT ![e] = [pc |-> "done", row |-> NewRow]]
    /\ UNCHANGED <<created, deployment, aged, pipeline, buildVars, reqVars, track,
                   crashes, dbErrors>>

\* A project with an operation in progress is refused.
ReadForDelete(e) ==
    /\ "delete" \in Environment
    /\ edit[e].pc = "idle" /\ ~ project.deleted
    /\ project.op = "nothing"
    /\ edit' = [edit EXCEPT ![e] = [pc |-> "delete", row |-> project]]
    /\ UNCHANGED <<lockVars, aged, pipeline, buildVars, reqVars, track, crashes, dbErrors>>

DeleteProject(e) ==
    /\ edit[e].pc = "delete"
    /\ project' = Save(project, SoftDelete(edit[e].row))
    /\ edit' = [edit EXCEPT ![e] = [pc |-> "done", row |-> NewRow]]
    /\ UNCHANGED <<created, deployment, aged, pipeline, buildVars, reqVars, track,
                   crashes, dbErrors>>

-----------------------------------------------------------------------------
(* Time, Tekton, and crashes of the server. *)

\* Five minutes have passed since the deployment was created.  The calls between its
\* creation and the monitor (or the end of the run, when one of them fails) time out
\* after seconds, unless the server is slow.
AgeDeployment(o) ==
    /\ o \in created \ aged /\ ~ IsCompleted(deployment[o])
    /\ "slow" \in Environment \/ (track[o].pc \notin {"trigger", "saveEvent"} /\ track[o].ret # "done")
    /\ aged' = aged \cup {o}
    /\ UNCHANGED <<lockVars, pipeline, buildVars, reqVars, track, edit, crashes, dbErrors>>

\* Five minutes have passed since the build finished; a run that is not slow has
\* taken the deployment lock or released the build lock by then.
AgeBuild(o, c) ==
    /\ "refreshBuilds" \in Environment        \* nobody else asks
    /\ build[o][c] = "ended" /\ <<o, c>> \notin settled /\ latest[c] = o
    /\ "slow" \in Environment \/ track[o].pc \notin BuildPhase
    /\ settled' = settled \cup {<<o, c>>}
    /\ UNCHANGED <<lockVars, aged, pipeline, build, latest, results, reqVars, track, edit,
                   crashes, dbErrors>>

\* The pipeline run of deployment o is created and finishes ...
PipelineRuns(o) ==
    /\ \/ pipeline[o] = "starting" /\ pipeline' = [pipeline EXCEPT ![o] = "Unknown"]
       \/ pipeline[o] = "Unknown"
          /\ \E s \in {"True", "False"} : pipeline' = [pipeline EXCEPT ![o] = s]
    /\ UNCHANGED <<lockVars, aged, buildVars, reqVars, track, edit, crashes, dbErrors>>

\* ... or is deleted.
PipelineDeleted(o) ==
    /\ pipeline[o] \in {"Unknown", "True", "False"}
    /\ pipeline' = [pipeline EXCEPT ![o] = "gone"]
    /\ UNCHANGED <<lockVars, aged, buildVars, reqVars, track, edit, crashes, dbErrors>>

\* The server dies: every goroutine and request is lost, the open transactions are
\* rolled back.  Nothing looks for unfinished operations when it comes back.
Crash ==
    /\ crashes < MaxCrashes
    /\ crashes' = crashes + 1
    /\ track' = [p \in Trackers |->
                   [IdleTrack(Home(p)) EXCEPT !.pc =
                      IF p \in Requests \/ At(p, "idle") THEN "idle" ELSE "done"]]
    /\ seen' = [r \in Requests |-> [c \in Containers |-> Unread]]
    /\ held' = [r \in Requests |-> NewRow]
    /\ edit' = [e \in Edits |-> IF edit[e].pc = "idle" THEN edit[e]
                                                      ELSE [pc |-> "done", row |-> NewRow]]
    /\ UNCHANGED <<lockVars, aged, pipeline, buildVars, dbErrors>>

-----------------------------------------------------------------------------
\* A step of the goroutine of run o that waits for nobody else.
OpStep(o) ==
    \/ FetchConfig(o) \/ UpdateContainers(o) \/ DeployProjectInternal(o) \/ HandleBuildError(o)
    \/ \E c \in Containers : CreateBuild(o, c) \/ BuildEnds(o, c)
    \/ TriggerDeploy(o) \/ SaveEvent(o) \/ MonitorTick(o)

\* A step of refreshDeploymentStatus or handleDeployFailure, by a monitor or a request.
TrackStep(p) ==
    \/ KubeAnswers(p) \/ KubeUnreachable(p)
    \/ SaveTracked(p) \/ CommitTracked(p) \/ FailRead(p) \/ FailSave(p)

RequestStep(r) ==
    \/ RefreshActiveDeployment(r) \/ RefreshActiveBuildStatuses(r)
    \/ \E c \in Containers : ReadBuild(r, c) \/ RefreshBuild(r, c)
    \/ LoadForReset(r) \/ ResetProject(r)

EditStep(e) == ReadForUpdate(e) \/ UpdateProject(e) \/ ReadForDelete(e) \/ DeleteProject(e)

Elsewhere ==
    \/ \E o \in Ops : AgeDeployment(o) \/ PipelineRuns(o) \/ PipelineDeleted(o)
    \/ \E o \in Ops, c \in Containers : AgeBuild(o, c)
    \/ Crash

Next ==
    \/ \E o \in Ops : BuildAndDeployProject(o) \/ OpStep(o) \/ MonitorTimeout(o)
    \/ \E o \in Ops : CreateBuildFails(o)
    \/ \E o \in Ops, c \in Containers : BuildProgress(o, c)
    \/ \E p \in Trackers : TrackStep(p)
    \/ \E r \in Requests : RequestStep(r)
    \/ \E e \in Edits : EditStep(e)
    \/ Elsewhere

Spec == Init /\ [][Next]_vars

\* The goroutines of a server that does not crash are scheduled, a build ends (its
\* monitor gives up after 30 minutes), time passes, a pipeline run comes to its end
\* (its own timeout).  The select of the monitor takes each of two ready cases with
\* equal probability, so the expired timer is not overlooked for ever.
Fairness ==
    /\ \A o \in Ops : /\ WF_vars(OpStep(o)) /\ SF_vars(MonitorTimeout(o))
                      /\ WF_vars(AgeDeployment(o)) /\ WF_vars(PipelineRuns(o))
    /\ \A p \in Trackers : WF_vars(TrackStep(p))

FairSpec == Spec /\ Fairness

\* Somebody keeps asking for a refresh, and Kubernetes is not always unreachable
\* when they do.
KeepsRefreshing ==
    /\ \A r \in Requests : WF_vars(RequestStep(r)) /\ SF_vars(KubeAnswers(r))
    /\ \A o \in Ops, c \in Containers : WF_vars(AgeBuild(o, c))

RefreshedSpec == FairSpec /\ KeepsRefreshing

-----------------------------------------------------------------------------
(* Safety. *)

\* project_operation_status says 'deploying' exactly when active_deployment_id is
\* set, whatever stale copy of the row was saved last: GetDeploymentStatus and the
\* refresh requests rely on the one when they have read the other.
LockPair == project.op = "deploying" <=> project.active # NoOp

\* A deployment row has a finish time exactly when its status is terminal, also
\* after recoveries from tracking_lost and after whole-row saves of stale copies.
FinishedIffCompleted == \A o \in Ops : deployment[o].finished <=> IsCompleted(deployment[o])

\* The deployment that owns the lock is not completed: refreshDeploymentStatus
\* returns at once for a completed one, so such a lock would be held for ever.
OwnerIsUnfinished ==
    \A o \in Ops : project.active = o => o \in created /\ ~ IsCompleted(deployment[o])

\* While the server runs and no statement fails, the deployment that owns the lock
\* still has a goroutine that will release it.
OwnerIsMonitored ==
    crashes = 0 /\ dbErrors = 0 => \A o \in Ops : project.active = o => Live(o)

\* "Concurrent deployments for the same project are prevented": at most one run is
\* building or starting its deployment, and then no other deployment owns the lock.
Working(o) == track[o].pc \in BuildPhase \cup {"trigger", "saveEvent"}
ExclusiveRun ==
    \A o \in Ops : Working(o) => /\ \A k \in Ops \ {o} : ~ Working(k)
                                 /\ project.active \in {o, NoOp}

(* Actions. *)

\* A terminal status stays: "can only be called if deployment is not yet completed".
TerminalIsFinal ==
    [][\A o \in Ops : IsCompleted(deployment[o]) => deployment'[o].status = deployment[o].status]_vars

\* The lock is taken from a deployment only in the step that ends this deployment:
\* "prevents wiping out a new deployment B that already started after A failed".
ReleasedByItsEnd ==
    [][\A o \in Ops : project.active = o /\ project'.active # o /\ ~ project'.deleted
                       => IsCompleted(deployment'[o])]_vars

(* Liveness. *)

\* Every run comes to its end, whatever Kubernetes and the database do to it: the
\* monitor does not wait for an answer that never comes.
RunEnds == \A o \in Ops : Live(o) ~> At(o, "done")

\* Nobody keeps the project locked for ever, unless the server or the database fails.
LockReleased ==
    project.op # "nothing" ~> project.op = "nothing" \/ crashes > 0 \/ dbErrors > 0

\* A deployment that a crash has left without a goroutine is ended, and the lock
\* released, by the refresh requests.
DeployRecovers ==
    KeepsRefreshing => (project.op = "deploying" ~> project.op # "deploying")

\* "Prevents projects from being stuck in 'building' state if the background
\* goroutine crashes".
BuildRecovers == project.op = "building" ~> project.op # "building"

(* Refinement. *)

Lock == INSTANCE OperationLock
        WITH phase  <- IF project.deleted THEN "gone" ELSE project.op,
             claims <- {o \in Ops : track[o].pc \in BuildPhase},
             owner  <- IF project.deleted THEN NoOp ELSE project.active

\* The two columns and the goroutines implement the lock of OperationLock.
ImplementsLock == Lock!Spec
=============================================================================
