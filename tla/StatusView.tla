------------------------------- MODULE StatusView -------------------------------
(***************************************************************************)
(* What GET /projects/:slug/status and its refresh tell of a project.  The *)
(* answer is put together from the project's row, the latest build of each *)
(* container and a deployment, read by separate statements while a run     *)
(* goes on; and whether a deployment belongs to the builds that are shown  *)
(* is decided by comparing their times.                                    *)
(*                                                                         *)
(* A tick is half a second.  Tekton tells when a run was completed in full *)
(* seconds, cut off; the columns are TIMESTAMPs, to which the database     *)
(* rounds, half a second up.  A "cycle" numbers the runs, for the          *)
(* properties only: the code has no such number.                           *)
(***************************************************************************)
EXTENDS Integers, FiniteSets

CONSTANTS Containers, MaxTime, MaxCycles, None

\* The rows of the tables, as far as the answer needs them.
BuildRows ==
  [cycle : 0 .. MaxCycles, since : 0 .. MaxTime,
   status : {"running", "success", "failed", "backend_trigger_failed"}, finished : 0 .. MaxTime \cup {None}]
DeploymentRows == [cycle : 0 .. MaxCycles, created : 0 .. MaxTime]

\* "None" is no row and no time.
StatusAssumption ==
  /\ MaxTime \in Nat /\ MaxCycles \in Nat
  /\ None \notin 0 .. MaxTime /\ None \notin BuildRows /\ None \notin DeploymentRows

VARIABLES
  now,
  op,        \* project_operation_status
  cycle,     \* the run that goes on, or the last one
  builds,    \* the latest build of a container, or None
  deployed,  \* the latest deployment, or None
  query      \* a request: what it has read, and its answer

svars == <<now, op, cycle, builds, deployed, query>>

Stored(tick) == (tick + 1) \div 2
CompletionTime(tick) == tick \div 2

IdleQuery == [pc |-> "idle", op |-> None, builds |-> <<>>, deployment |-> None]

StatusInit ==
  /\ now = 0 /\ op = "nothing" /\ cycle = 0
  /\ builds = [c \in Containers |-> None]
  /\ deployed = None
  /\ query = IdleQuery

-----------------------------------------------------------------------------
(* The run, as far as the answer shows it.                                 *)

Elapse ==
  /\ now < MaxTime /\ now' = now + 1
  /\ UNCHANGED <<op, cycle, builds, deployed, query>>

StartBuild ==
  /\ op = "nothing" /\ cycle < MaxCycles
  /\ op' = "building" /\ cycle' = cycle + 1
  /\ UNCHANGED <<now, builds, deployed, query>>

BuildOf(c) == builds[c] # None /\ builds[c].cycle = cycle

CreateBuild(c) ==
  /\ op = "building" /\ ~BuildOf(c)
  /\ builds' = [builds EXCEPT ![c] = [cycle |-> cycle, since |-> now, status |-> "running", finished |-> None]]
  /\ UNCHANGED <<now, op, cycle, deployed, query>>

\* A pipeline run has taken a tick at least when it is found completed; when it could not
\* be triggered, the build is finished by the server's clock.
FinishBuild(c) ==
  /\ op = "building" /\ BuildOf(c) /\ builds[c].status = "running"
  /\ \/ \E t \in builds[c].since + 1 .. now, status \in {"success", "failed"} :
          builds' = [builds EXCEPT ![c].status = status, ![c].finished = CompletionTime(t)]
     \/ builds' = [builds EXCEPT ![c].status = "backend_trigger_failed", ![c].finished = Stored(now)]
  /\ UNCHANGED <<now, op, cycle, deployed, query>>

\* All builds are finished: a deployment is created with the lock, or the run ends.
BuildsFinished ==
  /\ op = "building"
  /\ \A c \in Containers : BuildOf(c) /\ builds[c].status # "running"
  /\ IF \A c \in Containers : builds[c].status = "success"
     THEN op' = "deploying" /\ deployed' = [cycle |-> cycle, created |-> Stored(now)]
     ELSE op' = "nothing" /\ UNCHANGED deployed
  /\ UNCHANGED <<now, cycle, builds, query>>

DeploymentFinished ==
  /\ op = "deploying"
  /\ op' = "nothing"
  /\ UNCHANGED <<now, cycle, builds, deployed, query>>

-----------------------------------------------------------------------------
(* The request.                                                            *)

FinishTimes(shown) == {shown[c].finished : c \in {c \in DOMAIN shown : shown[c] # None}} \ {None}

\* Mutant: the first finished build decides.
EarliestFinish(shown) ==
  CHOOSE t \in FinishTimes(shown) : \A u \in FinishTimes(shown) : t <= u
LatestFinish(shown) ==
  CHOOSE t \in FinishTimes(shown) : \A u \in FinishTimes(shown) : t >= u

\* After, in Go: equal times are not after one another.
shouldIncludeDeployment(d, shown) ==
  /\ d # None
  /\ FinishTimes(shown) # {} => d.created > LatestFinish(shown)

\* FindByID of the project, which names the active deployment.
ReadProject ==
  /\ query.pc = "idle"
  /\ query' = [pc |-> IF op = "deploying" THEN "active" ELSE "builds", op |-> op, builds |-> <<>>,
               deployment |-> IF op = "deploying" THEN deployed ELSE None]
  /\ UNCHANGED <<now, op, cycle, builds, deployed>>

\* While the project deploys, that deployment is shown in any case; a lookup that fails is
\* passed over.
ReadActive ==
  /\ query.pc = "active"
  /\ \E found \in {query.deployment, None} :
       query' = [query EXCEPT !.pc = "builds", !.deployment = found]
  /\ UNCHANGED <<now, op, cycle, builds, deployed>>

\* The latest build of one container after the other.
ReadBuild(c) ==
  /\ query.pc = "builds" /\ c \notin DOMAIN query.builds
  /\ query' = [query EXCEPT !.builds = [x \in DOMAIN @ \cup {c} |-> IF x = c THEN builds[c] ELSE @[x]]]
  /\ UNCHANGED <<now, op, cycle, builds, deployed>>

\* No build is shown when the list of containers cannot be had.
BuildsRead ==
  /\ query.pc = "builds" /\ DOMAIN query.builds \in {{}, Containers}
  /\ query' = [query EXCEPT !.pc = IF query.op = "deploying" THEN "answered" ELSE "latest"]
  /\ UNCHANGED <<now, op, cycle, builds, deployed>>

\* FindLatestByProjectID, and whether it belongs to the builds; a refresh of a project that
\* builds leaves the deployment out.
ReadLatest ==
  /\ query.pc = "latest"
  /\ \/ query' = [query EXCEPT !.pc = "answered",
                               !.deployment = IF shouldIncludeDeployment(deployed, query.builds) THEN deployed ELSE None]
     \/ query.op = "building" /\ query' = [query EXCEPT !.pc = "answered"]
  /\ UNCHANGED <<now, op, cycle, builds, deployed>>

\* The steps of a request: Execute of the status and of its refresh, which differ in what
\* they do while the project builds (ReadLatest).
Request == ReadProject \/ ReadActive \/ BuildsRead \/ ReadLatest \/ \E c \in Containers : ReadBuild(c)

StatusNext ==
  \/ Elapse \/ StartBuild \/ BuildsFinished \/ DeploymentFinished
  \/ \E c \in Containers : CreateBuild(c) \/ FinishBuild(c)
  \/ Request

StatusSpec == StatusInit /\ [][StatusNext]_svars

-----------------------------------------------------------------------------
ShownFinished == {c \in DOMAIN query.builds : query.builds[c] # None /\ query.builds[c].finished # None}

(* Unless the project said it was deploying, an answer shows no deployment *)
(* of an earlier run beside a finished build of a later one, although its  *)
(* parts are read while runs start and end.                                *)
NoStaleDeployment ==
  query.pc = "answered" /\ query.op # "deploying" /\ query.deployment # None
    => \A c \in ShownFinished : query.deployment.cycle >= query.builds[c].cycle

(* "A deployment is included only if it was created after the latest build *)
(* finished", to leave out "stale deployment records from previous build   *)
(* cycles" (get_project_status.go:53): the deployment of the very run      *)
(* whose builds are shown is none of these.  When the run has ended and    *)
(* all its builds have been read, that deployment is shown.                *)
OwnDeploymentShown == [][
  /\ ReadLatest
  /\ query.op = "nothing" /\ op = "nothing"
  /\ deployed # None /\ deployed.cycle = cycle
  /\ query.builds = builds
  => query'.deployment = deployed]_svars
=============================================================================
