------------------------------- MODULE MCProject -------------------------------
(***************************************************************************)
(* One project, seen from five sides that are explored one after the       *)
(* other: a run beside a request that refreshes it (refresh), beside every *)
(* kind of stale whole-row save (edits); and what is told of the project:  *)
(* its status, the word for its pod, and the pages of its logs.            *)
(***************************************************************************)
EXTENDS LogPages, TLC

CONSTANTS
  Outcomes, NoOp, Ops, Requests, Containers, c3, e1, MaxCrashes, MaxDbErrors,
  MaxCycles, MaxInits, MaxMains, None

VARIABLES
  side,
  project, created, deployment, aged, pipeline, build, latest, settled, results,
  track, seen, held, edit, crashes, dbErrors,
  time, op, cycle, builds, deployed, query,
  pod

R == INSTANCE ProjectOps WITH Edits <- {},
       Environment <- {"refreshDeploy", "refreshBuilds", "unreachable"}
E == INSTANCE ProjectOps WITH Containers <- {c3}, Edits <- {e1},
       Environment <- {"refreshDeploy", "refreshBuilds", "update", "delete", "slow"}
V == INSTANCE StatusView WITH now <- time
K == INSTANCE PodStatus

ASSUME StatusConstants == V!StatusAssumption
ASSUME PodConstants == K!PodAssumption
ASSUME PagesConstants == LogPagesAssumption

opsvars == <<project, created, deployment, aged, pipeline, build, latest, settled, results,
             track, seen, held, edit, crashes, dbErrors>>
statusvars == <<time, op, cycle, builds, deployed, query>>
allvars == <<side, opsvars, statusvars, pod, lpvars>>

PagesIdle == PagesInit /\ finished = 0

MCInit ==
  /\ V!StatusInit
  /\ \/ side \in {"refresh", "status"} /\ R!Init /\ pod = None /\ PagesIdle
     \/ side = "edits" /\ E!Init /\ pod = None /\ PagesIdle
     \/ side = "pod" /\ R!Init /\ K!PodInit /\ PagesIdle
     \/ side = "pages" /\ R!Init /\ pod = None /\ PagesInit

\* A status is followed until it is answered.
MCNext ==
  /\ UNCHANGED side
  /\ \/ side = "refresh" /\ R!Next /\ UNCHANGED <<statusvars, pod, lpvars>>
     \/ side = "edits" /\ E!Next /\ UNCHANGED <<statusvars, pod, lpvars>>
     \/ side = "status" /\ query.pc # "answered" /\ V!StatusNext /\ UNCHANGED <<opsvars, pod, lpvars>>
     \/ side = "pod" /\ K!PodNext /\ UNCHANGED <<opsvars, statusvars, lpvars>>
     \/ side = "pages" /\ PagesNext /\ UNCHANGED <<opsvars, statusvars, pod>>

MCSpec == MCInit /\ [][MCNext]_allvars

Symmetry == Permutations(Containers)

-----------------------------------------------------------------------------
(* The properties of the sides, under their own names; the modules state   *)
(* what they are about.                                                    *)

(* ProjectOps: beside refresh requests the deployment that owns the lock   *)
(* is not finished, finish times agree with statuses, and the row and the  *)
(* goroutines implement the lock; beside stale saves of the project its    *)
(* operation status and active deployment agree.                           *)
RunsAreSound ==
  /\ [](/\ side = "refresh" => R!TypeOK /\ R!OwnerIsUnfinished /\ R!FinishedIffCompleted
        /\ side = "edits" => E!TypeOK /\ E!LockPair)
  /\ side = "refresh" => R!Lock!Init
  /\ [][side = "refresh" => R!Lock!Next]_R!Lock!lvars
(* StatusView, PodStatus, LogPages: a status shows no deployment older     *)
(* than its builds, a pod's word is kubectl's, pages leave out no line.    *)
AnswersAreRight ==
  /\ [](/\ side = "status" => V!NoStaleDeployment
        /\ side = "pod" => K!PodStatusIsKubectls
        /\ side = "pages" => OlderPagesAreWhole)
  /\ NewerPagesAreWhole
=============================================================================
