----------------------------- MODULE ProjectRow -----------------------------
(***************************************************************************)
(* The operation lock kept in a row of PROJECTS: project_operation_status, *)
(* active_deployment_id and is_deleted, the methods of the aggregate       *)
(* Project (domain/model/project/project.go) that move it, and the UPDATE  *)
(* of the repository, which writes every column of the loaded aggregate.   *)
(***************************************************************************)
CONSTANTS
    Ops,   \* runs of BuildAndDeployProject; o also names the deployment that run o creates
    NoOp   \* active_deployment_id IS NULL

ASSUME NoOpAssumption == NoOp \notin Ops

OperationStatus == {"nothing", "building", "deploying"}

Row == [op : OperationStatus, active : Ops \cup {NoOp}, deleted : BOOLEAN]

NewRow == [op |-> "nothing", active |-> NoOp, deleted |-> FALSE]

\* Mutants: a build that starts while another operation is in progress, a wrong
\* status, a build whose end is not recorded.
CanStartBuildBusy(p) == ~ p.deleted
StartBuildRunning(p) == [p EXCEPT !.op = "running"]
CompleteBuildKept(p) == p

CanStartBuild(p) == ~ p.deleted /\ p.op = "nothing"
StartBuild(p)    == [p EXCEPT !.op = "building"]

CanCompleteBuild(p) == ~ p.deleted /\ p.op = "building"
CompleteBuild(p)    == [p EXCEPT !.op = "nothing"]

CanStartDeploy(p) == ~ p.deleted /\ p.op = "building"
StartDeploy(p, d) == [p EXCEPT !.op = "deploying", !.active = d]

\* Mutants: whoever asks completes the deployment; the owner is not cleared.
CanCompleteAnyDeploy(p, d) == ~ p.deleted
CompleteDeployKept(p)      == [p EXCEPT !.op = "nothing"]

\* Only the deployment that owns the lock may complete; the status is not looked at.
CanCompleteDeploy(p, d) == ~ p.deleted /\ p.active = d
CompleteDeploy(p)       == [p EXCEPT !.op = "nothing", !.active = NoOp]

SoftDelete(p) == [p EXCEPT !.deleted = TRUE]

\* projectRepository.Save: UPDATE ... WHERE is_deleted = FALSE with the columns of
\* the aggregate p, then is_deleted = TRUE when p was deleted in memory.
Save(row, p) == [op      |-> IF row.deleted THEN row.op ELSE p.op,
                 active  |-> IF row.deleted THEN row.active ELSE p.active,
                 deleted |-> row.deleted \/ p.deleted]

\* What every path that ends deployment d does to the locked row: release the lock
\* when d owns it, tolerate ErrInvalidStatusTransition when it does not.
Release(row, d) == IF row.op = "deploying" /\ CanCompleteDeploy(row, d)
                   THEN Save(row, CompleteDeploy(row)) ELSE row
=============================================================================
