---------------------------- MODULE StatusRecord ----------------------------
(***************************************************************************)
(* The life cycle of a record that follows one Tekton pipeline run: the    *)
(* aggregate Deployment (domain/model/deployment/deployment.go) and, with  *)
(* one more outcome, BuildHistory (domain/model/build_history).  A record  *)
(* is the row the repositories read and write as a whole; its summary and  *)
(* start time are left out, and of its finish time only whether it is set. *)
(*                                                                         *)
(* A method that may refuse is two operators: CanX is its check, X(r) the  *)
(* record it leaves behind when the check passes.                          *)
(***************************************************************************)
CONSTANT Outcomes   \* the completion statuses: success, failed, cancelled (a build: also skipped)

BackendTerminal == {"backend_trigger_failed", "backend_tracking_failed"}
BackendStatuses == BackendTerminal \cup {"backend_tracking_lost"}
Terminal        == Outcomes \cup BackendTerminal
Statuses        == Terminal \cup {"untracked", "running", "backend_tracking_lost"}

ASSUME OutcomesAssumption ==
    /\ {"success", "failed", "cancelled"} \subseteq Outcomes
    /\ {"untracked", "running", "backend_tracking_lost",
        "backend_trigger_failed", "backend_tracking_failed"} \cap Outcomes = {}

Record == [status : Statuses, event : BOOLEAN, run : BOOLEAN, finished : BOOLEAN]

NewRecord == [status |-> "untracked", event |-> FALSE, run |-> FALSE, finished |-> FALSE]

IsCompleted(r) == r.status \in Terminal

WithEvent(r) == [r EXCEPT !.event = TRUE]
WithRun(r)   == [r EXCEPT !.run = TRUE]

\* A mutant: the status is stored in Kubernetes' words.
RunningUnknown(r) == [r EXCEPT !.status = "Unknown", !.finished = FALSE]

CanRun(r)  == ~ IsCompleted(r)
Running(r) == [r EXCEPT !.status = "running", !.finished = FALSE]

CanComplete(r, s) == r.status \in Outcomes => r.status = s

\* A mutant: the finish time is left for later.
CompletedUnstamped(r, s) == [r EXCEPT !.status = s]

Completed(r, s) == [r EXCEPT !.status = s, !.finished = TRUE]

\* A mutant: a deployment that runs cannot be given up.
CanFailUntracked(r, s) == r.status = "untracked"

CanFail(r, s) == IF s = "backend_trigger_failed" THEN r.status = "untracked"
                                                 ELSE ~ IsCompleted(r)

\* A mutant: every backend status stamps the finish time.
FailedAndStamped(r, s) == [r EXCEPT !.status = s, !.finished = TRUE]

Failed(r, s) == [r EXCEPT !.status = s,
                           !.finished = IF s \in BackendTerminal THEN TRUE ELSE @]
=============================================================================
