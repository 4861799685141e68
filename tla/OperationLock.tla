--------------------------- MODULE OperationLock ---------------------------
(***************************************************************************)
(* What project_operation_status and active_deployment_id promise: a lock  *)
(* that one run of BuildAndDeployProject takes, counts on while it builds, *)
(* and hands over to the deployment it creates; it is free again when that *)
(* deployment has come to its end.  No other run, and no refresh request,  *)
(* takes it away from a run that counts on it.  A run may lose hold of the *)
(* lock by dying or by failing to give it back: the lock is then an orphan *)
(* that a refresh request may free.  A deleted project is locked for good. *)
(* Implemented by ProjectOps.                                              *)
(***************************************************************************)
CONSTANTS Ops, NoOp

VARIABLES
    phase,    \* project_operation_status, "gone" when the project is deleted
    claims,   \* the runs that count on the build lock
    owner     \* active_deployment_id

lvars == <<phase, claims, owner>>

Init == phase = "nothing" /\ claims = {} /\ owner = NoOp

\* nothing -> building, for run o.
Acquire(o) ==
    /\ phase = "nothing" /\ claims = {}
    /\ phase' = "building" /\ claims' = {o} /\ UNCHANGED owner

\* building -> nothing: its run gives up, or it is an orphan.
GiveBack ==
    /\ phase = "building"
    /\ phase' = "nothing" /\ claims' = {} /\ UNCHANGED owner

\* building -> deploying, by the run that counts on the lock.
HandOver(o) ==
    /\ phase = "building" /\ claims = {o}
    /\ phase' = "deploying" /\ claims' = {} /\ owner' = o

\* deploying -> nothing: the deployment that owns the lock has come to its end.
Finish ==
    /\ phase = "deploying"
    /\ phase' = "nothing" /\ owner' = NoOp /\ UNCHANGED claims

\* The run dies, or its attempt to give the lock back fails.
Orphan ==
    /\ phase \in {"building", "gone"} /\ claims # {}
    /\ claims' = {} /\ UNCHANGED <<phase, owner>>

\* The project is deleted, under whatever still runs.
Remove ==
    /\ phase # "gone"
    /\ phase' = "gone" /\ owner' = NoOp /\ UNCHANGED claims

Next == \/ \E o \in Ops : Acquire(o) \/ HandOver(o)
        \/ GiveBack \/ Finish \/ Orphan \/ Remove

Spec == Init /\ [][Next]_lvars
=============================================================================
