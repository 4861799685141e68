---------------------------- MODULE BuildOutcome ----------------------------
(***************************************************************************)
(* What the builds of one run promise to the deploy service, and all that  *)
(* ProjectOps knows about them: for every container a record that is       *)
(* absent, active, ended or triggerFailed, and the result its worker hands *)
(* to BuildAndWait.  A result "ok" is backed by an ended record, a trigger *)
(* failure by a result "failed", and a result "failed" that leaves its     *)
(* record active by an error of the database.  Implemented by Builder.     *)
(***************************************************************************)
CONSTANT Builds

VARIABLES
    record,    \* per build: "none", "active", "ended" or "triggerFailed"
    result,    \* per build: "pending", "ok" or "failed"
    trouble    \* a statement of the database has failed

bvars == <<record, result, trouble>>

Init == /\ record = [b \in Builds |-> "none"]
        /\ result = [b \in Builds |-> "pending"]
        /\ trouble = FALSE

Fails == trouble' \in {trouble, TRUE}

\* ProjectOps!CreateBuild
Insert(b) ==
    /\ record[b] = "none"
    /\ record' = [record EXCEPT ![b] = "active"]
    /\ UNCHANGED <<result, trouble>>

\* ProjectOps!CreateBuildFails: the earlier records are cleaned up, as far as possible.
CleanUp(b) ==
    /\ trouble /\ record[b] # "none" /\ result[b] = "pending"
    /\ record' \in {record, [record EXCEPT ![b] = "triggerFailed"]}
    /\ result' = [result EXCEPT ![b] = "failed"]
    /\ Fails

\* ProjectOps!BuildProgress and ProjectOps!RefreshBuild: the worker or a refresh
\* request saves what it knows.
Observe(b) ==
    /\ record[b] # "none"
    /\ \E st \in {"active", "ended"} : record' = [record EXCEPT ![b] = st]
    /\ UNCHANGED <<result, trouble>>

\* ProjectOps!BuildEnds
End(b) ==
    /\ record[b] # "none" /\ result[b] = "pending"
    /\ \E res \in {"ok", "failed"} :
         /\ result' = [result EXCEPT ![b] = res]
         /\ \/ record' = [record EXCEPT ![b] = "ended"]
            \/ res = "failed" /\ record' = [record EXCEPT ![b] = "triggerFailed"]
            \/ res = "failed" /\ trouble' /\ UNCHANGED record
    /\ Fails

Trouble == trouble' = TRUE /\ UNCHANGED <<record, result>>

Next == Trouble \/ \E b \in Builds : Insert(b) \/ CleanUp(b) \/ Observe(b) \/ End(b)

Spec == Init /\ [][Next]_bvars
=============================================================================
