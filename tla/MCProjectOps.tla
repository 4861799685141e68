----------------------------- MODULE MCProjectOps -----------------------------
(***************************************************************************)
(* ProjectOps under two sets of circumstances, one after the other: two    *)
(* runs of build-and-deploy beside refresh requests (exclusive), and one   *)
(* run that is refreshed while it builds, deleted, and struck by a crash,  *)
(* a failing statement and an unreachable Kubernetes (faults).             *)
(***************************************************************************)
EXTENDS ProjectOps, TLC

VARIABLE side

F == INSTANCE ProjectOps WITH
       Environment <- {"refreshDeploy", "refreshBuilds", "delete", "unreachable"},
       MaxCrashes <- 1, MaxDbErrors <- 1

MCInit == side \in {"exclusive", "faults"} /\ Init

OneRun == Cardinality({o \in Ops : ~ At(o, "idle")}) <= 1

MCNext ==
    /\ UNCHANGED side
    /\ \/ side = "exclusive" /\ Next
       \/ side = "faults" /\ F!Next /\ OneRun'

MCSpec == MCInit /\ [][MCNext]_<<side, vars>>

\* Runs, requests and containers are interchangeable.
Symmetry == Permutations(Ops) \cup Permutations(Requests) \cup Permutations(Containers)
=============================================================================
