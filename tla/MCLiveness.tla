------------------------------ MODULE MCLiveness ------------------------------
(***************************************************************************)
(* What must eventually happen: the log streams of LogStream and the runs  *)
(* of ProjectOps, one after the other ("side"), under the fairness of      *)
(* both.  Neither owes a step in its initial state, so the fairness of the *)
(* side that rests asks for nothing.                                       *)
(***************************************************************************)
EXTENDS LogStream

CONSTANTS Outcomes, NoOp, Ops, Requests, Edits, Containers, Environment, MaxCrashes, MaxDbErrors

VARIABLES
  side,
  project, created, deployment, aged, pipeline, build, latest, settled, results,
  track, seen, held, edit, crashes, dbErrors

Runs == INSTANCE ProjectOps

opsvars == <<project, created, deployment, aged, pipeline, build, latest, settled, results,
             track, seen, held, edit, crashes, dbErrors>>

\* A message that exceeds the buffer, and ones that fit it.
LongThenShort == [m \in 1..MaxMessages |-> IF m = 1 THEN 2 ELSE 1]

MCInit ==
  /\ side \in {"operations", "logs"}
  /\ Runs!Init /\ LogInit

MCNext ==
  /\ UNCHANGED side
  /\ \/ side = "operations" /\ Runs!Next /\ UNCHANGED lvars
     \/ side = "logs" /\ LogNext /\ UNCHANGED opsvars

MCSpec == MCInit /\ [][MCNext]_<<side, opsvars, lvars>> /\ Runs!Fairness /\ LogFairness

-----------------------------------------------------------------------------
(* The properties of the runs, under their own names: ProjectOps says what *)
(* they are about.                                                         *)

(* Runs come to their end.                                                 *)
RunEnds == Runs!RunEnds
(* The lock is released.                                                   *)
LockReleased == Runs!LockReleased
(* A deployment that is stuck is given up when it is refreshed.            *)
DeployRecovers == Runs!DeployRecovers
=============================================================================
