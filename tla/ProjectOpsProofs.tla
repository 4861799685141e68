-------------------------- MODULE ProjectOpsProofs --------------------------
(***************************************************************************)
(* Type correctness and the safety invariants of ProjectOps, for every set *)
(* of runs, requests, edits and containers, every choice of circumstances  *)
(* and any number of faults.                                               *)
(***************************************************************************)
EXTENDS ProjectOps, TLAPS

-----------------------------------------------------------------------------
(* What the methods of the aggregates preserve. *)

\* The classes of statuses, as far as the proofs use them.
LEMMA StatusFacts ==
    /\ BackendTerminal \subseteq Terminal /\ Outcomes \subseteq Terminal
    /\ Terminal \subseteq Statuses /\ BackendStatuses \subseteq Statuses
    /\ {"untracked", "running", "backend_tracking_lost"} \subseteq Statuses
    /\ {"untracked", "running", "backend_tracking_lost"} \cap Terminal = {}
    /\ {"success", "failed", "cancelled"} \subseteq Outcomes
    /\ "backend_trigger_failed" \in BackendTerminal
    /\ "backend_tracking_failed" \in BackendTerminal
    BY OutcomesAssumption DEF BackendTerminal, BackendStatuses, Terminal, Statuses

\* The methods of a record return records.
LEMMA RecordTyped ==
    ASSUME NEW r \in Record, NEW s \in Statuses
    PROVE  /\ NewRecord \in Record
           /\ WithEvent(r) \in Record /\ WithRun(r) \in Record /\ Running(r) \in Record
           /\ Completed(r, s) \in Record /\ Failed(r, s) \in Record
    BY StatusFacts DEF Record, NewRecord, WithEvent, WithRun, Running, Completed, Failed

\* The methods of the project, and the UPDATE that saves it, return rows.
LEMMA RowTyped ==
    ASSUME NEW p \in Row, NEW q \in Row, NEW d \in Ops
    PROVE  /\ NewRow \in Row
           /\ StartBuild(p) \in Row /\ CompleteBuild(p) \in Row
           /\ StartDeploy(p, d) \in Row /\ CompleteDeploy(p) \in Row
           /\ SoftDelete(p) \in Row /\ Save(p, q) \in Row
    BY DEF Row, OperationStatus, NewRow, StartBuild, CompleteBuild, StartDeploy,
           CompleteDeploy, SoftDelete, Save

\* Ending a deployment leaves a row behind.
LEMMA ReleaseTyped ==
    ASSUME NEW p \in Row, NEW d
    PROVE  Release(p, d) \in Row
  <1>1. CompleteDeploy(p) \in Row
    BY DEF Row, OperationStatus, CompleteDeploy
  <1> QED
    BY <1>1 DEF Release, Save, Row, OperationStatus

\* Well-formed tracks: a run tracks its own deployment, and whoever is refreshing
\* one has a target.
Tracking == {f \in [Trackers -> Track] :
               /\ \A o \in Ops : f[o].target = o
               /\ \A p \in Trackers : f[p].pc \in RefreshPhase => f[p].target \in Ops}

\* A goroutine at rest has a well-formed track.
LEMMA IdleTrackTyped ==
    ASSUME NEW t \in Ops \cup {NoOp}
    PROVE  IdleTrack(t) \in Track /\ IdleTrack(t).target = t
  <1>1. NewRecord \in Record /\ "untracked" \in Statuses
    BY StatusFacts DEF Record, NewRecord
  <1> QED
    BY <1>1 DEF IdleTrack, Track, Places

\* One track is replaced by a well-formed one.
LEMMA TrackReplaced ==
    ASSUME NEW p \in Trackers, NEW t \in Track, track \in Tracking,
           p \in Ops => t.target = p,
           t.pc \in RefreshPhase => t.target \in Ops,
           track' = [track EXCEPT ![p] = t]
    PROVE  track' \in Tracking
    BY DEF Tracking, Trackers

\* Going to a place outside a refresh keeps the tracks well-formed.
LEMMA GotoTyped ==
    ASSUME NEW p \in Trackers, NEW place \in Places \ RefreshPhase,
           track \in Tracking, Goto(p, place)
    PROVE  track' \in Tracking
  <1>1. Home(p) \in Ops \cup {NoOp} /\ (p \in Ops => Home(p) = p)
    BY DEF Home
  <1> DEFINE t == [IdleTrack(Home(p)) EXCEPT !.pc = place]
  <1>2. t \in Track /\ t.target = Home(p) /\ t.pc = place
    BY <1>1, IdleTrackTyped DEF Track
  <1> HIDE DEF t
  <1>3. track' = [track EXCEPT ![p] = t]
    BY DEF Goto, t
  <1> QED
    BY <1>1, <1>2, <1>3, TrackReplaced

\* Calling handleDeployFailure keeps the tracks well-formed.
LEMMA FailWithTyped ==
    ASSUME NEW p \in Trackers, NEW status \in Statuses, NEW ret \in {"idle", "monitor", "done"},
           track \in Tracking, p \in Ops \/ track[p].pc \in RefreshPhase,
           FailWith(p, status, ret)
    PROVE  track' \in Tracking
  <1> DEFINE t == [track[p] EXCEPT !.pc = "failRead", !.d = NewRecord,
                                   !.fail = status, !.ret = ret]
  <1>1. NewRecord \in Record
    BY StatusFacts DEF Record, NewRecord
  <1>2. track[p] \in Track /\ track[p].target \in Ops /\ (p \in Ops => track[p].target = p)
    BY DEF Tracking
  <1>3. t \in Track /\ t.target = track[p].target
    BY <1>1, <1>2 DEF Track, Places, RefreshPhase
  <1>4. track' = [track EXCEPT ![p] = t]
    BY DEF FailWith
  <1> HIDE DEF t
  <1> QED
    BY <1>2, <1>3, <1>4, TrackReplaced

\* A refresh ends outside the places of a refresh.
LEMMA RestTyped ==
    ASSUME NEW p
    PROVE  /\ Rest(p) \in (Places \ RefreshPhase) \cap {"idle", "monitor", "done"}
           /\ End(p) \in (Places \ RefreshPhase) \cap {"idle", "monitor", "done"}
    BY DEF Rest, End, Places, DeployPhase, RefreshPhase

\* The first read of refreshDeploymentStatus keeps the tracks well-formed.
LEMMA ReadDeploymentTyped ==
    ASSUME NEW p \in Trackers, NEW t \in Ops, track \in Tracking, deployment[t] \in Record,
           p \in Ops => p = t, ReadDeployment(p, t)
    PROVE  track' \in Tracking
  <1> DEFINE failing  == [IdleTrack(t) EXCEPT !.pc = "failRead", !.ret = Rest(p),
                                              !.fail = "backend_tracking_failed"]
             querying == [IdleTrack(t) EXCEPT !.pc = "query", !.d = deployment[t]]
  <1>1. "backend_tracking_failed" \in Statuses /\ {"query", "failRead"} \subseteq Places
    BY StatusFacts DEF Places, RefreshPhase
  <1>2. IdleTrack(t) \in Track /\ IdleTrack(t).target = t
    BY IdleTrackTyped
  <1>3. ASSUME Goto(p, End(p)) \/ Goto(p, Rest(p)) PROVE track' \in Tracking
    BY <1>3, GotoTyped, RestTyped
  <1>4. failing \in Track /\ failing.target = t
    BY <1>1, <1>2, RestTyped DEF Track
  <1>5. querying \in Track /\ querying.target = t
    BY <1>1, <1>2 DEF Track
  <1>6. \/ Goto(p, End(p)) \/ Goto(p, Rest(p))
        \/ track' = [track EXCEPT ![p] = failing]
        \/ track' = [track EXCEPT ![p] = querying]
    BY DEF ReadDeployment
  <1> HIDE DEF failing, querying
  <1> QED
    BY <1>3, <1>4, <1>5, <1>6, TrackReplaced

\* Within a refresh, where p is and the record it holds change, nothing else.
LEMMA HoldTyped ==
    ASSUME NEW p \in Trackers, NEW place \in RefreshPhase, NEW d \in Record,
           track \in Tracking, track[p].pc \in RefreshPhase,
           track' = [track EXCEPT ![p].pc = place, ![p].d = d]
    PROVE  track' \in Tracking
  <1> DEFINE t == [track[p] EXCEPT !.pc = place, !.d = d]
  <1>1. track[p] \in Track /\ track[p].target \in Ops /\ (p \in Ops => track[p].target = p)
    BY DEF Tracking
  <1>2. t \in Track /\ t.target = track[p].target
    BY <1>1 DEF Track, Places
  <1>3. track' = [track EXCEPT ![p] = t]
    BY <1>1 DEF Tracking, Track
  <1> HIDE DEF t
  <1> QED
    BY <1>1, <1>2, <1>3, TrackReplaced

\* One deployment row is replaced.
LEMMA DeploymentTyped ==
    ASSUME NEW t, NEW d \in Record, deployment \in [Ops -> Record],
           deployment' = [deployment EXCEPT ![t] = d]
    PROVE  deployment' \in [Ops -> Record]
    OBVIOUS

-----------------------------------------------------------------------------
(* Type correctness.  TypeOK is not inductive: a refresh without a target would read *)
(* a deployment that does not exist.                                               *)

TypeInv == TypeOK /\ track \in Tracking

\* The initial states are well-formed.
LEMMA InitTyped == Init => TypeInv
  <1>1. NewRecord \in Record /\ NewRow \in Row
    BY StatusFacts DEF Record, NewRecord, Row, NewRow, OperationStatus
  <1>2. \A t \in Ops \cup {NoOp} : IdleTrack(t) \in Track /\ IdleTrack(t).pc = "idle"
                                                      /\ IdleTrack(t).target = t
    BY IdleTrackTyped DEF IdleTrack
  <1>3. ASSUME Init PROVE track \in Tracking
    BY <1>2, <1>3 DEF Init, Tracking, Trackers, RefreshPhase
  <1>4. ASSUME Init PROVE TypeOK
    BY <1>1, <1>3, <1>4, BoundsAssumption DEF Init, TypeOK, Tracking, EditState, Seen, Unread,
       PipelineStates, BuildStates
  <1> QED
    BY <1>3, <1>4 DEF TypeInv

\* What the run or the request that is refreshing holds.
LEMMA HeldTyped ==
    ASSUME TypeInv, NEW p \in Trackers
    PROVE  /\ track[p].d \in Record /\ track[p].fail \in Statuses
           /\ track[p].ret \in (Places \ RefreshPhase) \cap {"idle", "monitor", "done"}
           /\ track[p].pc \in RefreshPhase =>
                 track[p].target \in Ops /\ deployment[track[p].target] \in Record
  <1>1. track[p] \in Track
    BY DEF TypeInv, Tracking
  <1> QED
    BY <1>1 DEF TypeInv, TypeOK, Tracking, Track, Places, DeployPhase, RefreshPhase

\* Every step of a run before its deployment exists.
LEMMA RunStepTyped ==
    ASSUME TypeInv, NEW o \in Ops,
           \/ BuildAndDeployProject(o) \/ FetchConfig(o) \/ UpdateContainers(o)
           \/ CreateBuildFails(o) \/ DeployProjectInternal(o) \/ HandleBuildError(o)
    PROVE  TypeInv'
  <1> o \in Trackers
    BY DEF Trackers
  <1>1. BuildPhase \cup DeployPhase \cup {"done"} \subseteq Places \ RefreshPhase
    BY DEF Places, BuildPhase, DeployPhase, RefreshPhase
  <1>2. project \in Row /\ track \in Tracking /\ deployment \in [Ops -> Record]
    BY DEF TypeInv, TypeOK
  <1>3. CASE BuildAndDeployProject(o)
    <2>1. project' \in Row
      BY <1>2, <1>3, RowTyped DEF BuildAndDeployProject
    <2>2. track' \in Tracking
      BY <1>1, <1>2, <1>3, GotoTyped DEF BuildAndDeployProject, BuildPhase
    <2> QED
      BY <1>3, <2>1, <2>2 DEF BuildAndDeployProject, TypeInv, TypeOK, Tracking, buildVars, reqVars
  <1>4. CASE FetchConfig(o)
    <2>1. track' \in Tracking
      BY <1>1, <1>2, <1>4, GotoTyped DEF FetchConfig, BuildPhase
    <2> QED
      BY <1>4, <2>1 DEF FetchConfig, TypeInv, TypeOK, Tracking, lockVars, buildVars, reqVars
  <1>5. CASE UpdateContainers(o)
    <2>1. track' \in Tracking
      BY <1>1, <1>2, <1>5, GotoTyped DEF UpdateContainers, BuildPhase
    <2> QED
      BY <1>5, <2>1 DEF UpdateContainers, TypeInv, TypeOK, Tracking, lockVars, buildVars, reqVars
  <1>6. CASE CreateBuildFails(o)
    <2>1. track' \in Tracking
      BY <1>1, <1>2, <1>6, GotoTyped DEF CreateBuildFails, BuildPhase
    <2>2. build' \in [Ops -> [Containers -> BuildStates]]
      BY <1>6 DEF CreateBuildFails, TypeInv, TypeOK, BuildStates
    <2>3. settled' \subseteq Ops \X Containers /\ dbErrors' \in Nat
      BY <1>6 DEF CreateBuildFails, DbFails, TypeInv, TypeOK
    <2> QED
      BY <1>6, <2>1, <2>2, <2>3 DEF CreateBuildFails, TypeInv, TypeOK, Tracking, lockVars, reqVars
  <1>7. CASE DeployProjectInternal(o)
    <2>1. track' \in Tracking
      BY <1>1, <1>2, <1>7, GotoTyped DEF DeployProjectInternal, BuildPhase, DeployPhase
    <2>2. project' \in Row
      <3>1. StartDeploy(project, o) \in Row
        BY <1>2, RowTyped
      <3>2. Save(project, StartDeploy(project, o)) \in Row
        BY <1>2, <3>1, RowTyped
      <3> QED
        BY <1>2, <1>7, <3>2 DEF DeployProjectInternal, lockVars
    <2>3. deployment' \in [Ops -> Record]
      <3>1. NewRecord \in Record
        BY StatusFacts DEF Record, NewRecord
      <3> QED
        BY <1>2, <1>7, <3>1 DEF DeployProjectInternal, lockVars
    <2>4. created' \subseteq Ops /\ dbErrors' \in Nat
      BY <1>7 DEF DeployProjectInternal, DbFails, TypeInv, TypeOK, lockVars
    <2> QED
      BY <1>7, <2>1, <2>2, <2>3, <2>4
      DEF DeployProjectInternal, TypeInv, TypeOK, Tracking, buildVars, reqVars
  <1>8. CASE HandleBuildError(o)
    <2>1. track' \in Tracking
      BY <1>1, <1>2, <1>8, GotoTyped DEF HandleBuildError
    <2>2. project' \in Row
      <3>1. Save(project, CompleteBuild(project)) \in Row
        BY <1>2, RowTyped
      <3> QED
        BY <1>2, <1>8, <3>1 DEF HandleBuildError
    <2>3. dbErrors' \in Nat
      BY <1>8 DEF HandleBuildError, DbFails, TypeInv, TypeOK
    <2> QED
      BY <1>8, <2>1, <2>2, <2>3 DEF HandleBuildError, TypeInv, TypeOK, Tracking, buildVars, reqVars
  <1> QED
    BY <1>3, <1>4, <1>5, <1>6, <1>7, <1>8

\* One entry of a table of runs and containers is replaced.
LEMMA CellTyped ==
    ASSUME NEW A, NEW B, NEW S, NEW f \in [A -> [B -> S]], NEW a, NEW b, NEW v \in S
    PROVE  [f EXCEPT ![a][b] = v] \in [A -> [B -> S]]
    OBVIOUS

\* The steps of a run over its builds.
LEMMA BuildStepTyped ==
    ASSUME TypeInv, NEW o \in Ops, NEW c \in Containers,
           CreateBuild(o, c) \/ BuildProgress(o, c) \/ BuildEnds(o, c)
    PROVE  TypeInv'
  <1> o \in Trackers
    BY DEF Trackers
  <1>1. BuildPhase \subseteq Places \ RefreshPhase
    BY DEF Places, BuildPhase, RefreshPhase
  <1>2. /\ track \in Tracking /\ build \in [Ops -> [Containers -> BuildStates]]
        /\ settled \subseteq Ops \X Containers /\ dbErrors \in Nat
        /\ results \in [Ops -> [Containers -> {"pending", "ok", "failed"}]]
    BY DEF TypeInv, TypeOK
  <1>3. \A v \in BuildStates : [build EXCEPT ![o][c] = v] \in [Ops -> [Containers -> BuildStates]]
    BY <1>2, CellTyped
  <1>4. CASE CreateBuild(o, c)
    <2>1. track' \in Tracking
      BY <1>1, <1>2, <1>4, GotoTyped DEF CreateBuild, BuildPhase
    <2>2. build' \in [Ops -> [Containers -> BuildStates]]
      BY <1>3, <1>4 DEF CreateBuild, BuildStates
    <2>3. latest' \in [Containers -> Ops \cup {NoOp}]
      BY <1>4 DEF CreateBuild, TypeInv, TypeOK
    <2> QED
      BY <1>4, <2>1, <2>2, <2>3 DEF CreateBuild, TypeInv, TypeOK, Tracking, lockVars, reqVars
  <1>5. CASE BuildProgress(o, c)
    <2>1. build' \in [Ops -> [Containers -> BuildStates]]
      BY <1>3, <1>5 DEF BuildProgress, BuildStates
    <2>2. settled' \subseteq Ops \X Containers
      BY <1>2, <1>5 DEF BuildProgress
    <2> QED
      BY <1>5, <2>1, <2>2 DEF BuildProgress, TypeInv, TypeOK, Tracking, lockVars, reqVars
  <1>6. CASE BuildEnds(o, c)
    <2>1. track' \in Tracking
      <3>1. Goto(o, "update") \/ Goto(o, "buildError") \/ track' = track
        BY <1>6 DEF BuildEnds
      <3> QED
        BY <1>1, <1>2, <3>1, GotoTyped DEF BuildPhase
    <2>2. build' \in [Ops -> [Containers -> BuildStates]]
      <3>1. \/ build' = [build EXCEPT ![o][c] = "ended"]
            \/ build' = [build EXCEPT ![o][c] = "triggerFailed"]
            \/ build' = build
        BY <1>6 DEF BuildEnds
      <3> QED
        BY <1>2, <1>3, <3>1 DEF BuildStates
    <2>3. results' \in [Ops -> [Containers -> {"pending", "ok", "failed"}]]
      <3>1. PICK res \in {"ok", "failed"} :
               \/ results' = [results EXCEPT ![o] = [k \in Containers |-> "pending"]]
               \/ results' = [results EXCEPT ![o] = [results[o] EXCEPT ![c] = res]]
        BY <1>6 DEF BuildEnds
      <3>2. /\ [results[o] EXCEPT ![c] = res] \in [Containers -> {"pending", "ok", "failed"}]
            /\ [k \in Containers |-> "pending"] \in [Containers -> {"pending", "ok", "failed"}]
        BY <1>2
      <3> QED
        BY <1>2, <3>1, <3>2
    <2>4. settled' \subseteq Ops \X Containers /\ dbErrors' \in Nat
      BY <1>2, <1>6 DEF BuildEnds, DbFails
    <2> QED
      BY <1>6, <2>1, <2>2, <2>3, <2>4 DEF BuildEnds, TypeInv, TypeOK, Tracking, lockVars, reqVars
  <1> QED
    BY <1>4, <1>5, <1>6

\* The steps of a run after its deployment exists.
LEMMA DeployStepTyped ==
    ASSUME TypeInv, NEW o \in Ops,
           TriggerDeploy(o) \/ SaveEvent(o) \/ MonitorTick(o) \/ MonitorTimeout(o)
    PROVE  TypeInv'
  <1> o \in Trackers
    BY DEF Trackers
  <1>1. {"saveEvent", "monitor"} \subseteq Places \ RefreshPhase
    BY DEF Places, DeployPhase, RefreshPhase
  <1>2. /\ track \in Tracking /\ deployment \in [Ops -> Record]
        /\ {"backend_trigger_failed", "backend_tracking_failed"} \subseteq Statuses
    BY StatusFacts DEF TypeInv, TypeOK
  <1>3. CASE TriggerDeploy(o)
    <2>1. track' \in Tracking
      BY <1>1, <1>2, <1>3, GotoTyped, FailWithTyped DEF TriggerDeploy
    <2>2. pipeline' \in [Ops -> PipelineStates]
      <3>1. pipeline' = [pipeline EXCEPT ![o] = "starting"] \/ pipeline' = pipeline
        BY <1>3 DEF TriggerDeploy
      <3> QED
        BY <3>1 DEF TypeInv, TypeOK, PipelineStates
    <2> QED
      BY <1>3, <2>1, <2>2 DEF TriggerDeploy, TypeInv, TypeOK, Tracking, lockVars, buildVars, reqVars
  <1>4. CASE SaveEvent(o)
    <2>1. track' \in Tracking
      BY <1>1, <1>2, <1>4, GotoTyped, FailWithTyped DEF SaveEvent
    <2>2. WithEvent(NewRecord) \in Record
      BY StatusFacts DEF WithEvent, NewRecord, Record
    <2>3. deployment' = [deployment EXCEPT ![o] = WithEvent(NewRecord)] \/ deployment' = deployment
      BY <1>4 DEF SaveEvent
    <2>4. deployment' \in [Ops -> Record] /\ dbErrors' \in Nat
      BY <1>2, <1>4, <2>2, <2>3 DEF SaveEvent, DbFails, TypeInv, TypeOK
    <2> QED
      BY <1>4, <2>1, <2>4 DEF SaveEvent, TypeInv, TypeOK, Tracking, buildVars, reqVars
  <1>5. CASE MonitorTick(o)
    <2>1. track' \in Tracking
      BY <1>2, <1>5, ReadDeploymentTyped DEF MonitorTick
    <2> QED
      BY <1>5, <2>1 DEF MonitorTick, TypeInv, TypeOK, Tracking, lockVars, buildVars, reqVars
  <1>6. CASE MonitorTimeout(o)
    <2>1. track' \in Tracking
      BY <1>2, <1>6, FailWithTyped DEF MonitorTimeout
    <2> QED
      BY <1>6, <2>1 DEF MonitorTimeout, TypeInv, TypeOK, Tracking, lockVars, buildVars, reqVars
  <1> QED
    BY <1>3, <1>4, <1>5, <1>6

\* The steps of refreshDeploymentStatus and handleDeployFailure.
LEMMA TrackStepTyped ==
    ASSUME TypeInv, NEW p \in Trackers, TrackStep(p)
    PROVE  TypeInv'
  <1>1. {"save", "commit", "failSave"} \subseteq RefreshPhase
    BY DEF RefreshPhase
  <1>2. /\ track \in Tracking /\ deployment \in [Ops -> Record] /\ project \in Row
        /\ dbErrors \in Nat
    BY DEF TypeInv, TypeOK
  <1>3. {"success", "failed", "cancelled", "backend_tracking_failed", "backend_tracking_lost"}
           \subseteq Statuses
    BY StatusFacts
  <1>4. /\ track[p].d \in Record /\ track[p].fail \in Statuses
        /\ {track[p].ret, Rest(p), End(p)} \subseteq Places \ RefreshPhase
        /\ Rest(p) \in {"idle", "monitor", "done"}
    BY HeldTyped, RestTyped
  <1>5. /\ WithRun(track[p].d) \in Record
        /\ Running(WithRun(track[p].d)) \in Record
        /\ \A s \in Statuses : /\ Completed(WithRun(track[p].d), s) \in Record
                               /\ Failed(track[p].d, s) \in Record
                               /\ Failed(WithRun(track[p].d), s) \in Record
    <2>1. WithRun(track[p].d) \in Record
      BY <1>3, <1>4, RecordTyped
    <2> QED
      BY <1>3, <1>4, <2>1, RecordTyped
  <1>6. CASE KubeUnreachable(p)
    <2>1. PICK d \in {track[p].d, WithRun(track[p].d)} :
             track' = [track EXCEPT ![p].pc = "save", ![p].d = Failed(d, "backend_tracking_lost")]
      BY <1>6 DEF KubeUnreachable
    <2>2. Failed(d, "backend_tracking_lost") \in Record /\ track[p].pc \in RefreshPhase
      BY <1>3, <1>5, <1>6 DEF KubeUnreachable, At, RefreshPhase
    <2>3. track' \in Tracking
      BY <1>1, <1>2, <2>1, <2>2, HoldTyped
    <2> QED
      BY <1>6, <2>3 DEF KubeUnreachable, TypeInv, TypeOK, Tracking, lockVars, buildVars, reqVars
  <1>7. CASE KubeAnswers(p)
    <2>1. track[p].pc \in RefreshPhase
      BY <1>7 DEF KubeAnswers, At, RefreshPhase
    <2>2. PICK d \in Record, place \in RefreshPhase :
             \/ FailWith(p, "backend_tracking_failed", Rest(p))
             \/ Goto(p, Rest(p))
             \/ track' = [track EXCEPT ![p].pc = place, ![p].d = d]
      BY <1>1, <1>3, <1>4, <1>5, <1>7 DEF KubeAnswers
    <2>3. track' \in Tracking
      BY <1>2, <1>3, <1>4, <2>1, <2>2, HoldTyped, GotoTyped, FailWithTyped
    <2> QED
      BY <1>7, <2>3 DEF KubeAnswers, TypeInv, TypeOK, Tracking, lockVars, buildVars, reqVars
  <1>8. CASE SaveTracked(p)
    <2>1. track' \in Tracking
      BY <1>2, <1>4, <1>8, GotoTyped DEF SaveTracked
    <2>2. deployment' \in [Ops -> Record] /\ dbErrors' \in Nat
      BY <1>2, <1>4, <1>8, DeploymentTyped DEF SaveTracked, DbFails
    <2> QED
      BY <1>8, <2>1, <2>2 DEF SaveTracked, TypeInv, TypeOK, Tracking, buildVars, reqVars
  <1>9. CASE CommitTracked(p)
    <2>1. track' \in Tracking
      BY <1>2, <1>4, <1>9, GotoTyped DEF CommitTracked
    <2>2. deployment' \in [Ops -> Record] /\ dbErrors' \in Nat /\ project' \in Row
      BY <1>2, <1>4, <1>9, DeploymentTyped, ReleaseTyped DEF CommitTracked, DbFails
    <2> QED
      BY <1>9, <2>1, <2>2 DEF CommitTracked, TypeInv, TypeOK, Tracking, buildVars, reqVars
  <1>10. CASE FailRead(p)
    <2>1. track[p].pc \in RefreshPhase
      BY <1>10 DEF FailRead, At, RefreshPhase
    <2>2. deployment[track[p].target] \in Record
      BY <2>1, HeldTyped
    <2>3. track' \in Tracking
      BY <1>1, <1>2, <1>10, <2>1, <2>2, HoldTyped DEF FailRead
    <2> QED
      BY <1>10, <2>3 DEF FailRead, TypeInv, TypeOK, Tracking, lockVars, buildVars, reqVars
  <1>11. CASE FailSave(p)
    <2>1. track' \in Tracking
      BY <1>2, <1>4, <1>11, GotoTyped DEF FailSave
    <2>2. Failed(track[p].d, track[p].fail) \in Record
      BY <1>4, <1>5
    <2>3. deployment' \in [Ops -> Record] /\ dbErrors' \in Nat /\ project' \in Row
      BY <1>2, <1>11, <2>2, DeploymentTyped, ReleaseTyped DEF FailSave, DbFails
    <2> QED
      BY <1>11, <2>1, <2>3 DEF FailSave, TypeInv, TypeOK, Tracking, buildVars, reqVars
  <1> QED
    BY <1>6, <1>7, <1>8, <1>9, <1>10, <1>11 DEF TrackStep

\* The steps of a refresh request.
LEMMA RequestStepTyped ==
    ASSUME TypeInv, NEW r \in Requests, RequestStep(r)
    PROVE  TypeInv'
  <1> r \in Trackers
    BY DEF Trackers
  <1>1. {"idle", "builds", "reset"} \subseteq Places \ RefreshPhase
    BY DEF Places, RefreshPhase
  <1>2. /\ track \in Tracking /\ deployment \in [Ops -> Record] /\ project \in Row
        /\ held \in [Requests -> Row] /\ seen \in [Requests -> [Containers -> Seen]]
        /\ build \in [Ops -> [Containers -> BuildStates]]
        /\ latest \in [Containers -> Ops \cup {NoOp}]
        /\ settled \subseteq Ops \X Containers /\ dbErrors \in Nat
    BY DEF TypeInv, TypeOK
  <1>3. CASE RefreshActiveDeployment(r)
    <2>1. project.active \in Ops /\ r \notin Ops
      BY <1>2, <1>3, TrackersAssumption DEF RefreshActiveDeployment, Row
    <2>2. track' \in Tracking
      BY <1>2, <1>3, <2>1, ReadDeploymentTyped DEF RefreshActiveDeployment
    <2> QED
      BY <1>3, <2>2 DEF RefreshActiveDeployment, TypeInv, TypeOK, Tracking,
                        lockVars, buildVars, reqVars
  <1>4. CASE RefreshActiveBuildStatuses(r)
    <2>1. track' \in Tracking
      BY <1>1, <1>2, <1>4, GotoTyped DEF RefreshActiveBuildStatuses
    <2> QED
      BY <1>4, <2>1 DEF RefreshActiveBuildStatuses, TypeInv, TypeOK, Tracking,
                        lockVars, buildVars, reqVars
  <1>5. ASSUME NEW c \in Containers, ReadBuild(r, c) PROVE TypeInv'
    <2>1. build[latest[c]][c] \in BuildStates \/ latest[c] = NoOp
      BY <1>2
    <2>2. PICK v \in Seen : seen' = [seen EXCEPT ![r][c] = v]
      BY <1>2, <1>5, <2>1 DEF ReadBuild, Seen
    <2>3. seen' \in [Requests -> [Containers -> Seen]]
      BY <1>2, <2>2, CellTyped
    <2> QED
      BY <1>5, <2>3 DEF ReadBuild, TypeInv, TypeOK, Tracking, lockVars, buildVars
  <1>6. ASSUME NEW c \in Containers, RefreshBuild(r, c) PROVE TypeInv'
    <2> DEFINE o == seen[r][c].op
    <2>1. PICK st \in {"active", "ended"} :
             /\ seen' = [seen EXCEPT ![r][c].status = st]
             /\ \/ /\ build' = [build EXCEPT ![o][c] = st]
                   /\ settled' = settled \ {<<o, c>>}
                \/ build' = build /\ settled' = settled
      BY <1>6 DEF RefreshBuild
    <2>2. seen' \in [Requests -> [Containers -> Seen]]
      <3>1. seen[r][c] \in Seen
        BY <1>2
      <3>2. [seen[r][c] EXCEPT !.status = st] \in Seen
        BY <3>1 DEF Seen, BuildStates
      <3>3. seen' = [seen EXCEPT ![r][c] = [seen[r][c] EXCEPT !.status = st]]
        BY <2>1
      <3> QED
        BY <1>2, <3>2, <3>3, CellTyped
    <2>3. build' \in [Ops -> [Containers -> BuildStates]]
      <3>1. build' = [build EXCEPT ![o][c] = st] \/ build' = build
        BY <2>1
      <3>2. st \in BuildStates
        BY DEF BuildStates
      <3> HIDE DEF o
      <3>3. [build EXCEPT ![o][c] = st] \in [Ops -> [Containers -> BuildStates]]
        BY <1>2, <3>2, CellTyped
      <3> QED
        BY <1>2, <3>1, <3>3
    <2>4. settled' \subseteq Ops \X Containers
      BY <1>2, <2>1
    <2> QED
      BY <1>6, <2>2, <2>3, <2>4 DEF RefreshBuild, TypeInv, TypeOK, Tracking, lockVars
  <1>7. CASE LoadForReset(r)
    <2>1. track' \in Tracking
      BY <1>1, <1>2, <1>7, GotoTyped DEF LoadForReset
    <2>2. held' \in [Requests -> Row]
      BY <1>2, <1>7 DEF LoadForReset
    <2>3. seen' \in [Requests -> [Containers -> Seen]]
      BY <1>2, <1>7 DEF LoadForReset, Seen, Unread
    <2> QED
      BY <1>7, <2>1, <2>2, <2>3 DEF LoadForReset, TypeInv, TypeOK, Tracking, lockVars, buildVars
  <1>8. CASE ResetProject(r)
    <2>1. track' \in Tracking
      BY <1>1, <1>2, <1>8, GotoTyped DEF ResetProject
    <2>2. CompleteBuild(held[r]) \in Row /\ NewRow \in Row
      BY <1>2 DEF CompleteBuild, NewRow, Row, OperationStatus
    <2>3. Save(project, CompleteBuild(held[r])) \in Row
      BY <1>2, <2>2 DEF Save, Row
    <2>4. project' \in Row /\ dbErrors' \in Nat /\ held' \in [Requests -> Row]
      BY <1>2, <1>8, <2>2, <2>3 DEF ResetProject, DbFails
    <2> QED
      BY <1>8, <2>1, <2>4 DEF ResetProject, TypeInv, TypeOK, Tracking, buildVars
  <1> QED
    BY <1>3, <1>4, <1>5, <1>6, <1>7, <1>8 DEF RequestStep

\* The steps of an edit.
LEMMA EditStepTyped ==
    ASSUME TypeInv, NEW e \in Edits, EditStep(e)
    PROVE  TypeInv'
  <1>1. project \in Row /\ edit \in [Edits -> EditState] /\ NewRow \in Row
    BY DEF TypeInv, TypeOK, NewRow, Row, OperationStatus
  <1>2. edit[e].row \in Row
    BY <1>1 DEF EditState
  <1>3. Save(project, edit[e].row) \in Row /\ Save(project, SoftDelete(edit[e].row)) \in Row
    BY <1>1, <1>2 DEF Save, SoftDelete, Row
  <1>4. CASE ReadForUpdate(e) \/ ReadForDelete(e)
    <2>1. edit' \in [Edits -> EditState]
      BY <1>1, <1>4 DEF ReadForUpdate, ReadForDelete, EditState
    <2> QED
      BY <1>4, <2>1 DEF ReadForUpdate, ReadForDelete, TypeInv, TypeOK, lockVars, buildVars, reqVars
  <1>5. CASE UpdateProject(e) \/ DeleteProject(e)
    <2>1. edit' \in [Edits -> EditState] /\ project' \in Row
      BY <1>1, <1>3, <1>5 DEF UpdateProject, DeleteProject, EditState
    <2> QED
      BY <1>5, <2>1 DEF UpdateProject, DeleteProject, TypeInv, TypeOK, buildVars, reqVars
  <1> QED
    BY <1>4, <1>5 DEF EditStep

\* Time, Tekton and crashes.
LEMMA ElsewhereTyped ==
    ASSUME TypeInv, Elsewhere
    PROVE  TypeInv'
  <1>1. ASSUME NEW o \in Ops, AgeDeployment(o) PROVE TypeInv'
    BY <1>1 DEF AgeDeployment, TypeInv, TypeOK, lockVars, buildVars, reqVars
  <1>2. ASSUME NEW o \in Ops, PipelineRuns(o) \/ PipelineDeleted(o) PROVE TypeInv'
    <2>1. pipeline' \in [Ops -> PipelineStates]
      BY <1>2 DEF PipelineRuns, PipelineDeleted, PipelineStates, TypeInv, TypeOK
    <2> QED
      BY <1>2, <2>1 DEF PipelineRuns, PipelineDeleted, TypeInv, TypeOK, lockVars, buildVars, reqVars
  <1>3. ASSUME NEW o \in Ops, NEW c \in Containers, AgeBuild(o, c) PROVE TypeInv'
    BY <1>3 DEF AgeBuild, TypeInv, TypeOK, lockVars, reqVars
  <1>4. CASE Crash
    <2> DEFINE Reborn(p) == [IdleTrack(Home(p)) EXCEPT !.pc =
                               IF p \in Requests \/ At(p, "idle") THEN "idle" ELSE "done"]
    <2>1. \A p \in Trackers : /\ Reborn(p) \in Track /\ Reborn(p).pc \in {"idle", "done"}
                              /\ Reborn(p).target = Home(p)
      <3> SUFFICES ASSUME NEW p \in Trackers
                   PROVE  /\ Reborn(p) \in Track /\ Reborn(p).pc \in {"idle", "done"}
                          /\ Reborn(p).target = Home(p)
        OBVIOUS
      <3>1. IdleTrack(Home(p)) \in Track /\ IdleTrack(Home(p)).target = Home(p)
        BY IdleTrackTyped DEF Home
      <3> QED
        BY <3>1 DEF Track, Places
    <2>2. track' = [p \in Trackers |-> Reborn(p)]
      BY <1>4 DEF Crash
    <2> HIDE DEF Reborn
    <2>3. track' \in Tracking
      BY <2>1, <2>2 DEF Tracking, Trackers, RefreshPhase, Home
    <2>4. NewRow \in Row /\ Unread \in Seen
      BY DEF NewRow, Row, OperationStatus, Unread, Seen
    <2>5. /\ seen' \in [Requests -> [Containers -> Seen]] /\ held' \in [Requests -> Row]
          /\ edit' \in [Edits -> EditState]
      BY <1>4, <2>4 DEF Crash, TypeInv, TypeOK, EditState
    <2> QED
      BY <1>4, <2>3, <2>5 DEF Crash, TypeInv, TypeOK, Tracking, lockVars, buildVars
  <1> QED
    BY <1>1, <1>2, <1>3, <1>4 DEF Elsewhere

\* Every step keeps the state well-formed.
LEMMA StepTyped == TypeInv /\ [Next]_vars => TypeInv'
  <1> SUFFICES ASSUME TypeInv, [Next]_vars PROVE TypeInv'
    OBVIOUS
  <1>1. ASSUME NEW o \in Ops, BuildAndDeployProject(o) \/ OpStep(o) \/ MonitorTimeout(o)
        PROVE  TypeInv'
    BY <1>1, RunStepTyped, BuildStepTyped, DeployStepTyped DEF OpStep
  <1>2. CASE UNCHANGED vars
    BY <1>2 DEF vars, TypeInv, TypeOK, lockVars, buildVars, reqVars
  <1> QED
    BY <1>1, <1>2, RunStepTyped, BuildStepTyped, TrackStepTyped, RequestStepTyped,
       EditStepTyped, ElsewhereTyped DEF Next

\* Every variable stays in its type, a goroutine always tracks its own deployment, and
\* a refresh (refreshDeploymentStatus, handleDeployFailure) always has a deployment.
THEOREM TypeCorrect == Spec => []TypeOK
  <1>1. TypeInv => TypeOK
    BY DEF TypeInv
  <1> QED
    BY <1>1, InitTyped, StepTyped, PTL DEF Spec

-----------------------------------------------------------------------------
(* The safety invariants. *)

(* Who moves, and where to. *)

\* Goto moves one goroutine.
LEMMA GotoMoves ==
    ASSUME track \in Tracking, NEW p \in Trackers, NEW place, Goto(p, place)
    PROVE  /\ track'[p].pc = place
           /\ \A q \in Trackers \ {p} : track'[q] = track[q]
    BY DEF Tracking, Goto, IdleTrack

\* FailWith moves one goroutine to handleDeployFailure.
LEMMA FailMoves ==
    ASSUME track \in Tracking, NEW p \in Trackers, NEW status, NEW ret, FailWith(p, status, ret)
    PROVE  /\ track'[p].pc = "failRead" /\ track'[p].fail = status
           /\ track'[p].ret = ret /\ track'[p].target = track[p].target
           /\ \A q \in Trackers \ {p} : track'[q] = track[q]
  <1>1. track[p] \in Track
    BY DEF Tracking
  <1> QED
    BY <1>1 DEF Tracking, FailWith, Track

\* A step within a refresh changes the place and the held record of one goroutine.
LEMMA HoldMoves ==
    ASSUME track \in Tracking, NEW p \in Trackers, NEW place, NEW d,
           track' = [track EXCEPT ![p].pc = place, ![p].d = d]
    PROVE  /\ track'[p] = [track[p] EXCEPT !.pc = place, !.d = d]
           /\ track'[p].pc = place /\ track'[p].d = d
           /\ \A q \in Trackers \ {p} : track'[q] = track[q]
  <1>1. track[p] \in Track
    BY DEF Tracking
  <1> QED
    BY <1>1 DEF Tracking, Track

\* Where the first read of a refresh leads: to its end, to a failure or to the query.
LEMMA ReadMoves ==
    ASSUME track \in Tracking, NEW p \in Trackers, NEW t, ReadDeployment(p, t)
    PROVE  /\ \A q \in Trackers \ {p} : track'[q] = track[q]
           /\ \/ track'[p].pc \in {End(p), Rest(p)}
              \/ /\ track'[p].pc = "failRead"
                 /\ track'[p].fail = "backend_tracking_failed"
              \/ /\ track'[p].pc = "query" /\ track'[p].d = deployment[t]
                 /\ ~ IsCompleted(deployment[t])
  <1>1. CASE Goto(p, End(p)) \/ Goto(p, Rest(p))
    BY <1>1, GotoMoves
  <1>2. CASE track' = [track EXCEPT ![p] = [IdleTrack(t) EXCEPT !.pc = "failRead",
                                !.fail = "backend_tracking_failed", !.ret = Rest(p)]]
    BY <1>2 DEF Tracking, IdleTrack
  <1>3. CASE /\ ~ IsCompleted(deployment[t])
             /\ track' = [track EXCEPT ![p] = [IdleTrack(t) EXCEPT !.pc = "query",
                                                                   !.d = deployment[t]]]
    BY <1>3 DEF Tracking, IdleTrack
  <1> QED
    BY <1>1, <1>2, <1>3 DEF ReadDeployment

\* A step of refreshDeploymentStatus or handleDeployFailure stays in the refresh or ends it.
LEMMA TrackStepMoves ==
    ASSUME TypeInv, NEW p \in Trackers, TrackStep(p)
    PROVE  /\ track'[p].pc \in RefreshPhase \cup {"idle", "monitor", "done"}
           /\ \A q \in Trackers \ {p} : track'[q] = track[q]
           /\ UNCHANGED <<created, aged, pipeline, buildVars, reqVars, edit, crashes>>
  <1>1. track \in Tracking /\ track[p].ret \in {"idle", "monitor", "done"}
    BY HeldTyped DEF TypeInv
  <1>2. {Rest(p), End(p)} \subseteq {"idle", "monitor", "done"}
    BY RestTyped
  <1>3. {"save", "commit", "failRead", "failSave"} \subseteq RefreshPhase
    BY DEF RefreshPhase
  <1>4. UNCHANGED <<created, aged, pipeline, buildVars, reqVars, edit, crashes>>
    BY DEF TrackStep, KubeUnreachable, KubeAnswers, SaveTracked, CommitTracked, FailRead,
           FailSave, lockVars
  <1>5. \/ \E place \in {"save", "commit", "failSave"} : \E d :
              track' = [track EXCEPT ![p].pc = place, ![p].d = d]
        \/ FailWith(p, "backend_tracking_failed", Rest(p))
        \/ Goto(p, Rest(p)) \/ Goto(p, End(p)) \/ Goto(p, track[p].ret)
    <2>1. CASE KubeUnreachable(p)
      BY <2>1 DEF KubeUnreachable
    <2>2. CASE KubeAnswers(p)
      BY <2>2 DEF KubeAnswers
    <2>3. CASE SaveTracked(p) \/ CommitTracked(p) \/ FailRead(p) \/ FailSave(p)
      BY <2>3 DEF SaveTracked, CommitTracked, FailRead, FailSave
    <2> QED
      BY <2>1, <2>2, <2>3 DEF TrackStep
  <1>6. ASSUME NEW place \in {"save", "commit", "failSave"}, NEW d,
               track' = [track EXCEPT ![p].pc = place, ![p].d = d]
        PROVE  /\ track'[p].pc \in RefreshPhase
               /\ \A q \in Trackers \ {p} : track'[q] = track[q]
    BY <1>1, <1>3, <1>6, HoldMoves
  <1>7. ASSUME NEW place \in {"idle", "monitor", "done"}, Goto(p, place)
        PROVE  /\ track'[p].pc = place
               /\ \A q \in Trackers \ {p} : track'[q] = track[q]
    BY <1>1, <1>7, GotoMoves
  <1>8. ASSUME FailWith(p, "backend_tracking_failed", Rest(p))
        PROVE  /\ track'[p].pc \in RefreshPhase
               /\ \A q \in Trackers \ {p} : track'[q] = track[q]
    BY <1>1, <1>3, <1>8, FailMoves
  <1> QED
    BY <1>1, <1>2, <1>4, <1>5, <1>6, <1>7, <1>8

\* A step of the goroutine of run o outside the refresh, one of a request outside it.
RunStep(o) ==
    \/ BuildAndDeployProject(o) \/ OpStep(o) \/ MonitorTimeout(o) \/ CreateBuildFails(o)
    \/ \E c \in Containers : BuildProgress(o, c)

\* A step of a run moves this run only and touches no request or edit.
LEMMA RunStepMoves ==
    ASSUME TypeInv, NEW o \in Ops, RunStep(o)
    PROVE  /\ \A q \in Trackers \ {o} : track'[q] = track[q]
           /\ UNCHANGED <<reqVars, edit, crashes>>
  <1> o \in Trackers /\ track \in Tracking
    BY DEF Trackers, TypeInv
  <1>1. CASE \E c \in Containers : CreateBuild(o, c) \/ BuildEnds(o, c) \/ BuildProgress(o, c)
    <2>1. PICK c \in Containers : CreateBuild(o, c) \/ BuildEnds(o, c) \/ BuildProgress(o, c)
      BY <1>1
    <2>2. (\E place : Goto(o, place)) \/ track' = track
      BY <2>1 DEF CreateBuild, BuildEnds, BuildProgress
    <2> QED
      BY <2>1, <2>2, GotoMoves DEF CreateBuild, BuildEnds, BuildProgress
  <1>2. CASE \/ BuildAndDeployProject(o) \/ CreateBuildFails(o) \/ FetchConfig(o)
             \/ UpdateContainers(o) \/ DeployProjectInternal(o) \/ HandleBuildError(o)
    <2>1. \E place : Goto(o, place)
      BY <1>2 DEF BuildAndDeployProject, CreateBuildFails, FetchConfig, UpdateContainers,
                  DeployProjectInternal, HandleBuildError
    <2>2. UNCHANGED <<reqVars, edit, crashes>>
      BY <1>2 DEF BuildAndDeployProject, CreateBuildFails, FetchConfig, UpdateContainers,
                  DeployProjectInternal, HandleBuildError
    <2> QED
      BY <2>1, <2>2, GotoMoves
  <1>3. CASE TriggerDeploy(o) \/ SaveEvent(o) \/ MonitorTimeout(o)
    <2>1. (\E place : Goto(o, place)) \/ (\E status, ret : FailWith(o, status, ret))
      BY <1>3 DEF TriggerDeploy, SaveEvent, MonitorTimeout
    <2>2. UNCHANGED <<reqVars, edit, crashes>>
      BY <1>3 DEF TriggerDeploy, SaveEvent, MonitorTimeout
    <2> QED
      BY <2>1, <2>2, GotoMoves, FailMoves
  <1>4. CASE MonitorTick(o)
    BY <1>4, ReadMoves DEF MonitorTick
  <1> QED
    BY <1>1, <1>2, <1>3, <1>4 DEF RunStep, OpStep

\* What a step that is not one of a run, a request or an edit leaves alone.
LEMMA ElsewhereMoves ==
    ASSUME TypeInv, Elsewhere
    PROVE  /\ UNCHANGED lockVars
           /\ \/ UNCHANGED <<track, reqVars, edit>>
              \/ /\ Crash
                 /\ \A p \in Trackers : track'[p].pc \in {"idle", "done"}
  <1>1. ASSUME NEW o \in Ops, AgeDeployment(o) \/ PipelineRuns(o) \/ PipelineDeleted(o)
        PROVE  UNCHANGED <<lockVars, track, reqVars, edit>>
    BY <1>1 DEF AgeDeployment, PipelineRuns, PipelineDeleted
  <1>2. ASSUME NEW o \in Ops, NEW c \in Containers, AgeBuild(o, c)
        PROVE  UNCHANGED <<lockVars, track, reqVars, edit>>
    BY <1>2 DEF AgeBuild
  <1>3. CASE Crash
    <2>1. \A p \in Trackers : track'[p].pc \in {"idle", "done"}
      BY <1>3 DEF Crash, IdleTrack
    <2> QED
      BY <1>3, <2>1 DEF Crash
  <1> QED
    BY <1>1, <1>2, <1>3 DEF Elsewhere

\* The parts of a step, for the proofs below.
LEMMA StepParts ==
    ASSUME Next
    PROVE  \/ \E o \in Ops : RunStep(o)
           \/ \E p \in Trackers : TrackStep(p)
           \/ \E r \in Requests : RequestStep(r)
           \/ \E e \in Edits : EditStep(e)
           \/ Elsewhere
    BY DEF Next, RunStep

-----------------------------------------------------------------------------
(* The status and the active deployment agree.  Every copy of the row that may *)
(* be saved over it has to agree too.                                          *)

Pair(row) == row.op = "deploying" <=> row.active # NoOp

PairInv ==
    /\ Pair(project)
    /\ \A r \in Requests : Pair(held[r]) /\ (At(r, "reset") => held[r].op = "building")
    /\ \A e \in Edits : Pair(edit[e].row)

\* The methods of the project, and the UPDATE, keep status and active deployment in agreement.
LEMMA PairKept ==
    ASSUME NEW p \in Row, NEW q \in Row, Pair(p), Pair(q), NEW d \in Ops
    PROVE  /\ Pair(NewRow) /\ Pair(Save(p, q)) /\ Pair(SoftDelete(p)) /\ Pair(Release(p, d))
           /\ p.op = "nothing" => Pair(StartBuild(p))
           /\ p.op = "building" => Pair(CompleteBuild(p))
           /\ Pair(StartDeploy(p, d))
    BY NoOpAssumption
    DEF Pair, Row, NewRow, Save, SoftDelete, Release, CompleteDeploy, CanCompleteDeploy,
        StartBuild, CompleteBuild, StartDeploy

\* Initially no row, held copy or edit is half locked.
LEMMA PairInit == Init => PairInv
    BY DEF Init, PairInv, Pair, NewRow, At, IdleTrack, Trackers

\* Every step keeps PairInv.
LEMMA PairStep == TypeInv /\ PairInv /\ [Next]_vars => PairInv'
  <1> SUFFICES ASSUME TypeInv, PairInv, [Next]_vars PROVE PairInv'
    OBVIOUS
  <1>1. /\ project \in Row /\ held \in [Requests -> Row] /\ edit \in [Edits -> EditState]
        /\ track \in Tracking /\ Requests \subseteq Trackers /\ Ops \subseteq Trackers
        /\ NewRow \in Row /\ Requests \cap Ops = {}
    BY TrackersAssumption
    DEF TypeInv, TypeOK, Trackers, NewRow, Row, OperationStatus
  <1>2. Pair(NewRow)
    BY DEF Pair, NewRow
  <1>3. ASSUME NEW o \in Ops, RunStep(o) PROVE PairInv'
    <2>1. UNCHANGED <<held, edit>> /\ \A r \in Requests : track'[r] = track[r]
      BY <1>1, <1>3, RunStepMoves DEF reqVars
    <2>2. \/ project' = project
          \/ project.op = "nothing" /\ project' = Save(project, StartBuild(project))
          \/ project.op = "building" /\ project' = Save(project, CompleteBuild(project))
          \/ project' = Save(project, StartDeploy(project, o))
      BY <1>3 DEF RunStep, OpStep, BuildAndDeployProject, CreateBuildFails, FetchConfig,
         UpdateContainers, DeployProjectInternal, HandleBuildError, CreateBuild, BuildEnds,
         BuildProgress, TriggerDeploy, SaveEvent, MonitorTick, MonitorTimeout,
         CanStartBuild, CanCompleteBuild, lockVars
    <2>3. /\ StartBuild(project) \in Row /\ CompleteBuild(project) \in Row
          /\ StartDeploy(project, o) \in Row
      BY <1>1, RowTyped
    <2>4. Pair(project')
      BY <1>1, <2>2, <2>3, PairKept DEF PairInv
    <2> QED
      BY <2>1, <2>4 DEF PairInv, At
  <1>4. ASSUME NEW p \in Trackers, TrackStep(p) PROVE PairInv'
    <2>1. UNCHANGED <<held, edit>>
      BY <1>4, TrackStepMoves DEF reqVars
    <2>2. \A r \in Requests : track'[r].pc = "reset" => track[r].pc = "reset"
      BY <1>1, <1>4, TrackStepMoves DEF RefreshPhase
    <2>3. project' = project \/ project' = Release(project, track[p].target)
      BY <1>4 DEF TrackStep, KubeUnreachable, KubeAnswers, SaveTracked, CommitTracked,
                  FailRead, FailSave, lockVars
    <2>4. track[p].pc \in RefreshPhase
      BY <1>4 DEF TrackStep, KubeUnreachable, KubeAnswers, SaveTracked, CommitTracked,
                  FailRead, FailSave, At, RefreshPhase
    <2>5. Pair(project')
      BY <1>1, <2>3, <2>4, HeldTyped, PairKept DEF PairInv
    <2> QED
      BY <2>1, <2>2, <2>5 DEF PairInv, At
  <1>5. ASSUME NEW r \in Requests, RequestStep(r) PROVE PairInv'
    <2> r \in Trackers
      BY <1>1
    <2>1. CASE RefreshActiveDeployment(r)
      <3>1. track'[r].pc # "reset" /\ \A q \in Requests \ {r} : track'[q] = track[q]
        BY <1>1, <2>1, ReadMoves, RestTyped DEF RefreshActiveDeployment
      <3> QED
        BY <2>1, <3>1 DEF RefreshActiveDeployment, PairInv, At, lockVars, reqVars
    <2>2. CASE RefreshActiveBuildStatuses(r)
      <3>1. track'[r].pc # "reset" /\ \A q \in Requests \ {r} : track'[q] = track[q]
        BY <1>1, <2>2, GotoMoves DEF RefreshActiveBuildStatuses
      <3> QED
        BY <2>2, <3>1 DEF RefreshActiveBuildStatuses, PairInv, At, lockVars, reqVars
    <2>3. ASSUME NEW c \in Containers, ReadBuild(r, c) \/ RefreshBuild(r, c) PROVE PairInv'
      BY <2>3 DEF ReadBuild, RefreshBuild, PairInv, At, lockVars
    <2>4. CASE LoadForReset(r)
      <3>1. PICK place \in {"reset", "idle"} :
               /\ Goto(r, place)
               /\ held' = IF place = "reset" THEN [held EXCEPT ![r] = project] ELSE held
               /\ place = "reset" => project.op = "building"
        BY <2>4 DEF LoadForReset, CanCompleteBuild
      <3>2. track'[r].pc = place /\ \A q \in Requests \ {r} : track'[q] = track[q]
        BY <1>1, <3>1, GotoMoves
      <3>3. \A q \in Requests : Pair(held'[q]) /\ (track'[q].pc = "reset" => held'[q].op = "building")
        BY <1>1, <3>1, <3>2 DEF PairInv, At
      <3> QED
        BY <2>4, <3>3 DEF LoadForReset, PairInv, At, lockVars
    <2>5. CASE ResetProject(r)
      <3>1. track'[r].pc = "idle" /\ \A q \in Requests \ {r} : track'[q] = track[q]
        BY <1>1, <2>5, GotoMoves DEF ResetProject
      <3>2. held[r].op = "building" /\ held[r] \in Row /\ Pair(held[r])
        BY <1>1, <2>5 DEF ResetProject, PairInv
      <3>3. Pair(CompleteBuild(held[r])) /\ CompleteBuild(held[r]) \in Row
        BY <3>2 DEF Pair, CompleteBuild, Row, OperationStatus
      <3>4. Pair(Save(project, CompleteBuild(held[r])))
        BY <1>1, <3>3 DEF PairInv, Pair, Save, Row
      <3>5. Pair(project')
        BY <2>5, <3>4 DEF ResetProject, PairInv
      <3>6. \A q \in Requests : Pair(held'[q]) /\ (track'[q].pc = "reset" => held'[q].op = "building")
        BY <1>1, <1>2, <2>5, <3>1 DEF ResetProject, PairInv, At
      <3> QED
        BY <2>5, <3>5, <3>6 DEF ResetProject, PairInv, At
    <2> QED
      BY <1>5, <2>1, <2>2, <2>3, <2>4, <2>5 DEF RequestStep
  <1>6. ASSUME NEW e \in Edits, EditStep(e) PROVE PairInv'
    <2>1. /\ edit[e].row \in Row /\ Pair(edit[e].row)
          /\ UNCHANGED <<reqVars, track>>
      BY <1>1, <1>6 DEF EditState, PairInv, EditStep, ReadForUpdate, UpdateProject,
                        ReadForDelete, DeleteProject
    <2>2. \/ project' = project
          \/ project' = Save(project, edit[e].row)
          \/ project' = Save(project, SoftDelete(edit[e].row))
      BY <1>6 DEF EditStep, ReadForUpdate, UpdateProject, ReadForDelete, DeleteProject, lockVars
    <2>3. Pair(project')
      BY <1>1, <2>1, <2>2 DEF PairInv, Pair, Save, SoftDelete, Row
    <2>4. \/ \E pc : edit' = [edit EXCEPT ![e] = [pc |-> pc, row |-> project]]
          \/ edit' = [edit EXCEPT ![e] = [pc |-> "done", row |-> NewRow]]
      BY <1>6 DEF EditStep, ReadForUpdate, UpdateProject, ReadForDelete, DeleteProject
    <2>5. \A k \in Edits : Pair(edit'[k].row)
      BY <1>1, <1>2, <2>4 DEF PairInv
    <2> QED
      BY <2>1, <2>3, <2>5 DEF PairInv, At, reqVars
  <1>7. CASE Elsewhere
    <2>1. CASE UNCHANGED <<track, reqVars, edit>>
      BY <1>7, <2>1, ElsewhereMoves DEF PairInv, At, lockVars, reqVars
    <2>2. CASE Crash /\ \A p \in Trackers : track'[p].pc \in {"idle", "done"}
      <3>1. \A r \in Requests : Pair(held'[r]) /\ track'[r].pc # "reset"
        BY <1>1, <1>2, <2>2 DEF Crash
      <3>2. \A e \in Edits : Pair(edit'[e].row)
        BY <1>1, <1>2, <2>2 DEF Crash, PairInv
      <3> QED
        BY <2>2, <3>1, <3>2 DEF Crash, PairInv, At, lockVars
    <2> QED
      BY <1>7, <2>1, <2>2, ElsewhereMoves
  <1>8. CASE UNCHANGED vars
    BY <1>8 DEF vars, PairInv, Pair, At
  <1> QED
    BY <1>3, <1>4, <1>5, <1>6, <1>7, <1>8, StepParts

\* Whatever stale copy of the row of PROJECTS the repository saves last (an update, a
\* deletion, the reset of a refresh), project_operation_status is 'deploying' exactly
\* when active_deployment_id is set.
THEOREM LockPairHolds == Spec => []LockPair
  <1>1. PairInv => LockPair
    BY DEF PairInv, Pair, LockPair
  <1> QED
    BY <1>1, InitTyped, StepTyped, PairInit, PairStep, PTL DEF Spec

-----------------------------------------------------------------------------
(* The finish time agrees with the status, in the rows and in every copy that *)
(* a refresh will save.                                                       *)

Fin(d) == d.finished <=> IsCompleted(d)

\* What a track may hold, by its place.
Sound(t) ==
    /\ t.pc \in {"query", "save"} => Fin(t.d) /\ ~ IsCompleted(t.d)
    /\ t.pc = "commit" => Fin(t.d) /\ IsCompleted(t.d)
    /\ t.pc = "failSave" => Fin(t.d)
    /\ t.pc \in {"failRead", "failSave"} => t.fail \in BackendTerminal

FinInv ==
    /\ \A o \in Ops : Fin(deployment[o])
    /\ \A p \in Trackers : Sound(track[p])

\* The methods of a record keep its finish time in agreement with its status.
LEMMA FinKept ==
    ASSUME NEW d \in Record, Fin(d)
    PROVE  /\ Fin(NewRecord) /\ ~ IsCompleted(NewRecord)
           /\ Fin(WithEvent(NewRecord)) /\ ~ IsCompleted(WithEvent(NewRecord))
           /\ Fin(WithRun(d)) /\ (IsCompleted(WithRun(d)) <=> IsCompleted(d))
           /\ Fin(Running(d)) /\ ~ IsCompleted(Running(d))
           /\ \A s \in Outcomes : Fin(Completed(d, s)) /\ IsCompleted(Completed(d, s))
           /\ \A s \in BackendTerminal : Fin(Failed(d, s))
           /\ ~ IsCompleted(d) => /\ Fin(Failed(d, "backend_tracking_lost"))
                                  /\ ~ IsCompleted(Failed(d, "backend_tracking_lost"))
  <1>1. "untracked" \notin Terminal /\ "running" \notin Terminal
        /\ "backend_tracking_lost" \notin Terminal /\ Outcomes \subseteq Terminal
        /\ BackendTerminal \subseteq Terminal
    BY StatusFacts
  <1>2. "backend_tracking_lost" \notin BackendTerminal
    BY DEF BackendTerminal
  <1> QED
    BY <1>1, <1>2 DEF Fin, IsCompleted, Record, NewRecord, WithEvent, WithRun, Running,
                      Completed, Failed

\* Initially no record is finished.
LEMMA FinInit == Init => FinInv
  <1>1. Fin(NewRecord)
    BY StatusFacts DEF Fin, NewRecord, IsCompleted
  <1> QED
    BY <1>1 DEF Init, FinInv, Sound, IdleTrack

\* The refresh starts with a copy of the row.
LEMMA ReadSound ==
    ASSUME TypeInv, FinInv, NEW p \in Trackers, NEW t \in Ops, ReadDeployment(p, t)
    PROVE  Sound(track'[p])
  <1>1. {End(p), Rest(p)} \subseteq {"idle", "monitor", "done"}
    BY RestTyped
  <1>2. track \in Tracking /\ "backend_tracking_failed" \in BackendTerminal
    BY StatusFacts DEF TypeInv
  <1> QED
    BY <1>1, <1>2, ReadMoves DEF Sound, FinInv

\* Every step keeps FinInv.
LEMMA FinStep == TypeInv /\ FinInv /\ [Next]_vars => FinInv'
  <1> SUFFICES ASSUME TypeInv, FinInv, [Next]_vars PROVE FinInv'
    OBVIOUS
  <1>1. /\ deployment \in [Ops -> Record] /\ track \in Tracking /\ project \in Row
        /\ Requests \subseteq Trackers /\ Ops \subseteq Trackers
    BY DEF TypeInv, TypeOK, Trackers
  <1>2. /\ \A o \in Ops : Fin(deployment[o])
        /\ \A p \in Trackers : Sound(track[p])
    BY DEF FinInv
  <1>3. {"backend_trigger_failed", "backend_tracking_failed"} \subseteq BackendTerminal
    BY DEF BackendTerminal
  <1>4. ASSUME NEW o \in Ops, RunStep(o) PROVE FinInv'
    <2>1. \A q \in Trackers \ {o} : track'[q] = track[q]
      BY <1>4, RunStepMoves
    <2>2. CASE MonitorTick(o)
      BY <1>1, <1>2, <2>1, <2>2, ReadSound DEF MonitorTick, FinInv, lockVars
    <2>3. CASE ~ MonitorTick(o)
      <3>1. \/ track' = track
            \/ \E place \in BuildPhase \cup DeployPhase \cup {"done"} : Goto(o, place)
            \/ \E status \in BackendTerminal : FailWith(o, status, "done")
        BY <1>3, <1>4, <2>3
        DEF RunStep, OpStep, BuildAndDeployProject, CreateBuildFails, FetchConfig,
            UpdateContainers, DeployProjectInternal, HandleBuildError, CreateBuild, BuildEnds,
            BuildProgress, TriggerDeploy, SaveEvent, MonitorTimeout, BuildPhase, DeployPhase
      <3>2. Sound(track'[o])
        BY <1>1, <1>2, <3>1, GotoMoves, FailMoves DEF Sound, BuildPhase, DeployPhase
      <3>3. \/ deployment' = deployment
            \/ deployment' = [deployment EXCEPT ![o] = NewRecord]
            \/ deployment' = [deployment EXCEPT ![o] = WithEvent(NewRecord)]
        BY <1>4, <2>3
        DEF RunStep, OpStep, BuildAndDeployProject, CreateBuildFails, FetchConfig,
            UpdateContainers, DeployProjectInternal, HandleBuildError, CreateBuild, BuildEnds,
            BuildProgress, TriggerDeploy, SaveEvent, MonitorTimeout, lockVars
      <3>4. Fin(NewRecord) /\ Fin(WithEvent(NewRecord))
        BY <1>1, <1>2, FinKept
      <3>5. \A k \in Ops : Fin(deployment'[k])
        BY <1>1, <1>2, <3>3, <3>4
      <3> QED
        BY <2>1, <1>2, <3>2, <3>5 DEF FinInv
    <2> QED
      BY <2>2, <2>3
  <1>5. ASSUME NEW p \in Trackers, TrackStep(p) PROVE FinInv'
    <2> DEFINE t == track[p].target
               d == track[p].d
    <2>1. \A q \in Trackers \ {p} : track'[q] = track[q]
      BY <1>5, TrackStepMoves
    <2>2. /\ d \in Record /\ (track[p].pc \in RefreshPhase => t \in Ops)
          /\ {Rest(p), End(p), track[p].ret} \subseteq {"idle", "monitor", "done"}
      BY HeldTyped, RestTyped
    <2>3. Sound(track[p]) /\ WithRun(d) \in Record
      BY <1>2, <2>2, RecordTyped, StatusFacts
    <2>4. CASE KubeUnreachable(p)
      <3>1. Fin(d) /\ ~ IsCompleted(d)
        BY <2>3, <2>4 DEF KubeUnreachable, At, Sound
      <3>2. PICK x \in {d, WithRun(d)} :
               track' = [track EXCEPT ![p].pc = "save",
                                      ![p].d = Failed(x, "backend_tracking_lost")]
        BY <2>4 DEF KubeUnreachable
      <3>3. x \in Record /\ Fin(x) /\ ~ IsCompleted(x)
        BY <2>2, <2>3, <3>1, FinKept
      <3>4. Fin(Failed(x, "backend_tracking_lost")) /\ ~ IsCompleted(Failed(x, "backend_tracking_lost"))
        BY <3>3, FinKept
      <3>5. Sound(track'[p])
        <4>1. track'[p].pc = "save" /\ track'[p].d = Failed(x, "backend_tracking_lost")
          BY <1>1, <3>2 DEF Tracking, Track
        <4> QED
          BY <3>4, <4>1 DEF Sound
      <3> QED
        BY <1>2, <2>1, <2>4, <3>5 DEF KubeUnreachable, FinInv, lockVars
    <2>5. CASE KubeAnswers(p)
      <3>1. Fin(d) /\ ~ IsCompleted(d)
        BY <2>3, <2>5 DEF KubeAnswers, At, Sound
      <3>2. Fin(WithRun(d))
        BY <2>2, <3>1, FinKept
      <3>3. /\ Fin(Running(WithRun(d))) /\ ~ IsCompleted(Running(WithRun(d)))
            /\ \A s \in {"success", "failed", "cancelled"} :
                  Fin(Completed(WithRun(d), s)) /\ IsCompleted(Completed(WithRun(d), s))
        BY <2>3, <3>2, FinKept, StatusFacts
      <3>4. \/ FailWith(p, "backend_tracking_failed", Rest(p))
            \/ Goto(p, Rest(p))
            \/ track' = [track EXCEPT ![p].pc = "save", ![p].d = Running(WithRun(d))]
            \/ \E s \in {"success", "failed", "cancelled"} :
                  track' = [track EXCEPT ![p].pc = "commit", ![p].d = Completed(WithRun(d), s)]
        BY <2>5 DEF KubeAnswers
      <3>5. Sound(track'[p])
        <4>1. CASE FailWith(p, "backend_tracking_failed", Rest(p)) \/ Goto(p, Rest(p))
          BY <1>1, <1>3, <2>2, <4>1, FailMoves, GotoMoves DEF Sound
        <4>2. CASE track' = [track EXCEPT ![p].pc = "save", ![p].d = Running(WithRun(d))]
          <5>1. track'[p].pc = "save" /\ track'[p].d = Running(WithRun(d))
            BY <1>1, <4>2 DEF Tracking, Track
          <5> QED
            BY <3>3, <5>1 DEF Sound
        <4>3. ASSUME NEW s \in {"success", "failed", "cancelled"},
                     track' = [track EXCEPT ![p].pc = "commit", ![p].d = Completed(WithRun(d), s)]
              PROVE  Sound(track'[p])
          <5>1. track'[p].pc = "commit" /\ track'[p].d = Completed(WithRun(d), s)
            BY <1>1, <4>3 DEF Tracking, Track
          <5> QED
            BY <3>3, <5>1 DEF Sound
        <4> QED
          BY <3>4, <4>1, <4>2, <4>3
      <3> QED
        BY <1>2, <2>1, <2>5, <3>5 DEF KubeAnswers, FinInv, lockVars
    <2>6. CASE SaveTracked(p) \/ CommitTracked(p)
      <3>1. Fin(d)
        BY <2>3, <2>6 DEF SaveTracked, CommitTracked, At, Sound
      <3>2. deployment' = deployment \/ deployment' = [deployment EXCEPT ![t] = d]
        BY <2>6 DEF SaveTracked, CommitTracked
      <3>3. track'[p].pc \in {"idle", "monitor", "done"}
        BY <1>1, <2>2, <2>6, GotoMoves DEF SaveTracked, CommitTracked
      <3>4. \A k \in Ops : Fin(deployment'[k])
        BY <1>1, <1>2, <3>1, <3>2
      <3> QED
        BY <1>2, <2>1, <3>3, <3>4 DEF FinInv, Sound
    <2>7. CASE FailRead(p)
      <3>1. t \in Ops /\ track[p].fail \in BackendTerminal
        BY <2>2, <2>3, <2>7 DEF FailRead, At, RefreshPhase, Sound
      <3>2. /\ track'[p].pc = "failSave" /\ track'[p].d = deployment[t]
            /\ track'[p].fail = track[p].fail
        BY <1>1, <2>7 DEF FailRead, Tracking, Track
      <3>3. Sound(track'[p])
        BY <1>2, <3>1, <3>2 DEF Sound
      <3> QED
        BY <1>2, <2>1, <2>7, <3>3 DEF FailRead, FinInv, lockVars
    <2>8. CASE FailSave(p)
      <3>1. Fin(d) /\ track[p].fail \in BackendTerminal
        BY <2>3, <2>8 DEF FailSave, At, Sound
      <3>2. Fin(Failed(d, track[p].fail))
        BY <2>2, <3>1, FinKept
      <3>3. \/ deployment' = deployment
            \/ deployment' = [deployment EXCEPT ![t] = Failed(d, track[p].fail)]
        BY <2>8 DEF FailSave
      <3>4. track'[p].pc \in {"idle", "monitor", "done"}
        BY <1>1, <2>2, <2>8, GotoMoves DEF FailSave
      <3>5. \A k \in Ops : Fin(deployment'[k])
        BY <1>1, <1>2, <3>2, <3>3
      <3> QED
        BY <1>2, <2>1, <3>4, <3>5 DEF FinInv, Sound
    <2> QED
      BY <1>5, <2>4, <2>5, <2>6, <2>7, <2>8 DEF TrackStep
  <1>6. ASSUME NEW r \in Requests, RequestStep(r) PROVE FinInv'
    <2>1. CASE RefreshActiveDeployment(r)
      <3>1. project.active \in Ops
        BY <1>1, <2>1 DEF RefreshActiveDeployment, Row
      <3>2. Sound(track'[r]) /\ \A q \in Trackers \ {r} : track'[q] = track[q]
        BY <1>1, <2>1, <3>1, ReadSound, ReadMoves DEF RefreshActiveDeployment
      <3> QED
        BY <1>2, <2>1, <3>2 DEF RefreshActiveDeployment, FinInv, lockVars
    <2>2. CASE ~ RefreshActiveDeployment(r)
      <3>1. /\ deployment' = deployment
            /\ \/ track' = track
               \/ \E place \in {"idle", "builds", "reset"} : Goto(r, place)
        BY <1>6, <2>2 DEF RequestStep, RefreshActiveBuildStatuses, ReadBuild, RefreshBuild,
                          LoadForReset, ResetProject, lockVars
      <3>2. Sound(track'[r]) /\ \A q \in Trackers \ {r} : track'[q] = track[q]
        BY <1>1, <1>2, <3>1, GotoMoves DEF Sound
      <3> QED
        BY <1>2, <3>1, <3>2 DEF FinInv
    <2> QED
      BY <2>1, <2>2
  <1>7. ASSUME NEW e \in Edits, EditStep(e) PROVE FinInv'
    BY <1>7 DEF EditStep, ReadForUpdate, UpdateProject, ReadForDelete, DeleteProject, FinInv,
                lockVars
  <1>8. CASE Elsewhere
    BY <1>8, ElsewhereMoves DEF FinInv, Sound, lockVars
  <1>9. CASE UNCHANGED vars
    BY <1>9 DEF vars, FinInv
  <1> QED
    BY <1>4, <1>5, <1>6, <1>7, <1>8, <1>9, StepParts

\* A row of DEPLOYMENTS has a finish time exactly when its status is terminal, also when
\* it recovers from tracking_lost, and although stale copies of the row are saved.
THEOREM FinishedIffCompletedHolds == Spec => []FinishedIffCompleted
  <1>1. FinInv => FinishedIffCompleted
    BY DEF FinInv, Fin, FinishedIffCompleted
  <1> QED
    BY <1>1, InitTyped, StepTyped, FinInit, FinStep, PTL DEF Spec

-----------------------------------------------------------------------------
(* The owner of the lock is unfinished, unless an UpdateProject writes back the *)
(* row it has read before (run stale_update).                                   *)

OwnerInv ==
    /\ OwnerIsUnfinished
    /\ \A e \in Edits : /\ edit[e].pc # "update"
                        /\ edit[e].pc = "delete" => edit[e].row.op = "nothing"

\* Initially no deployment owns the lock.
LEMMA OwnerInit == Init => OwnerInv
    BY NoOpAssumption DEF Init, OwnerInv, OwnerIsUnfinished, NewRow

\* A release of the lock leaves the owner in place or leaves none.
LEMMA ReleaseOwner ==
    ASSUME NEW row \in Row, NEW d
    PROVE  /\ Release(row, d).active \in {row.active, NoOp}
           /\ ~ row.deleted /\ Pair(row) /\ d # NoOp => Release(row, d).active # d
    BY DEF Release, Save, CompleteDeploy, CanCompleteDeploy, Pair, Row

\* Every step keeps OwnerInv, unless an old copy of the project is written back.
LEMMA OwnerStep ==
    ASSUME "update" \notin Environment
    PROVE  TypeInv /\ PairInv /\ FinInv /\ OwnerInv /\ [Next]_vars => OwnerInv'
  <1> SUFFICES ASSUME TypeInv, PairInv, FinInv, OwnerInv, [Next]_vars PROVE OwnerInv'
    OBVIOUS
  <1>1. /\ deployment \in [Ops -> Record] /\ track \in Tracking /\ project \in Row
        /\ held \in [Requests -> Row] /\ edit \in [Edits -> EditState]
        /\ Requests \subseteq Trackers /\ Ops \subseteq Trackers /\ NoOp \notin Ops
    BY NoOpAssumption DEF TypeInv, TypeOK, Trackers
  <1>2. /\ Pair(project)
        /\ \A o \in Ops : project.active = o => o \in created /\ ~ IsCompleted(deployment[o])
    BY DEF PairInv, OwnerInv, OwnerIsUnfinished
  <1>3. ~ IsCompleted(NewRecord) /\ ~ IsCompleted(WithEvent(NewRecord))
    BY StatusFacts DEF IsCompleted, NewRecord, WithEvent
  <1>4. ASSUME NEW o \in Ops, RunStep(o) PROVE OwnerInv'
    <2>1. \/ UNCHANGED lockVars
          \/ /\ project' = Save(project, StartDeploy(project, o))
             /\ created' = created \cup {o}
             /\ deployment' = [deployment EXCEPT ![o] = NewRecord]
          \/ /\ project' \in {Save(project, StartBuild(project)),
                              Save(project, CompleteBuild(project)), project}
             /\ UNCHANGED created
             /\ \/ UNCHANGED deployment
                \/ deployment' = [deployment EXCEPT ![o] = WithEvent(NewRecord)]
      BY <1>4 DEF RunStep, OpStep, BuildAndDeployProject, CreateBuildFails, FetchConfig,
         UpdateContainers, DeployProjectInternal, HandleBuildError, CreateBuild, BuildEnds,
         BuildProgress, TriggerDeploy, SaveEvent, MonitorTick, MonitorTimeout, lockVars
    <2>2. OwnerIsUnfinished'
      <3>1. CASE UNCHANGED lockVars
        BY <1>2, <3>1 DEF OwnerIsUnfinished, lockVars
      <3>2. CASE /\ project' = Save(project, StartDeploy(project, o))
                 /\ created' = created \cup {o}
                 /\ deployment' = [deployment EXCEPT ![o] = NewRecord]
        <4>1. project'.active \in {project.active, o}
          BY <1>1, <3>2 DEF Save, StartDeploy, Row
        <4> QED
          BY <1>1, <1>2, <1>3, <3>2, <4>1 DEF OwnerIsUnfinished
      <3>3. CASE /\ project' \in {Save(project, StartBuild(project)),
                                  Save(project, CompleteBuild(project)), project}
                 /\ UNCHANGED created
                 /\ \/ UNCHANGED deployment
                    \/ deployment' = [deployment EXCEPT ![o] = WithEvent(NewRecord)]
        <4>1. project'.active = project.active
          BY <1>1, <3>3 DEF Save, StartBuild, CompleteBuild, Row
        <4> QED
          BY <1>1, <1>2, <1>3, <3>3, <4>1 DEF OwnerIsUnfinished
      <3> QED
        BY <2>1, <3>1, <3>2, <3>3
    <2> QED
      BY <1>4, <2>2, RunStepMoves DEF OwnerInv
  <1>5. ASSUME NEW p \in Trackers, TrackStep(p) PROVE OwnerInv'
    <2> DEFINE t == track[p].target
    <2>1. track[p].pc \in RefreshPhase
      BY <1>5 DEF TrackStep, KubeUnreachable, KubeAnswers, SaveTracked, CommitTracked,
                  FailRead, FailSave, At, RefreshPhase
    <2>2. t \in Ops
      BY <2>1, HeldTyped
    <2>3. created' = created /\ edit' = edit
      BY <1>5, TrackStepMoves
    <2>4. CASE SaveTracked(p)
      <3>1. ~ IsCompleted(track[p].d)
        BY <2>4 DEF SaveTracked, At, FinInv, Sound
      <3> QED
        BY <1>1, <1>2, <2>3, <2>4, <3>1 DEF SaveTracked, OwnerInv, OwnerIsUnfinished
    <2>5. CASE CommitTracked(p) \/ FailSave(p)
      <3>1. \/ UNCHANGED <<project, deployment>>
            \/ /\ ~ project.deleted /\ project' = Release(project, t)
               /\ \A k \in Ops \ {t} : deployment'[k] = deployment[k]
        BY <1>1, <2>5 DEF CommitTracked, FailSave
      <3>2. CASE UNCHANGED <<project, deployment>>
        BY <1>2, <2>3, <3>2 DEF OwnerInv, OwnerIsUnfinished
      <3>3. CASE /\ ~ project.deleted /\ project' = Release(project, t)
                 /\ \A k \in Ops \ {t} : deployment'[k] = deployment[k]
        <4>1. project'.active \in {project.active, NoOp} /\ project'.active # t
          BY <1>1, <1>2, <2>2, <3>3, ReleaseOwner
        <4> QED
          BY <1>1, <1>2, <2>3, <3>3, <4>1 DEF OwnerInv, OwnerIsUnfinished
      <3> QED
        BY <3>1, <3>2, <3>3
    <2>6. CASE KubeUnreachable(p) \/ KubeAnswers(p) \/ FailRead(p)
      BY <1>2, <2>3, <2>6 DEF KubeUnreachable, KubeAnswers, FailRead, lockVars, OwnerInv,
                              OwnerIsUnfinished
    <2> QED
      BY <1>5, <2>4, <2>5, <2>6 DEF TrackStep
  <1>6. ASSUME NEW r \in Requests, RequestStep(r) PROVE OwnerInv'
    <2>1. edit' = edit /\ created' = created /\ deployment' = deployment
      BY <1>6 DEF RequestStep, RefreshActiveDeployment, RefreshActiveBuildStatuses, ReadBuild,
                  RefreshBuild, LoadForReset, ResetProject, lockVars
    <2>2. project'.active \in {project.active, NoOp}
      <3>1. CASE ResetProject(r)
        <4>1. held[r].active = NoOp /\ held[r] \in Row
          BY <1>1, <3>1 DEF ResetProject, PairInv, Pair
        <4> QED
          BY <1>1, <3>1, <4>1 DEF ResetProject, Save, CompleteBuild, Row
      <3>2. CASE ~ ResetProject(r)
        BY <1>6, <3>2 DEF RequestStep, RefreshActiveDeployment, RefreshActiveBuildStatuses,
                          ReadBuild, RefreshBuild, LoadForReset, lockVars
      <3> QED
        BY <3>1, <3>2
    <2> QED
      BY <1>1, <1>2, <2>1, <2>2 DEF OwnerInv, OwnerIsUnfinished
  <1>7. ASSUME NEW e \in Edits, EditStep(e) PROVE OwnerInv'
    <2>1. ~ ReadForUpdate(e) /\ ~ UpdateProject(e)
      BY DEF ReadForUpdate, UpdateProject, OwnerInv
    <2>2. /\ created' = created /\ deployment' = deployment
          /\ project'.active \in {project.active, NoOp}
      <3>1. CASE ReadForDelete(e)
        BY <3>1 DEF ReadForDelete, lockVars
      <3>2. CASE DeleteProject(e)
        <4>1. edit[e].row.active = NoOp /\ edit[e].row \in Row
          BY <1>1, <3>2 DEF DeleteProject, OwnerInv, PairInv, Pair, EditState
        <4> QED
          BY <1>1, <3>2, <4>1 DEF DeleteProject, Save, SoftDelete, Row
      <3> QED
        BY <1>7, <2>1, <3>1, <3>2 DEF EditStep
    <2>3. \/ edit' = [edit EXCEPT ![e] = [pc |-> "done", row |-> NewRow]]
          \/ /\ edit' = [edit EXCEPT ![e] = [pc |-> "delete", row |-> project]]
             /\ project.op = "nothing"
      BY <1>7, <2>1 DEF EditStep, ReadForDelete, DeleteProject
    <2>4. \A k \in Edits : /\ edit'[k].pc # "update"
                           /\ edit'[k].pc = "delete" => edit'[k].row.op = "nothing"
      BY <1>1, <2>3 DEF OwnerInv
    <2> QED
      BY <1>1, <1>2, <2>2, <2>4 DEF OwnerInv, OwnerIsUnfinished
  <1>8. CASE Elsewhere
    <2>1. UNCHANGED lockVars
      BY <1>8, ElsewhereMoves
    <2>2. edit' = edit \/ Crash
      BY <1>8, ElsewhereMoves
    <2>3. \A k \in Edits : /\ edit'[k].pc # "update"
                           /\ edit'[k].pc = "delete" => edit'[k].row.op = "nothing"
      BY <2>2 DEF Crash, OwnerInv
    <2> QED
      BY <1>2, <2>1, <2>3 DEF OwnerInv, OwnerIsUnfinished, lockVars
  <1>9. CASE UNCHANGED vars
    BY <1>9 DEF vars, OwnerInv, OwnerIsUnfinished
  <1> QED
    BY <1>4, <1>5, <1>6, <1>7, <1>8, <1>9, StepParts

\* As long as no UpdateProject interferes, the deployment that owns the lock has a row
\* and is not completed, whatever crashes, lost answers, failing transactions and
\* refresh requests do: so a refresh can still end it and release the lock.
THEOREM OwnerIsUnfinishedHolds ==
    ASSUME "update" \notin Environment
    PROVE  Spec => []OwnerIsUnfinished
  <1>1. OwnerInv => OwnerIsUnfinished
    BY DEF OwnerInv
  <1>2. TypeInv /\ PairInv /\ FinInv /\ OwnerInv /\ [Next]_vars => OwnerInv'
    BY OwnerStep
  <1> QED
    BY <1>1, <1>2, InitTyped, StepTyped, PairInit, PairStep, FinInit, FinStep, OwnerInit,
       PTL DEF Spec

-----------------------------------------------------------------------------
(* The owner of the lock has a goroutine, as long as the server runs, no        *)
(* statement fails and no UpdateProject writes back an old row.                 *)

\* Run o has created its deployment.
Departed(o) == track[o].pc \notin BuildPhase \cup {"idle"}

\* Its deployment has no event id yet, or is marked as never triggered.
Early(o) ==
    \/ track[o].pc \in {"trigger", "saveEvent"}
    \/ /\ track[o].pc \in {"failRead", "failSave"}
       /\ track[o].fail = "backend_trigger_failed"

\* A record nobody can have looked up in Kubernetes.
Bare(d) == ~ d.event /\ ~ d.run /\ d.status \in {"untracked"} \cup Terminal

Follows(r, o) == track[r].pc \in RefreshPhase /\ track[r].target = o

\* What a request may be doing to deployment o.
FollowerSound(r, o) ==
    Follows(r, o) =>
        /\ Departed(o)
        /\ track[r].pc \in {"failRead", "failSave"} => track[r].fail = "backend_tracking_failed"
        /\ Early(o) => /\ track[r].pc \in {"failRead", "failSave"}
                       /\ track[r].pc = "failSave" => Bare(track[r].d)

\* What run o holds when it ends its own deployment.
RunSound(o) ==
    /\ track[o].pc \in {"failRead", "failSave"} => track[o].ret # "idle"
    /\ Early(o) => Bare(deployment[o])
    /\ track[o].pc = "failSave" =>
          /\ IsCompleted(track[o].d) => project.active # o
          /\ Early(o) => Bare(track[o].d)

\* A deployment that owns the lock is past its creation, and not abandoned.
OwnerSound(o) ==
    project.active = o => /\ Departed(o)
                          /\ crashes = 0 /\ dbErrors = 0 => track[o].pc # "done"

MonitorInv ==
    /\ project.deleted => project.active = NoOp
    /\ \A o \in Ops : OwnerSound(o) /\ RunSound(o)
    /\ \A r \in Requests, o \in Ops : FollowerSound(r, o)

\* Initially nobody has a deployment.
LEMMA MonitorInit == Init => MonitorInv
    BY NoOpAssumption, TrackersAssumption
    DEF Init, MonitorInv, OwnerSound, RunSound, FollowerSound, Follows, Early, NewRow, IdleTrack,
        Trackers, RefreshPhase

\* When run o moves, what it leaves alone stays sound.
LEMMA OneRunMoves ==
    ASSUME MonitorInv, NEW o \in Ops,
           project'.deleted => project'.active = NoOp,
           \A k \in Ops \ {o} : /\ project'.active = k => project.active = k
                                /\ deployment'[k] = deployment[k],
           \A q \in Trackers \ {o} : track'[q] = track[q],
           crashes' = 0 /\ dbErrors' = 0 => crashes = 0 /\ dbErrors = 0,
           OwnerSound(o)', RunSound(o)', \A r \in Requests : FollowerSound(r, o)'
    PROVE  MonitorInv'
  <1>1. /\ \A r \in Requests : track'[r] = track[r]
        /\ \A k \in Ops \ {o} : track'[k] = track[k]
    BY TrackersAssumption DEF Trackers
  <1>2. \A k \in Ops \ {o} : OwnerSound(k)'
    BY <1>1 DEF MonitorInv, OwnerSound, Departed
  <1>3. \A k \in Ops \ {o} : RunSound(k)'
    BY <1>1 DEF MonitorInv, RunSound, Early
  <1>4. \A r \in Requests, k \in Ops \ {o} : FollowerSound(r, k)'
    BY <1>1 DEF MonitorInv, FollowerSound, Follows, Departed, Early
  <1> QED
    BY <1>2, <1>3, <1>4 DEF MonitorInv

\* When request r moves, the runs stay sound unless it spoils an early deployment.
LEMMA OneRequestMoves ==
    ASSUME MonitorInv, NEW r \in Requests,
           project'.deleted => project'.active = NoOp,
           \A k \in Ops : /\ project'.active = k => project.active = k
                          /\ deployment'[k] = deployment[k] \/ (Early(k) => Bare(deployment'[k])),
           \A q \in Trackers \ {r} : track'[q] = track[q],
           crashes' = 0 /\ dbErrors' = 0 => crashes = 0 /\ dbErrors = 0,
           \A k \in Ops : FollowerSound(r, k)'
    PROVE  MonitorInv'
  <1>1. /\ \A q \in Requests \ {r} : track'[q] = track[q]
        /\ \A k \in Ops : track'[k] = track[k]
    BY TrackersAssumption DEF Trackers
  <1>2. \A k \in Ops : OwnerSound(k)'
    BY <1>1 DEF MonitorInv, OwnerSound, Departed
  <1>3. \A k \in Ops : RunSound(k)'
    BY <1>1 DEF MonitorInv, RunSound, Early, Bare
  <1>4. \A q \in Requests \ {r}, k \in Ops : FollowerSound(q, k)'
    BY <1>1 DEF MonitorInv, FollowerSound, Follows, Departed, Early
  <1> QED
    BY <1>2, <1>3, <1>4 DEF MonitorInv

\* What the first read of a refresh of deployment t has found.
LEMMA ReadLeads ==
    ASSUME track \in Tracking, NEW p \in Trackers, NEW t, ReadDeployment(p, t)
    PROVE  \/ track'[p].pc = End(p) /\ IsCompleted(deployment[t])
           \/ track'[p].pc = Rest(p)
           \/ /\ track'[p].pc = "failRead" /\ track'[p].target = t
              /\ track'[p].fail = "backend_tracking_failed" /\ track'[p].ret = Rest(p)
           \/ /\ track'[p].pc = "query" /\ track'[p].target = t
              /\ deployment[t].run \/ deployment[t].event
  <1>1. CASE Goto(p, End(p)) /\ IsCompleted(deployment[t])
    BY <1>1, GotoMoves
  <1>2. CASE Goto(p, Rest(p))
    BY <1>2, GotoMoves
  <1>3. CASE track' = [track EXCEPT ![p] = [IdleTrack(t) EXCEPT !.pc = "failRead",
                                !.fail = "backend_tracking_failed", !.ret = Rest(p)]]
    BY <1>3 DEF Tracking, IdleTrack
  <1>4. CASE /\ deployment[t].run \/ deployment[t].event
             /\ track' = [track EXCEPT ![p] = [IdleTrack(t) EXCEPT !.pc = "query",
                                                                   !.d = deployment[t]]]
    BY <1>4 DEF Tracking, IdleTrack
  <1> QED
    BY <1>1, <1>2, <1>3, <1>4 DEF ReadDeployment

\* A step of a run that builds, and of one that triggers its deployment.
LEMMA MonitorRun ==
    ASSUME TypeInv, PairInv, OwnerInv, MonitorInv, NEW o \in Ops, RunStep(o)
    PROVE  MonitorInv'
  <1>1. /\ track \in Tracking /\ project \in Row /\ deployment \in [Ops -> Record]
        /\ o \in Trackers /\ Requests \subseteq Trackers \ {o} /\ dbErrors \in Nat
    BY TrackersAssumption DEF TypeInv, TypeOK, Trackers
  <1>2. /\ \A q \in Trackers \ {o} : track'[q] = track[q]
        /\ crashes' = crashes
    BY RunStepMoves
  <1>3. crashes' = 0 /\ dbErrors' = 0 => crashes = 0 /\ dbErrors = 0
    <2>1. dbErrors' \in {dbErrors, dbErrors + 1}
      BY DEF RunStep, OpStep, BuildAndDeployProject, CreateBuildFails, FetchConfig,
         UpdateContainers, DeployProjectInternal, HandleBuildError, CreateBuild, BuildEnds,
         BuildProgress, TriggerDeploy, SaveEvent, MonitorTick, MonitorTimeout, DbFails
    <2> QED
      BY <1>1, <1>2, <2>1
  <1>4. OwnerSound(o) /\ RunSound(o) /\ \A r \in Requests : FollowerSound(r, o)
    BY DEF MonitorInv
  <1>5. /\ project.deleted => project.active = NoOp
        /\ project.active = o => ~ IsCompleted(deployment[o])
    BY DEF MonitorInv, OwnerInv, OwnerIsUnfinished
  <1>6. CASE /\ track[o].pc \in BuildPhase \cup {"idle"}
             /\ track'[o].pc \in BuildPhase \cup {"done"}
             /\ project'.active = project.active /\ project'.deleted = project.deleted
             /\ deployment' = deployment
    <2>1. project.active # o /\ \A r \in Requests : ~ Follows(r, o)
      BY <1>4, <1>6 DEF OwnerSound, FollowerSound, Departed
    <2>2. OwnerSound(o)' /\ \A r \in Requests : FollowerSound(r, o)'
      BY <1>1, <1>2, <1>6, <2>1 DEF OwnerSound, FollowerSound, Follows
    <2>3. RunSound(o)'
      BY <1>6 DEF RunSound, Early, BuildPhase
    <2> QED
      BY <1>2, <1>3, <1>5, <1>6, <2>2, <2>3, OneRunMoves
  <1>7. CASE /\ track[o].pc = "lock" /\ track'[o].pc = "trigger"
             /\ ~ project.deleted /\ project' = Save(project, StartDeploy(project, o))
             /\ deployment' = [deployment EXCEPT ![o] = NewRecord]
    <2>1. project'.active = o /\ ~ project'.deleted
      BY <1>1, <1>7 DEF Save, StartDeploy, Row
    <2>2. \A r \in Requests : ~ Follows(r, o)
      BY <1>4, <1>7 DEF FollowerSound, Departed, BuildPhase
    <2>3. OwnerSound(o)' /\ \A r \in Requests : FollowerSound(r, o)'
      BY <1>1, <1>2, <1>7, <2>2 DEF OwnerSound, FollowerSound, Follows, Departed, BuildPhase
    <2>4. RunSound(o)'
      BY <1>1, <1>7 DEF RunSound, Early, Bare, NewRecord
    <2> QED
      BY <1>1, <1>2, <1>3, <1>7, <2>1, <2>3, <2>4, OneRunMoves
  <1>8. CASE UNCHANGED lockVars /\ TriggerDeploy(o)
    <2>1. \/ track'[o].pc = "saveEvent"
          \/ /\ track'[o].pc = "failRead" /\ track'[o].ret = "done"
             /\ track'[o].fail = "backend_trigger_failed"
      BY <1>1, <1>8, GotoMoves, FailMoves DEF TriggerDeploy
    <2>2. Early(o) /\ Early(o)' /\ Departed(o)'
      BY <1>8, <2>1 DEF TriggerDeploy, At, Early, Departed, BuildPhase
    <2>3. OwnerSound(o)' /\ RunSound(o)'
      BY <1>4, <1>8, <2>1, <2>2 DEF OwnerSound, RunSound, Bare, lockVars
    <2>4. \A r \in Requests : FollowerSound(r, o)'
      BY <1>1, <1>2, <1>4, <2>2 DEF FollowerSound, Follows, Bare
    <2> QED
      BY <1>2, <1>3, <1>5, <1>8, <2>3, <2>4, OneRunMoves DEF lockVars
  <1>9. CASE SaveEvent(o)
    <2>1. \/ track'[o].pc = "monitor"
          \/ /\ track'[o].pc = "failRead" /\ track'[o].ret = "done"
             /\ track'[o].fail = "backend_tracking_failed"
      BY <1>1, <1>9, GotoMoves, FailMoves DEF SaveEvent
    <2>2. project' = project /\ \A k \in Ops \ {o} : deployment'[k] = deployment[k]
      BY <1>1, <1>9 DEF SaveEvent
    <2>3. ~ Early(o)' /\ Departed(o)' /\ OwnerSound(o)' /\ RunSound(o)'
      BY <2>1 DEF Early, Departed, OwnerSound, RunSound, BuildPhase
    <2>4. \A r \in Requests : FollowerSound(r, o)'
      BY <1>1, <1>2, <1>4, <2>3 DEF FollowerSound, Follows
    <2> QED
      BY <1>2, <1>3, <1>5, <2>2, <2>3, <2>4, OneRunMoves
  <1>10. CASE UNCHANGED lockVars /\ (MonitorTick(o) \/ MonitorTimeout(o))
    <2>1. \/ track'[o].pc \in {"monitor", "query"}
          \/ track'[o].pc = "done" /\ IsCompleted(deployment[o])
          \/ /\ track'[o].pc = "failRead" /\ track'[o].ret # "idle"
             /\ track'[o].fail = "backend_tracking_failed"
      <3>1. CASE MonitorTick(o)
        BY <1>1, <3>1, ReadLeads DEF MonitorTick, Rest, End
      <3>2. CASE MonitorTimeout(o)
        BY <1>1, <3>2, FailMoves DEF MonitorTimeout
      <3> QED
        BY <1>10, <3>1, <3>2
    <2>2. ~ Early(o)' /\ Departed(o)' /\ RunSound(o)'
      BY <2>1 DEF Early, Departed, RunSound, BuildPhase
    <2>3. OwnerSound(o)'
      BY <1>5, <1>10, <2>1, <2>2 DEF OwnerSound, lockVars
    <2>4. \A r \in Requests : FollowerSound(r, o)'
      BY <1>1, <1>2, <1>4, <2>2 DEF FollowerSound, Follows
    <2> QED
      BY <1>2, <1>3, <1>5, <1>10, <2>2, <2>3, <2>4, OneRunMoves DEF lockVars
  <1>11. \/ /\ track[o].pc \in BuildPhase \cup {"idle"}
            /\ track'[o].pc \in BuildPhase \cup {"done"}
            /\ project'.active = project.active /\ project'.deleted = project.deleted
            /\ deployment' = deployment
         \/ /\ track[o].pc = "lock" /\ track'[o].pc = "trigger"
            /\ ~ project.deleted /\ project' = Save(project, StartDeploy(project, o))
            /\ deployment' = [deployment EXCEPT ![o] = NewRecord]
         \/ UNCHANGED lockVars /\ (TriggerDeploy(o) \/ MonitorTick(o) \/ MonitorTimeout(o))
         \/ SaveEvent(o)
    <2>1. /\ Save(project, StartBuild(project)).active = project.active
          /\ Save(project, StartBuild(project)).deleted = project.deleted
          /\ Save(project, CompleteBuild(project)).active = project.active
          /\ Save(project, CompleteBuild(project)).deleted = project.deleted
      BY <1>1 DEF Save, StartBuild, CompleteBuild, Row
    <2>2. CASE \E c \in Containers : CreateBuild(o, c) \/ BuildEnds(o, c) \/ BuildProgress(o, c)
      <3>1. /\ track[o].pc \in BuildPhase /\ UNCHANGED lockVars
            /\ track' = track \/ \E place \in BuildPhase : Goto(o, place)
        BY <2>2 DEF CreateBuild, BuildEnds, BuildProgress, At, BuildPhase
      <3> QED
        BY <1>1, <3>1, GotoMoves DEF lockVars
    <2>3. CASE \/ BuildAndDeployProject(o) \/ CreateBuildFails(o) \/ FetchConfig(o)
               \/ UpdateContainers(o) \/ HandleBuildError(o)
      <3>1. /\ track[o].pc \in BuildPhase \cup {"idle"}
            /\ \E place \in BuildPhase \cup {"done"} : Goto(o, place)
        BY <2>3 DEF BuildAndDeployProject, CreateBuildFails, FetchConfig, UpdateContainers,
                    HandleBuildError, At, BuildPhase
      <3>2. /\ deployment' = deployment
            /\ project' \in {project, Save(project, StartBuild(project)),
                             Save(project, CompleteBuild(project))}
        BY <2>3 DEF BuildAndDeployProject, CreateBuildFails, FetchConfig, UpdateContainers,
                    HandleBuildError, lockVars
      <3> QED
        BY <1>1, <2>1, <3>1, <3>2, GotoMoves
    <2>4. CASE DeployProjectInternal(o)
      BY <1>1, <2>4, GotoMoves DEF DeployProjectInternal, CanStartDeploy, At, BuildPhase, lockVars
    <2> QED
      BY <2>2, <2>3, <2>4 DEF RunStep, OpStep, TriggerDeploy, MonitorTick, MonitorTimeout
  <1> QED
    BY <1>6, <1>7, <1>8, <1>9, <1>10, <1>11

\* What a step of a refresh does to the rows and to the one who refreshes.
LEMMA TrackStepLeads ==
    ASSUME TypeInv, NEW p \in Trackers, TrackStep(p)
    PROVE  LET t == track[p].target
               n == track'[p]
           IN  \/ /\ track[p].pc = "query" /\ UNCHANGED lockVars
                  /\ \/ n.pc \in {"save", "commit"} /\ n.target = t
                     \/ n.pc = Rest(p)
                     \/ /\ n.pc = "failRead" /\ n.fail = "backend_tracking_failed"
                        /\ n.ret = Rest(p) /\ n.target = t
               \/ /\ track[p].pc = "save" /\ n.pc = Rest(p) /\ project' = project
                  /\ \A k \in Ops \ {t} : deployment'[k] = deployment[k]
               \/ /\ track[p].pc = "commit"
                  /\ \/ /\ n.pc = End(p) /\ ~ project.deleted /\ project' = Release(project, t)
                        /\ \A k \in Ops \ {t} : deployment'[k] = deployment[k]
                     \/ n.pc = Rest(p) /\ UNCHANGED <<project, deployment>>
               \/ /\ track[p].pc = "failRead" /\ UNCHANGED lockVars
                  /\ n = [track[p] EXCEPT !.pc = "failSave", !.d = deployment[t]]
               \/ track[p].pc = "failSave" /\ n.pc = track[p].ret /\ FailSave(p)
  <1>1. track \in Tracking /\ track[p] \in Track /\ deployment \in [Ops -> Record]
    BY DEF TypeInv, TypeOK, Tracking
  <1>2. ASSUME NEW place, NEW d, track' = [track EXCEPT ![p].pc = place, ![p].d = d]
      PROVE  /\ track'[p] = [track[p] EXCEPT !.pc = place, !.d = d]
             /\ track'[p].pc = place /\ track'[p].target = track[p].target
    <2>1. track'[p] = [track[p] EXCEPT !.pc = place, !.d = d]
      BY <1>1, <1>2 DEF Tracking, Track
    <2> QED
      BY <1>1, <2>1 DEF Track
  <1>3. CASE KubeUnreachable(p)
    <2>1. PICK d : track' = [track EXCEPT ![p].pc = "save", ![p].d = d]
      BY <1>3 DEF KubeUnreachable
    <2>2. track'[p].pc = "save" /\ track'[p].target = track[p].target
      BY <1>2, <2>1
    <2> QED
      BY <1>3, <2>2 DEF KubeUnreachable, At
  <1>4. CASE KubeAnswers(p)
    <2>1. \/ \E place \in {"save", "commit"} : \E d :
                track' = [track EXCEPT ![p].pc = place, ![p].d = d]
          \/ Goto(p, Rest(p)) \/ FailWith(p, "backend_tracking_failed", Rest(p))
      BY <1>4 DEF KubeAnswers
    <2>2. \/ track'[p].pc \in {"save", "commit"} /\ track'[p].target = track[p].target
          \/ track'[p].pc = Rest(p)
          \/ /\ track'[p].pc = "failRead" /\ track'[p].fail = "backend_tracking_failed"
             /\ track'[p].ret = Rest(p) /\ track'[p].target = track[p].target
      <3>1. ASSUME NEW place \in {"save", "commit"}, NEW d,
                   track' = [track EXCEPT ![p].pc = place, ![p].d = d]
            PROVE  track'[p].pc \in {"save", "commit"} /\ track'[p].target = track[p].target
        BY <1>2, <3>1
      <3>2. CASE Goto(p, Rest(p))
        BY <1>1, <3>2, GotoMoves
      <3>3. CASE FailWith(p, "backend_tracking_failed", Rest(p))
        BY <1>1, <3>3, FailMoves
      <3> QED
        BY <2>1, <3>1, <3>2, <3>3
    <2> QED
      BY <1>4, <2>2 DEF KubeAnswers, At
  <1>5. CASE SaveTracked(p)
    BY <1>1, <1>5, GotoMoves DEF SaveTracked, At
  <1>6. CASE CommitTracked(p)
    BY <1>1, <1>6, GotoMoves DEF CommitTracked, At
  <1>7. CASE FailRead(p)
    BY <1>7, <1>2 DEF FailRead, At
  <1>8. CASE FailSave(p)
    BY <1>1, <1>8, GotoMoves DEF FailSave, At
  <1> QED
    BY <1>3, <1>4, <1>5, <1>6, <1>7, <1>8 DEF TrackStep

\* Nobody completes a deployment for another one, and a deleted project stays one.
LEMMA TrackStepReleases ==
    ASSUME TypeInv, MonitorInv, NEW p \in Trackers, TrackStep(p)
    PROVE  /\ project'.deleted => project'.active = NoOp
           /\ project'.active \in {project.active, NoOp}
           /\ crashes' = crashes
           /\ dbErrors' = 0 => dbErrors = 0
  <1>1. project \in Row /\ dbErrors \in Nat
    BY DEF TypeInv, TypeOK
  <1>2. project' = project \/ project' = Release(project, track[p].target)
    BY DEF TrackStep, KubeUnreachable, KubeAnswers, SaveTracked, CommitTracked, FailRead,
           FailSave, lockVars
  <1>3. /\ Release(project, track[p].target).deleted = project.deleted
        /\ Release(project, track[p].target).active \in {project.active, NoOp}
    BY <1>1 DEF Release, Save, CompleteDeploy, CanCompleteDeploy, Row
  <1>4. dbErrors' \in {dbErrors, dbErrors + 1}
    BY DEF TrackStep, KubeUnreachable, KubeAnswers, SaveTracked, CommitTracked, FailRead,
           FailSave, DbFails
  <1> QED
    BY <1>1, <1>2, <1>3, <1>4, TrackStepMoves DEF MonitorInv

\* handleDeployFailure by the run itself releases the lock, unless a statement fails.
LEMMA FailSaveReleases ==
    ASSUME TypeInv, PairInv, FinInv, MonitorInv, NEW o \in Ops, FailSave(o)
    PROVE  dbErrors' = 0 => project'.active # o
  <1>1. /\ project \in Row /\ Pair(project) /\ dbErrors \in Nat /\ NoOp # o
        /\ track \in Tracking /\ o \in Trackers
    BY NoOpAssumption DEF TypeInv, TypeOK, PairInv, Trackers
  <1>2. track[o].target = o /\ track[o].d \in Record /\ track[o].pc = "failSave"
    BY <1>1, HeldTyped DEF Tracking, FailSave, At
  <1>3. CASE project.deleted
    BY <1>1, <1>3 DEF FailSave, MonitorInv
  <1>4. CASE ~ project.deleted /\ ~ CanFail(track[o].d, track[o].fail)
    <2>1. IsCompleted(track[o].d)
      BY <1>2, <1>4 DEF CanFail, MonitorInv, RunSound, Early, Bare, IsCompleted
    <2>2. project.active # o
      BY <1>2, <2>1 DEF MonitorInv, RunSound
    <2> QED
      BY <1>4, <2>2 DEF FailSave
  <1>5. CASE ~ project.deleted /\ CanFail(track[o].d, track[o].fail)
    <2>1. Release(project, o).active # o
      BY <1>1, <1>5, ReleaseOwner
    <2>2. dbErrors' = 0 => project' = Release(project, o)
      BY <1>1, <1>2, <1>5 DEF FailSave, DbFails
    <2> QED
      BY <2>1, <2>2
  <1> QED
    BY <1>3, <1>4, <1>5

\* A step of the monitor of a run, or of its handleDeployFailure.
LEMMA MonitorTrackRun ==
    ASSUME TypeInv, PairInv, FinInv, OwnerInv, MonitorInv, NEW o \in Ops, TrackStep(o)
    PROVE  MonitorInv'
  <1>1. /\ track \in Tracking /\ project \in Row /\ Pair(project)
        /\ deployment \in [Ops -> Record] /\ track[o] \in Track /\ track[o].target = o
        /\ o \in Trackers /\ Requests \subseteq Trackers \ {o} /\ NoOp \notin Ops
    BY TrackersAssumption, NoOpAssumption DEF TypeInv, TypeOK, Trackers, Tracking, PairInv
  <1>2. /\ \A q \in Trackers \ {o} : track'[q] = track[q]
        /\ project'.deleted => project'.active = NoOp
        /\ project'.active \in {project.active, NoOp}
        /\ crashes' = 0 /\ dbErrors' = 0 => crashes = 0 /\ dbErrors = 0
    BY <1>1, TrackStepMoves, TrackStepReleases
  <1>3. OwnerSound(o) /\ RunSound(o) /\ \A r \in Requests : FollowerSound(r, o)
    BY DEF MonitorInv
  <1>4. /\ project.deleted => project.active = NoOp
        /\ project.active = o => ~ IsCompleted(deployment[o])
    BY DEF MonitorInv, OwnerInv, OwnerIsUnfinished
  <1>5. Rest(o) = "monitor" /\ End(o) = "done"
    BY DEF Rest, End
  <1>6. track[o].ret \in {"idle", "monitor", "done"}
    BY <1>1, HeldTyped
  <1> DEFINE n == track'[o]
  <1>7. CASE n.pc = "failSave"
    <2>1. /\ track[o].pc = "failRead" /\ UNCHANGED lockVars
          /\ n = [track[o] EXCEPT !.pc = "failSave", !.d = deployment[o]]
      BY <1>1, <1>5, <1>6, <1>7, TrackStepLeads
    <2>2. n.d = deployment[o] /\ n.fail = track[o].fail /\ n.ret = track[o].ret
      BY <1>1, <2>1 DEF Track
    <2>3. (Early(o)' <=> Early(o)) /\ Departed(o)'
      BY <1>7, <2>1, <2>2 DEF Early, Departed, BuildPhase
    <2>4. OwnerSound(o)' /\ RunSound(o)'
      BY <1>3, <1>4, <1>7, <2>1, <2>2, <2>3 DEF OwnerSound, RunSound, lockVars
    <2>5. \A r \in Requests : FollowerSound(r, o)'
      BY <1>1, <1>2, <1>3, <2>3 DEF FollowerSound, Follows, Bare
    <2> QED
      BY <1>2, <2>1, <2>4, <2>5, OneRunMoves DEF lockVars
  <1>8. CASE n.pc # "failSave"
    <2>1. /\ n.pc \in {"save", "commit", "monitor", "done", "failRead"}
          /\ n.pc = "failRead" => n.fail = "backend_tracking_failed" /\ n.ret = "monitor"
          /\ n.pc = "done" =>
                track[o].pc = "failSave" \/ (~ project.deleted /\ project' = Release(project, o))
      <3>1. track[o].pc = "failSave" => track[o].ret # "idle"
        BY <1>3 DEF RunSound
      <3>2. CASE track[o].pc = "failSave"
        BY <1>1, <1>5, <1>6, <1>8, <3>1, <3>2, TrackStepLeads
      <3>3. CASE track[o].pc = "commit"
        BY <1>1, <1>5, <1>8, <3>3, TrackStepLeads
      <3>4. CASE track[o].pc \notin {"failSave", "commit", "failRead"}
        BY <1>1, <1>5, <1>8, <3>4, TrackStepLeads
      <3>5. track[o].pc # "failRead"
        BY <1>1, <1>8, TrackStepLeads DEF Track
      <3> QED
        BY <3>2, <3>3, <3>4, <3>5
    <2>2. ~ Early(o)' /\ Departed(o)' /\ RunSound(o)'
      BY <1>8, <2>1 DEF Early, Departed, RunSound, BuildPhase
    <2>3. OwnerSound(o)'
      <3>1. CASE n.pc # "done"
        BY <2>2, <3>1 DEF OwnerSound
      <3>2. CASE n.pc = "done" /\ track[o].pc = "failSave"
        <4>1. FailSave(o)
          BY <1>1, <3>2, TrackStepLeads
        <4> QED
          BY <2>2, <4>1, FailSaveReleases DEF OwnerSound
      <3>3. CASE n.pc = "done" /\ ~ project.deleted /\ project' = Release(project, o)
        BY <1>1, <2>2, <3>3, ReleaseOwner DEF OwnerSound
      <3> QED
        BY <2>1, <3>1, <3>2, <3>3
    <2>4. \A r \in Requests : FollowerSound(r, o)'
      BY <1>1, <1>2, <1>3, <2>2 DEF FollowerSound, Follows
    <2>5. \A k \in Ops \ {o} : deployment'[k] = deployment[k]
      <3>1. CASE FailSave(o)
        BY <1>1, <3>1 DEF FailSave
      <3>2. CASE ~ FailSave(o)
        BY <1>1, <3>2, TrackStepLeads DEF lockVars
      <3> QED
        BY <3>1, <3>2
    <2> QED
      BY <1>1, <1>2, <2>2, <2>3, <2>4, <2>5, OneRunMoves
  <1> QED
    BY <1>7, <1>8

\* A step of a refresh by a request.
LEMMA MonitorTrackRequest ==
    ASSUME TypeInv, MonitorInv, NEW r \in Requests, TrackStep(r)
    PROVE  MonitorInv'
  <1> DEFINE t == track[r].target
             n == track'[r]
  <1>1. /\ track \in Tracking /\ deployment \in [Ops -> Record] /\ track[r] \in Track
        /\ r \in Trackers /\ Ops \subseteq Trackers \ {r}
    BY TrackersAssumption DEF TypeInv, TypeOK, Trackers, Tracking
  <1>2. /\ \A q \in Trackers \ {r} : track'[q] = track[q]
        /\ project'.deleted => project'.active = NoOp
        /\ project'.active \in {project.active, NoOp}
        /\ crashes' = 0 /\ dbErrors' = 0 => crashes = 0 /\ dbErrors = 0
    BY <1>1, TrackStepMoves, TrackStepReleases
  <1>3. /\ track[r].ret \notin RefreshPhase /\ Rest(r) \notin RefreshPhase
        /\ End(r) \notin RefreshPhase
    BY <1>1, HeldTyped, RestTyped
  <1>4. track[r].pc \in RefreshPhase /\ t \in Ops /\ track[r].d \in Record
    BY <1>1, TrackStepLeads, HeldTyped DEF RefreshPhase
  <1>5. /\ Departed(t)
        /\ track[r].pc \in {"failRead", "failSave"} => track[r].fail = "backend_tracking_failed"
        /\ Early(t) => /\ track[r].pc \in {"failRead", "failSave"}
                       /\ track[r].pc = "failSave" => Bare(track[r].d)
        /\ Early(t) => Bare(deployment[t])
    BY <1>4 DEF MonitorInv, FollowerSound, Follows, RunSound
  <1>6. \A k \in Ops : (Departed(k)' <=> Departed(k)) /\ (Early(k)' <=> Early(k))
    BY <1>1, <1>2 DEF Departed, Early
  <1>7. \/ n.pc \notin RefreshPhase
        \/ /\ n.target = t /\ n.pc \in {"save", "commit"} /\ track[r].pc = "query"
        \/ /\ n.target = t /\ n.pc = "failRead" /\ n.fail = "backend_tracking_failed"
           /\ track[r].pc = "query"
        \/ /\ n.target = t /\ n.pc = "failSave" /\ track[r].pc = "failRead"
           /\ n.fail = track[r].fail /\ n.d = deployment[t]
    BY <1>1, <1>3, TrackStepLeads DEF Track
  <1>8. \A k \in Ops : FollowerSound(r, k)'
    BY <1>4, <1>5, <1>6, <1>7 DEF FollowerSound, Follows, Bare
  <1>9. \A k \in Ops : deployment'[k] = deployment[k] \/ (Early(k) => Bare(deployment'[k]))
    <2>1. CASE FailSave(r)
      <3>1. Early(t) => Bare(Failed(track[r].d, track[r].fail))
        BY <1>4, <1>5, <2>1, StatusFacts DEF Bare, Failed, Record, FailSave, At
      <3> QED
        BY <1>1, <2>1, <3>1 DEF FailSave
    <2>2. CASE ~ FailSave(r)
      <3>1. \A k \in Ops \ {t} : deployment'[k] = deployment[k]
        BY <1>1, <2>2, TrackStepLeads DEF lockVars
      <3>2. track[r].pc \in {"failRead", "failSave"} => deployment' = deployment
        BY <1>1, <2>2, TrackStepLeads DEF lockVars
      <3> QED
        BY <1>5, <3>1, <3>2
    <2> QED
      BY <2>1, <2>2
  <1> QED
    BY <1>1, <1>2, <1>8, <1>9, OneRequestMoves, NoOpAssumption

\* A step of a request outside a refresh of a deployment.
LEMMA MonitorRequest ==
    ASSUME TypeInv, PairInv, MonitorInv, NEW r \in Requests, RequestStep(r)
    PROVE  MonitorInv'
  <1> DEFINE n == track'[r]
  <1>1. /\ track \in Tracking /\ project \in Row /\ held \in [Requests -> Row]
        /\ r \in Trackers /\ Ops \subseteq Trackers \ {r} /\ NoOp \notin Ops /\ dbErrors \in Nat
    BY TrackersAssumption, NoOpAssumption DEF TypeInv, TypeOK, Trackers
  <1>2. crashes' = 0 /\ dbErrors' = 0 => crashes = 0 /\ dbErrors = 0
    <2>1. crashes' = crashes /\ dbErrors' \in {dbErrors, dbErrors + 1}
      BY DEF RequestStep, RefreshActiveDeployment, RefreshActiveBuildStatuses, ReadBuild,
             RefreshBuild, LoadForReset, ResetProject, DbFails
    <2> QED
      BY <1>1, <2>1
  <1>3. /\ deployment' = deployment
        /\ project'.deleted => project'.active = NoOp
        /\ project'.active \in {project.active, NoOp}
    <2>1. CASE ResetProject(r)
      <3>1. held[r].active = NoOp /\ held[r] \in Row
        BY <1>1, <2>1 DEF ResetProject, PairInv, Pair
      <3> QED
        BY <1>1, <2>1, <3>1 DEF ResetProject, Save, CompleteBuild, Row, MonitorInv
    <2>2. CASE ~ ResetProject(r)
      BY <2>2 DEF RequestStep, RefreshActiveDeployment, RefreshActiveBuildStatuses, ReadBuild,
                  RefreshBuild, LoadForReset, lockVars, MonitorInv
    <2> QED
      BY <2>1, <2>2
  <1>4. /\ \A q \in Trackers \ {r} : track'[q] = track[q]
        /\ \A k \in Ops : FollowerSound(r, k)'
    <2>1. CASE RefreshActiveDeployment(r)
      <3> DEFINE t == project.active
      <3>1. t \in Ops /\ ReadDeployment(r, t)
        BY <1>1, <2>1 DEF RefreshActiveDeployment, Row
      <3>2. \A q \in Trackers \ {r} : track'[q] = track[q]
        BY <1>1, <3>1, ReadMoves
      <3>3. /\ Departed(t) /\ (Early(t) => Bare(deployment[t]))
        BY <3>1 DEF MonitorInv, OwnerSound, RunSound
      <3>4. \/ n.pc \notin RefreshPhase
            \/ /\ n.pc = "failRead" /\ n.target = t /\ n.fail = "backend_tracking_failed"
            \/ /\ n.pc = "query" /\ n.target = t /\ ~ Bare(deployment[t])
        BY <1>1, <3>1, ReadLeads, RestTyped DEF Bare
      <3>5. \A k \in Ops : (Departed(k)' <=> Departed(k)) /\ (Early(k)' <=> Early(k))
        BY <1>1, <3>2 DEF Departed, Early
      <3>6. \A k \in Ops : FollowerSound(r, k)'
        BY <3>3, <3>4, <3>5 DEF FollowerSound, Follows
      <3> QED
        BY <3>2, <3>6
    <2>2. CASE \E c \in Containers : ReadBuild(r, c) \/ RefreshBuild(r, c)
      <3>1. track' = track
        BY <2>2 DEF ReadBuild, RefreshBuild
      <3> QED
        BY <3>1 DEF MonitorInv, FollowerSound, Follows, Departed, Early
    <2>3. CASE RefreshActiveBuildStatuses(r) \/ LoadForReset(r) \/ ResetProject(r)
      <3>1. \E place \in {"builds", "reset", "idle"} : Goto(r, place)
        BY <2>3 DEF RefreshActiveBuildStatuses, LoadForReset, ResetProject
      <3>2. /\ n.pc \notin RefreshPhase
            /\ \A q \in Trackers \ {r} : track'[q] = track[q]
        BY <1>1, <3>1, GotoMoves DEF RefreshPhase
      <3> QED
        BY <3>2 DEF FollowerSound, Follows
    <2> QED
      BY <2>1, <2>2, <2>3 DEF RequestStep
  <1> QED
    BY <1>1, <1>2, <1>3, <1>4, OneRequestMoves

\* Every step keeps MonitorInv, unless an old copy of the project is written back.
LEMMA MonitorStep ==
    ASSUME "update" \notin Environment
    PROVE  TypeInv /\ PairInv /\ FinInv /\ OwnerInv /\ MonitorInv /\ [Next]_vars => MonitorInv'
  <1> SUFFICES ASSUME TypeInv, PairInv, FinInv, OwnerInv, MonitorInv, [Next]_vars
               PROVE  MonitorInv'
    OBVIOUS
  <1>1. ASSUME NEW e \in Edits, EditStep(e) PROVE MonitorInv'
    <2>1. /\ UNCHANGED <<track, deployment, crashes, dbErrors>>
          /\ project'.deleted => project'.active = NoOp
          /\ project'.active \in {project.active, NoOp}
      <3>1. ~ ReadForUpdate(e) /\ ~ UpdateProject(e)
        BY DEF ReadForUpdate, UpdateProject, OwnerInv
      <3>2. CASE ReadForDelete(e)
        BY <3>2 DEF ReadForDelete, lockVars, MonitorInv
      <3>3. CASE DeleteProject(e)
        <4>1. edit[e].row.active = NoOp /\ edit[e].row \in Row /\ project \in Row
          BY <3>3 DEF DeleteProject, OwnerInv, PairInv, Pair, TypeInv, TypeOK, EditState
        <4> QED
          BY <3>3, <4>1 DEF DeleteProject, Save, SoftDelete, Row, MonitorInv
      <3> QED
        BY <1>1, <3>1, <3>2, <3>3 DEF EditStep
    <2> QED
      BY <2>1, NoOpAssumption
      DEF MonitorInv, OwnerSound, RunSound, FollowerSound, Follows, Departed, Early, Bare
  <1>2. CASE Elsewhere
    <2>1. UNCHANGED lockVars
      BY <1>2, ElsewhereMoves
    <2>2. CASE Crash
      <3>1. crashes' # 0
        BY <2>2 DEF Crash, TypeInv, TypeOK
      <3>2. \A p \in Trackers : track'[p].pc \in {"idle", "done"}
        BY <2>2 DEF Crash, IdleTrack
      <3>3. \A o \in Ops : track[o].pc # "idle" => track'[o].pc # "idle"
        BY <2>2, TrackersAssumption DEF Crash, IdleTrack, At, Trackers
      <3>4. \A o \in Ops : OwnerSound(o)' /\ RunSound(o)'
        BY <2>1, <3>1, <3>2, <3>3
        DEF MonitorInv, OwnerSound, RunSound, Departed, Early, BuildPhase, Trackers, lockVars
      <3>5. \A r \in Requests, o \in Ops : FollowerSound(r, o)'
        BY <3>2 DEF FollowerSound, Follows, RefreshPhase, Trackers
      <3> QED
        BY <2>1, <3>4, <3>5 DEF MonitorInv, lockVars
    <2>3. CASE ~ Crash
      <3>1. UNCHANGED <<track, crashes, dbErrors>>
        BY <1>2, <2>3 DEF Elsewhere, AgeDeployment, PipelineRuns, PipelineDeleted, AgeBuild
      <3> QED
        BY <2>1, <3>1
        DEF MonitorInv, OwnerSound, RunSound, FollowerSound, Follows, Departed, Early, Bare,
            lockVars
    <2> QED
      BY <2>2, <2>3
  <1>3. CASE UNCHANGED vars
    BY <1>3
    DEF vars, MonitorInv, OwnerSound, RunSound, FollowerSound, Follows, Departed, Early, Bare
  <1> QED
    BY <1>1, <1>2, <1>3, StepParts, MonitorRun, MonitorTrackRun, MonitorTrackRequest,
       MonitorRequest DEF Trackers

\* As long as the server runs, no statement fails and no UpdateProject interferes, the
\* deployment that owns the lock has a goroutine that is not at its end: whatever refresh
\* requests, deletions, slow steps and an unreachable Kubernetes do, a run that leaves
\* (the end of its monitor, handleDeployFailure) has released the lock.
THEOREM OwnerIsMonitoredHolds ==
    ASSUME "update" \notin Environment
    PROVE  Spec => []OwnerIsMonitored
  <1>1. MonitorInv => OwnerIsMonitored
    BY DEF MonitorInv, OwnerSound, Departed, OwnerIsMonitored, Live
  <1>2. TypeInv /\ PairInv /\ FinInv /\ OwnerInv /\ [Next]_vars => OwnerInv'
    BY OwnerStep
  <1>3. TypeInv /\ PairInv /\ FinInv /\ OwnerInv /\ MonitorInv /\ [Next]_vars => MonitorInv'
    BY MonitorStep
  <1> QED
    BY <1>1, <1>2, <1>3, InitTyped, StepTyped, PairInit, PairStep, FinInit, FinStep, OwnerInit,
       MonitorInit, PTL DEF Spec


-----------------------------------------------------------------------------
(***************************************************************************)
(* ProjectOps implements OperationLock.  Two circumstances are excluded,   *)
(* because with them it does not: an UpdateProject that writes back an old *)
(* status (run stale_update), and a refresh that finds the builds of an    *)
(* earlier run, or those of a run that is slow to take the deployment      *)
(* lock, and resets the project.  ExclusiveRun follows, when moreover the  *)
(* server is not slow.                                                     *)
(***************************************************************************)

\* Where the builds are refreshed there is one run only, and it is not slow.
RefreshesOneRun ==
    "refreshBuilds" \in Environment => "slow" \notin Environment /\ \A o, k \in Ops : o = k

-----------------------------------------------------------------------------
(* One run at a time counts on the build lock, and the project is then being *)
(* built or has been deleted under it.                                      *)

Claims == {o \in Ops : track[o].pc \in BuildPhase}

ClaimInv ==
    /\ \A o \in Claims : project.op = "building" \/ project.deleted
    /\ \A o \in Claims, k \in Claims : o = k

\* Save writes the whole row.
LEMMA SaveOver ==
    ASSUME NEW p \in Row, NEW q \in Row, ~ p.deleted
    PROVE  Save(p, q) = q
    BY DEF Save, Row

\* Initially nobody counts on the lock.
LEMMA ClaimInit == Init => ClaimInv
    BY DEF Init, ClaimInv, Claims, IdleTrack, Trackers, BuildPhase

\* The steps of a run, as the abstract lock sees them.
LEMMA RunStepClaims ==
    ASSUME TypeInv, ClaimInv, NEW o \in Ops, RunStep(o)
    PROVE  \/ /\ Claims' = {o} /\ Claims = {} /\ ~ project.deleted
              /\ project.op = "nothing" /\ project' = [project EXCEPT !.op = "building"]
           \/ /\ Claims' = {} /\ Claims = {o} /\ ~ project.deleted
              /\ project.op = "building" /\ project' = [project EXCEPT !.op = "nothing"]
           \/ /\ Claims' = {} /\ Claims = {o} /\ ~ project.deleted /\ project.op = "building"
              /\ project' = [project EXCEPT !.op = "deploying", !.active = o]
           \/ /\ Claims' = {} /\ Claims = {o} /\ project' = project
           \/ Claims' = Claims /\ project' = project
  <1>1. /\ project \in Row /\ track \in Tracking /\ o \in Trackers /\ Ops \subseteq Trackers
        /\ \A k \in Ops \ {o} : track'[k] = track[k]
    BY RunStepMoves DEF TypeInv, TypeOK, Trackers
  <1>2. CASE BuildAndDeployProject(o)
    <2>1. /\ ~ project.deleted /\ project.op = "nothing" /\ Goto(o, "fetch")
          /\ project' = Save(project, StartBuild(project))
      BY <1>2 DEF BuildAndDeployProject, CanStartBuild
    <2>2. project' = [project EXCEPT !.op = "building"]
      BY <1>1, <2>1 DEF Save, StartBuild, Row
    <2>3. Claims = {}
      BY <2>1 DEF ClaimInv
    <2>4. track'[o].pc \in BuildPhase
      BY <1>1, <2>1, GotoMoves DEF BuildPhase
    <2> QED
      BY <1>1, <2>1, <2>2, <2>3, <2>4 DEF Claims
  <1>3. ASSUME project' = project, o \in Claims, track'[o].pc \in BuildPhase
        PROVE  Claims' = Claims /\ project' = project
    BY <1>1, <1>3 DEF Claims
  <1>4. ASSUME project' = project, o \notin Claims, track'[o].pc \notin BuildPhase
        PROVE  Claims' = Claims /\ project' = project
    BY <1>1, <1>4 DEF Claims
  <1>5. ASSUME o \in Claims, track'[o].pc \notin BuildPhase
        PROVE  Claims' = {} /\ Claims = {o} /\ (project.op = "building" \/ project.deleted)
    BY <1>1, <1>5 DEF Claims, ClaimInv
  <1>6. CASE FetchConfig(o) \/ UpdateContainers(o) \/ CreateBuildFails(o)
    <2>1. /\ track[o].pc \in BuildPhase /\ project' = project
          /\ \E place \in BuildPhase : Goto(o, place)
      BY <1>6 DEF FetchConfig, UpdateContainers, CreateBuildFails, At, BuildPhase, lockVars
    <2>2. track'[o].pc \in BuildPhase /\ o \in Claims
      BY <1>1, <2>1, GotoMoves DEF Claims
    <2> QED
      BY <1>3, <2>1, <2>2
  <1>7. ASSUME NEW c \in Containers, CreateBuild(o, c) \/ BuildProgress(o, c) \/ BuildEnds(o, c)
        PROVE  Claims' = Claims /\ project' = project
    <2>1. /\ track[o].pc \in BuildPhase /\ project' = project
          /\ track' = track \/ \E place \in BuildPhase : Goto(o, place)
      BY <1>7 DEF CreateBuild, BuildProgress, BuildEnds, At, BuildPhase, lockVars
    <2>2. track'[o].pc \in BuildPhase /\ o \in Claims
      BY <1>1, <2>1, GotoMoves DEF Claims
    <2> QED
      BY <1>3, <2>1, <2>2
  <1>8. CASE DeployProjectInternal(o)
    <2>1. o \in Claims
      BY <1>8 DEF DeployProjectInternal, At, Claims, BuildPhase
    <2>2. CASE /\ CanStartDeploy(project) /\ Goto(o, "trigger")
               /\ project' = Save(project, StartDeploy(project, o))
      <3>1. project' = [project EXCEPT !.op = "deploying", !.active = o]
        <4>1. StartDeploy(project, o) \in Row /\ ~ project.deleted
          BY <1>1, <2>2, RowTyped DEF CanStartDeploy
        <4> QED
          BY <1>1, <2>2, <4>1, SaveOver DEF StartDeploy
      <3>2. track'[o].pc \notin BuildPhase
        BY <1>1, <2>2, GotoMoves DEF BuildPhase
      <3> QED
        BY <1>5, <2>1, <2>2, <3>1, <3>2 DEF CanStartDeploy
    <2>3. CASE Goto(o, "buildError") /\ project' = project
      <3>1. track'[o].pc \in BuildPhase
        BY <1>1, <2>3, GotoMoves DEF BuildPhase
      <3> QED
        BY <1>3, <2>1, <2>3, <3>1
    <2> QED
      BY <1>8, <2>2, <2>3 DEF DeployProjectInternal, lockVars
  <1>9. CASE HandleBuildError(o)
    <2>1. o \in Claims /\ track'[o].pc \notin BuildPhase
      BY <1>1, <1>9, GotoMoves DEF HandleBuildError, At, Claims, BuildPhase
    <2>2. \/ project' = project
          \/ /\ CanCompleteBuild(project)
             /\ project' = Save(project, CompleteBuild(project))
      BY <1>9 DEF HandleBuildError
    <2>3. CASE /\ CanCompleteBuild(project)
               /\ project' = Save(project, CompleteBuild(project))
      <3>1. project' = [project EXCEPT !.op = "nothing"]
        BY <1>1, <2>3 DEF CanCompleteBuild, Save, CompleteBuild, Row
      <3> QED
        BY <1>5, <2>1, <2>3, <3>1 DEF CanCompleteBuild
    <2> QED
      BY <1>5, <2>1, <2>2, <2>3
  <1>10. CASE TriggerDeploy(o) \/ SaveEvent(o) \/ MonitorTimeout(o) \/ MonitorTick(o)
    <2>1. o \notin Claims /\ project' = project
      BY <1>10 DEF TriggerDeploy, SaveEvent, MonitorTimeout, MonitorTick, At, Claims,
                   BuildPhase, lockVars
    <2>2. \/ \E place \in {"saveEvent", "monitor"} : Goto(o, place)
          \/ \E status, ret : FailWith(o, status, ret)
          \/ ReadDeployment(o, o)
      BY <1>10 DEF TriggerDeploy, SaveEvent, MonitorTimeout, MonitorTick
    <2>3. track'[o].pc \in {"saveEvent", "monitor", "failRead", "query", "idle", "done"}
      BY <1>1, <2>2, GotoMoves, FailMoves, ReadMoves, RestTyped
    <2> QED
      BY <1>4, <2>1, <2>3 DEF BuildPhase
  <1> QED
    BY <1>2, <1>6, <1>7, <1>8, <1>9, <1>10 DEF RunStep, OpStep

\* A step of a goroutine outside the build phase changes no claim.
LEMMA ClaimsKept ==
    ASSUME NEW p \in Trackers, track[p].pc \notin BuildPhase, track'[p].pc \notin BuildPhase,
           \A q \in Trackers \ {p} : track'[q] = track[q]
    PROVE  Claims' = Claims
    BY DEF Claims, Trackers

\* The steps of a refresh, which a monitor and a request share.
LEMMA TrackStepClaims ==
    ASSUME TypeInv, PairInv, NEW p \in Trackers, TrackStep(p)
    PROVE  /\ Claims' = Claims
           /\ \/ project' = project
              \/ /\ ~ project.deleted /\ project.op = "deploying"
                 /\ project' = [project EXCEPT !.op = "nothing", !.active = NoOp]
           /\ p \in Requests => track'[p].pc \notin {"builds", "reset"}
  <1>1. track[p].pc \in RefreshPhase
    BY DEF TrackStep, KubeUnreachable, KubeAnswers, SaveTracked, CommitTracked,
           FailRead, FailSave, At, RefreshPhase
  <1>2. Claims' = Claims
    BY <1>1, TrackStepMoves, ClaimsKept DEF RefreshPhase, BuildPhase
  <1>3. project' = project \/ project' = Release(project, track[p].target)
    BY DEF TrackStep, KubeUnreachable, KubeAnswers, SaveTracked, CommitTracked,
           FailRead, FailSave, lockVars
  <1>4. \/ Release(project, track[p].target) = project
        \/ /\ ~ project.deleted /\ project.op = "deploying"
           /\ Release(project, track[p].target) =
                 [project EXCEPT !.op = "nothing", !.active = NoOp]
    <2>1. project \in Row
      BY DEF TypeInv, TypeOK
    <2>2. CompleteDeploy(project) \in Row
      BY <2>1 DEF CompleteDeploy, Row, OperationStatus
    <2>3. ~ project.deleted => Save(project, CompleteDeploy(project)) = CompleteDeploy(project)
      BY <2>1, <2>2, SaveOver
    <2> QED
      BY <2>3 DEF Release, CanCompleteDeploy, CompleteDeploy
  <1>5. track'[p].pc \notin {"builds", "reset"}
    BY TrackStepMoves DEF RefreshPhase
  <1> QED
    BY <1>2, <1>3, <1>4, <1>5

\* How a step of a run comes to work, and how it comes to start its deployment.
LEMMA RunWorks ==
    ASSUME TypeInv, NEW o \in Ops, RunStep(o)
    PROVE  /\ aged' = aged /\ created' \in {created, created \cup {o}}
           /\ track'[o].pc # "idle"
           /\ track'[o].pc \in BuildPhase =>
                 /\ created' = created
                 /\ \/ track[o].pc \in BuildPhase
                    \/ /\ track[o].pc = "idle"
                       /\ project.op = "nothing" /\ ~ project.deleted
           /\ track'[o].pc = "trigger" => track[o].pc = "lock" /\ project'.active = o
           /\ track'[o].pc = "saveEvent" => track[o].pc = "trigger" /\ project' = project
  <1>1. track \in Tracking /\ project \in Row /\ o \in Trackers
    BY DEF TypeInv, TypeOK, Trackers
  <1>2. CASE \E c \in Containers : CreateBuild(o, c) \/ BuildEnds(o, c) \/ BuildProgress(o, c)
    <2>1. /\ track[o].pc \in BuildPhase /\ UNCHANGED <<lockVars, aged>>
          /\ track' = track \/ \E place \in BuildPhase : Goto(o, place)
      BY <1>2 DEF CreateBuild, BuildEnds, BuildProgress, At, BuildPhase
    <2>2. track'[o].pc \in BuildPhase
      BY <1>1, <2>1, GotoMoves
    <2> QED
      BY <2>1, <2>2 DEF lockVars, BuildPhase
  <1>3. CASE BuildAndDeployProject(o)
    <2>1. track'[o].pc = "fetch"
      BY <1>1, <1>3, GotoMoves DEF BuildAndDeployProject
    <2> QED
      BY <1>3, <2>1 DEF BuildAndDeployProject, CanStartBuild, At, BuildPhase
  <1>4. CASE CreateBuildFails(o) \/ FetchConfig(o) \/ UpdateContainers(o) \/ HandleBuildError(o)
    <2>1. /\ track[o].pc \in BuildPhase
          /\ \E place \in {"create", "buildError", "lock", "done"} : Goto(o, place)
      BY <1>4 DEF CreateBuildFails, FetchConfig, UpdateContainers, HandleBuildError, At, BuildPhase
    <2>2. track'[o].pc \in {"create", "buildError", "lock", "done"}
      BY <1>1, <2>1, GotoMoves
    <2> QED
      BY <1>4, <2>1, <2>2 DEF CreateBuildFails, FetchConfig, UpdateContainers, HandleBuildError,
                              lockVars
  <1>5. CASE DeployProjectInternal(o)
    <2>1. CASE /\ CanStartDeploy(project) /\ Goto(o, "trigger")
               /\ project' = Save(project, StartDeploy(project, o))
      <3>1. project'.active = o
        BY <1>1, <2>1 DEF CanStartDeploy, Save, StartDeploy, Row
      <3>2. track'[o].pc = "trigger"
        BY <1>1, <2>1, GotoMoves
      <3> QED
        BY <1>5, <3>1, <3>2 DEF DeployProjectInternal, At, BuildPhase, lockVars
    <2>2. CASE Goto(o, "buildError") /\ UNCHANGED lockVars
      <3>1. track'[o].pc = "buildError"
        BY <1>1, <2>2, GotoMoves
      <3> QED
        BY <1>5, <2>2, <3>1 DEF DeployProjectInternal, At, BuildPhase, lockVars
    <2> QED
      BY <1>5, <2>1, <2>2 DEF DeployProjectInternal
  <1>6. CASE TriggerDeploy(o) \/ SaveEvent(o) \/ MonitorTimeout(o) \/ MonitorTick(o)
    <2>1. \/ track[o].pc = "trigger" /\ Goto(o, "saveEvent")
          \/ Goto(o, "monitor")
          \/ \E status, ret : FailWith(o, status, ret)
          \/ ReadDeployment(o, o)
      BY <1>6 DEF TriggerDeploy, SaveEvent, MonitorTimeout, MonitorTick, At
    <2>2. \/ track[o].pc = "trigger" /\ track'[o].pc = "saveEvent"
          \/ track'[o].pc \in {"monitor", "failRead", "query", "done"}
      <3>1. CASE ReadDeployment(o, o)
        BY <1>1, <3>1, ReadLeads DEF Rest, End
      <3> QED
        BY <1>1, <2>1, <3>1, GotoMoves, FailMoves
    <2>3. project' = project /\ aged' = aged /\ created' = created
      BY <1>6 DEF TriggerDeploy, SaveEvent, MonitorTimeout, MonitorTick, lockVars
    <2> QED
      BY <2>2, <2>3 DEF BuildPhase
  <1> QED
    BY <1>2, <1>3, <1>4, <1>5, <1>6 DEF RunStep, OpStep

\* A request at work on the builds: it moves nobody else, and writes the project only when
\* it resets an orphaned one.
LEMMA RequestStepMoves ==
    ASSUME TypeInv, NEW r \in Requests, RequestStep(r)
    PROVE  /\ \A q \in Trackers \ {r} : track'[q] = track[q]
           /\ track'[r].pc = "reset" => LoadForReset(r)
           /\ track'[r].pc = "builds" => At(r, "builds") \/ "refreshBuilds" \in Environment
           /\ UNCHANGED <<created, deployment, aged, pipeline, edit, crashes>>
  <1>1. track \in Tracking /\ r \in Trackers
    BY DEF TypeInv, Trackers
  <1>2. CASE RefreshActiveDeployment(r)
    <2>1. /\ \A q \in Trackers \ {r} : track'[q] = track[q]
          /\ track'[r].pc \notin {"builds", "reset"}
      BY <1>1, <1>2, ReadMoves, RestTyped DEF RefreshActiveDeployment
    <2> QED
      BY <1>2, <2>1 DEF RefreshActiveDeployment, lockVars
  <1>3. CASE RefreshActiveBuildStatuses(r)
    <2>1. /\ \A q \in Trackers \ {r} : track'[q] = track[q]
          /\ track'[r].pc = "builds"
      BY <1>1, <1>3, GotoMoves DEF RefreshActiveBuildStatuses
    <2> QED
      BY <1>3, <2>1 DEF RefreshActiveBuildStatuses, lockVars
  <1>4. CASE \E c \in Containers : ReadBuild(r, c) \/ RefreshBuild(r, c)
    BY <1>4 DEF ReadBuild, RefreshBuild, At, lockVars
  <1>5. CASE LoadForReset(r)
    <2>1. /\ \A q \in Trackers \ {r} : track'[q] = track[q]
          /\ track'[r].pc \in {"idle", "reset"}
      BY <1>1, <1>5, GotoMoves DEF LoadForReset
    <2> QED
      BY <1>5, <2>1 DEF LoadForReset, lockVars
  <1>6. CASE ResetProject(r)
    <2>1. /\ \A q \in Trackers \ {r} : track'[q] = track[q]
          /\ track'[r].pc = "idle"
      BY <1>1, <1>6, GotoMoves DEF ResetProject
    <2> QED
      BY <1>6, <2>1 DEF ResetProject
  <1> QED
    BY <1>2, <1>3, <1>4, <1>5, <1>6 DEF RequestStep

-----------------------------------------------------------------------------
(* A refresh of the builds resets the project only when its run has left them. *)

\* Run o has left its builds; run o has started.
Over(o)  == track[o].pc \notin BuildPhase \cup {"idle"}
Known(o) == o \in Ops => track[o].pc # "idle"

\* Whoever has a record has started.  The record of a run that has not left its builds is
\* not settled, so a request that holds the aggregate for the reset has found a run that
\* left them: no run is in its builds, none can begin, and the row cannot become
\* 'deploying' behind the aggregate.
ResetInv ==
    /\ \A o \in Ops, c \in Containers : build[o][c] # "none" => Known(o)
    /\ \A c \in Containers : Known(latest[c])
    /\ \A r \in Requests, c \in Containers : Known(seen[r][c].op)
    /\ \A o \in Ops, c \in Containers : <<o, c>> \in settled => Over(o)
    /\ \A r \in Requests : track[r].pc \in {"builds", "reset"} => "refreshBuilds" \in Environment
    /\ \A r \in Requests : track[r].pc = "reset" =>
          /\ ~ held[r].deleted
          /\ project.op = "deploying" => project.deleted
          /\ \A o \in Ops : Over(o)

\* Initially there is no record and no request.
LEMMA ResetInit == Init => ResetInv
    BY NoOpAssumption DEF Init, ResetInv, Known, IdleTrack, Trackers, Unread

\* The steps of a request: the reset of an orphaned project is the only write.
LEMMA RequestStepClaims ==
    ASSUME TypeInv, PairInv, ResetInv, NEW r \in Requests, RequestStep(r)
    PROVE  /\ Claims' = Claims
           /\ \/ project' = project
              \/ /\ Claims = {} /\ ~ project.deleted /\ project.op = "building"
                 /\ project' = [project EXCEPT !.op = "nothing"]
  <1>1. r \in Trackers /\ r \notin Ops /\ track \in Tracking
    BY TrackersAssumption DEF Trackers, TypeInv
  <1>2. Claims' = Claims
    BY <1>1, RequestStepMoves DEF Claims, Trackers
  <1>3. CASE ~ ResetProject(r)
    BY <1>2, <1>3 DEF RequestStep, RefreshActiveDeployment, RefreshActiveBuildStatuses, ReadBuild,
                      RefreshBuild, LoadForReset, lockVars
  <1>4. CASE ResetProject(r) /\ project' # project
    <2>1. /\ track[r].pc = "reset" /\ project' = Save(project, CompleteBuild(held[r]))
          /\ project \in Row /\ held[r] \in Row
      BY <1>4 DEF ResetProject, At, TypeInv, TypeOK
    <2>2. /\ ~ held[r].deleted /\ held[r].op = "building" /\ held[r].active = NoOp
          /\ project.op = "deploying" => project.deleted
          /\ \A o \in Ops : Over(o)
      BY <2>1 DEF ResetInv, PairInv, Pair, At
    <2>3. Claims = {}
      BY <2>2 DEF Claims, Over
    <2>4. ~ project.deleted
      BY <1>4, <2>1 DEF Save, Row
    <2>5. project.op # "deploying" /\ project.active = NoOp
      BY <2>2, <2>4 DEF PairInv, Pair
    <2>6. held[r].active = project.active /\ held[r].deleted = project.deleted
      BY <2>1, <2>2, <2>4, <2>5 DEF Row
    <2>7. project' = [project EXCEPT !.op = "nothing"]
      <3>1. CompleteBuild(held[r]) \in Row
        BY <2>1 DEF CompleteBuild, Row, OperationStatus
      <3>2. project' = CompleteBuild(held[r])
        BY <2>1, <2>4, <3>1, SaveOver
      <3> QED
        BY <2>1, <2>6, <3>2 DEF CompleteBuild, Row
    <2>8. project.op = "building"
      <3>1. project.op = "nothing" => [project EXCEPT !.op = "nothing"] = project
        BY <2>1 DEF Row
      <3> QED
        BY <1>4, <2>1, <2>5, <2>7, <3>1 DEF Row, OperationStatus
    <2> QED
      BY <1>2, <2>3, <2>4, <2>7, <2>8
  <1> QED
    BY <1>2, <1>3, <1>4

\* The steps of an edit: only a deletion writes.
LEMMA EditStepClaims ==
    ASSUME TypeInv, OwnerInv, NEW e \in Edits, EditStep(e)
    PROVE  /\ UNCHANGED track
           /\ \/ project' = project
              \/ ~ project.deleted /\ project'.deleted
  <1>1. ~ UpdateProject(e) /\ UNCHANGED track
    BY DEF EditStep, ReadForUpdate, UpdateProject, ReadForDelete, DeleteProject, OwnerInv
  <1>2. CASE ReadForUpdate(e) \/ ReadForDelete(e)
    BY <1>1, <1>2 DEF ReadForUpdate, ReadForDelete, lockVars
  <1>3. CASE DeleteProject(e)
    <2>1. project' = Save(project, SoftDelete(edit[e].row)) /\ project \in Row /\ edit[e].row \in Row
      BY <1>3 DEF DeleteProject, TypeInv, TypeOK, EditState
    <2>2. Save(project, SoftDelete(edit[e].row)).deleted
      BY <2>1 DEF Save, SoftDelete, Row
    <2>3. project.deleted => Save(project, SoftDelete(edit[e].row)) = project
      BY <2>1 DEF Save, Row
    <2> QED
      BY <1>1, <2>1, <2>2, <2>3
  <1> QED
    BY <1>1, <1>2, <1>3 DEF EditStep

\* After a crash nobody counts on the lock.
LEMMA CrashClaims ==
    ASSUME \A p \in Trackers : track'[p].pc \in {"idle", "done"}
    PROVE  Claims' = {}
    BY DEF Claims, Trackers, BuildPhase

\* A run that has started, or has left its builds, never goes back.
LEMMA OverKept ==
    ASSUME TypeInv, OwnerInv, MonitorInv, [Next]_vars, NEW o \in Ops
    PROVE  /\ track[o].pc # "idle" => track'[o].pc # "idle"
           /\ Over(o) => Over(o)'
  <1>1. o \in Trackers /\ o \notin Requests /\ track[o] \in Track
    BY TrackersAssumption DEF Trackers, TypeInv, Tracking
  <1>2. CASE track'[o] = track[o]
    BY <1>2 DEF Over
  <1>3. CASE RunStep(o)
    BY <1>3, RunWorks DEF Over
  <1>4. CASE TrackStep(o)
    <2>1. track'[o].pc \notin BuildPhase
      BY <1>1, <1>4, TrackStepMoves DEF RefreshPhase, BuildPhase
    <2>2. /\ Rest(o) # "idle" /\ End(o) # "idle"
          /\ track[o].pc = "failSave" => track[o].ret # "idle"
      BY DEF Rest, End, MonitorInv, RunSound
    <2>3. \/ track'[o].pc \in {Rest(o), End(o), "save", "commit", "failRead", "failSave"}
          \/ track[o].pc = "failSave" /\ track'[o].pc = track[o].ret
      BY <1>1, <1>4, TrackStepLeads DEF Track
    <2> QED
      BY <2>1, <2>2, <2>3 DEF Over
  <1>5. CASE Crash
    <2>1. track'[o].pc = IF At(o, "idle") THEN "idle" ELSE "done"
      BY <1>1, <1>5 DEF Crash, IdleTrack
    <2> QED
      BY <2>1 DEF Over, At, BuildPhase
  <1>6. CASE Elsewhere /\ ~ Crash
    BY <1>1, <1>2, <1>6, ElsewhereMoves
  <1>7. ASSUME NEW k \in Ops \ {o}, RunStep(k) PROVE track'[o] = track[o]
    BY <1>1, <1>7, RunStepMoves
  <1>8. ASSUME NEW p \in Trackers \ {o}, TrackStep(p) PROVE track'[o] = track[o]
    BY <1>1, <1>8, TrackStepMoves
  <1>9. ASSUME NEW r \in Requests, RequestStep(r) PROVE track'[o] = track[o]
    BY <1>1, <1>9, RequestStepMoves
  <1>10. ASSUME NEW e \in Edits, EditStep(e) PROVE track'[o] = track[o]
    BY <1>10 DEF EditStep, ReadForUpdate, UpdateProject, ReadForDelete, DeleteProject
  <1>11. CASE UNCHANGED vars
    BY <1>2, <1>11 DEF vars
  <1> QED
    BY <1>1, <1>2, <1>3, <1>4, <1>5, <1>6, <1>7, <1>8, <1>9, <1>10, <1>11, StepParts

\* What a run writes of the builds: its own records, which are no longer settled then.
LEMMA RunStepWrites ==
    ASSUME TypeInv, NEW o \in Ops, RunStep(o)
    PROVE  /\ \A k \in Ops \ {o} : build'[k] = build[k]
           /\ \A c \in Containers : latest'[c] \in {latest[c], o}
           /\ settled' \subseteq settled
  <1>1. build \in [Ops -> [Containers -> BuildStates]] /\ latest \in [Containers -> Ops \cup {NoOp}]
    BY DEF TypeInv, TypeOK
  <1>2. ASSUME NEW c \in Containers, CreateBuild(o, c)
        PROVE  /\ \A k \in Ops \ {o} : build'[k] = build[k]
               /\ \A k \in Containers : latest'[k] \in {latest[k], o}
               /\ settled' \subseteq settled
    BY <1>1, <1>2 DEF CreateBuild
  <1>3. ASSUME NEW c \in Containers, BuildProgress(o, c) \/ BuildEnds(o, c)
        PROVE  /\ \A k \in Ops \ {o} : build'[k] = build[k]
               /\ latest' = latest /\ settled' \subseteq settled
    BY <1>1, <1>3 DEF BuildProgress, BuildEnds
  <1>4. CASE CreateBuildFails(o)
    BY <1>1, <1>4 DEF CreateBuildFails
  <1>5. CASE UNCHANGED buildVars
    BY <1>5 DEF buildVars
  <1> QED
    BY <1>2, <1>3, <1>4, <1>5
    DEF RunStep, OpStep, BuildAndDeployProject, FetchConfig, UpdateContainers,
        DeployProjectInternal, HandleBuildError, TriggerDeploy, SaveEvent, MonitorTick,
        MonitorTimeout

\* What a request writes of the builds: records it has read, and of its own notes.
LEMMA RequestStepWrites ==
    ASSUME TypeInv, NEW r \in Requests, RequestStep(r)
    PROVE  /\ \A o \in Ops, c \in Containers :
                 build'[o][c] # build[o][c] => seen[r][c].op = o
           /\ latest' = latest /\ settled' \subseteq settled
           /\ \A q \in Requests, c \in Containers :
                 seen'[q][c].op \in {seen[q][c].op, latest[c], NoOp}
  <1>1. /\ build \in [Ops -> [Containers -> BuildStates]]
        /\ seen \in [Requests -> [Containers -> Seen]]
        /\ \A q \in Requests, c \in Containers : seen[q][c] \in Seen
    BY DEF TypeInv, TypeOK
  <1>2. CASE RefreshActiveDeployment(r) \/ RefreshActiveBuildStatuses(r) \/ ResetProject(r)
    BY <1>2 DEF RefreshActiveDeployment, RefreshActiveBuildStatuses, ResetProject, buildVars,
                reqVars
  <1>3. ASSUME NEW c \in Containers, ReadBuild(r, c)
        PROVE  /\ UNCHANGED buildVars
               /\ \A q \in Requests, k \in Containers :
                     seen'[q][k].op \in {seen[q][k].op, latest[k], NoOp}
    <2>1. PICK v \in {[op |-> NoOp, status |-> "missing"]} \cup
                     {[op |-> latest[c], status |-> st] : st \in {"refreshing"} \cup BuildStates} :
             seen' = [seen EXCEPT ![r][c] = v]
      <3>1. latest[c] # NoOp => build[latest[c]][c] \in BuildStates
        BY <1>1 DEF TypeInv, TypeOK
      <3> QED
        BY <1>3, <3>1 DEF ReadBuild
    <2>2. v.op \in {latest[c], NoOp}
      BY <2>1
    <2>3. \A q \in Requests, k \in Containers :
             seen'[q][k] = IF q = r /\ k = c THEN v ELSE seen[q][k]
      BY <1>1, <2>1
    <2> QED
      BY <1>3, <2>2, <2>3 DEF ReadBuild
  <1>4. ASSUME NEW c \in Containers, RefreshBuild(r, c)
        PROVE  /\ \A o \in Ops, k \in Containers : build'[o][k] # build[o][k] => seen[r][k].op = o
               /\ latest' = latest /\ settled' \subseteq settled
               /\ \A q \in Requests, k \in Containers : seen'[q][k].op = seen[q][k].op
    <2>1. PICK st \in {"active", "ended"} :
             /\ seen' = [seen EXCEPT ![r][c].status = st]
             /\ \/ build' = [build EXCEPT ![seen[r][c].op][c] = st] /\ settled' \subseteq settled
                \/ UNCHANGED <<build, settled>>
      BY <1>4 DEF RefreshBuild
    <2>2. \A q \in Requests, k \in Containers : seen'[q][k].op = seen[q][k].op
      BY <1>1, <2>1 DEF Seen
    <2>3. \A o \in Ops, k \in Containers : build'[o][k] # build[o][k] => seen[r][k].op = o
      BY <1>1, <2>1
    <2> QED
      BY <1>4, <2>1, <2>2, <2>3 DEF RefreshBuild
  <1>5. CASE LoadForReset(r)
    <2>1. seen' = [seen EXCEPT ![r] = [c \in Containers |-> Unread]] /\ UNCHANGED buildVars
      BY <1>5 DEF LoadForReset
    <2>2. \A q \in Requests, c \in Containers : seen'[q][c] \in {seen[q][c], Unread}
      BY <1>1, <2>1
    <2> QED
      BY <2>1, <2>2 DEF Unread, buildVars
  <1> QED
    BY <1>2, <1>3, <1>4, <1>5 DEF RequestStep, buildVars

\* A request that goes on to the reset has found that the one run has left its builds.
LEMMA LoadFindsOver ==
    ASSUME RefreshesOneRun, TypeInv, ResetInv, NEW r \in Requests, LoadForReset(r),
           track'[r].pc = "reset"
    PROVE  /\ project.op = "building" /\ ~ project.deleted /\ held'[r] = project
           /\ \A o \in Ops : Over(o)
  <1>1. /\ track \in Tracking /\ r \in Trackers /\ held \in [Requests -> Row]
        /\ settled \subseteq Ops \X Containers
    BY DEF TypeInv, TypeOK, Trackers
  <1>2. BuildsAreOver(r) /\ CanCompleteBuild(project) /\ held'[r] = project
    <2>1. CASE BuildsAreOver(r) /\ CanCompleteBuild(project)
      BY <1>1, <2>1 DEF LoadForReset
    <2>2. CASE ~ (BuildsAreOver(r) /\ CanCompleteBuild(project))
      <3>1. Goto(r, "idle")
        BY <2>2 DEF LoadForReset
      <3> QED
        BY <1>1, <3>1, GotoMoves
    <2> QED
      BY <2>1, <2>2
  <1>3. PICK c \in Containers : <<seen[r][c].op, c>> \in settled
    BY <1>2 DEF BuildsAreOver
  <1>4. seen[r][c].op \in Ops
    BY <1>1, <1>3
  <1>5. Over(seen[r][c].op)
    BY <1>3, <1>4 DEF ResetInv
  <1>6. \A o, k \in Ops : o = k
    BY DEF LoadForReset, At, ResetInv, RefreshesOneRun
  <1> QED
    BY <1>2, <1>4, <1>5, <1>6 DEF CanCompleteBuild

\* Every step keeps ClaimInv.
LEMMA ClaimStep ==
    ASSUME "update" \notin Environment
    PROVE  TypeInv /\ PairInv /\ OwnerInv /\ ClaimInv /\ ResetInv /\ [Next]_vars => ClaimInv'
  <1> SUFFICES ASSUME TypeInv, PairInv, OwnerInv, ClaimInv, ResetInv, [Next]_vars
               PROVE  ClaimInv'
    OBVIOUS
  <1>1. project \in Row
    BY DEF TypeInv, TypeOK
  <1>2. ASSUME NEW o \in Ops, RunStep(o) PROVE ClaimInv'
    BY <1>1, <1>2, RunStepClaims DEF ClaimInv, Row
  <1>3. ASSUME NEW p \in Trackers, TrackStep(p) PROVE ClaimInv'
    <2>1. \A o \in Claims : project'.op = "building" \/ project'.deleted
      BY <1>1, <1>3, TrackStepClaims DEF ClaimInv, Row
    <2> QED
      BY <1>3, <2>1, TrackStepClaims DEF ClaimInv
  <1>4. ASSUME NEW r \in Requests, RequestStep(r) PROVE ClaimInv'
    BY <1>4, RequestStepClaims DEF ClaimInv
  <1>5. ASSUME NEW e \in Edits, EditStep(e) PROVE ClaimInv'
    BY <1>5, EditStepClaims DEF ClaimInv, Claims
  <1>6. CASE Elsewhere
    <2>1. project' = project
      BY <1>6, ElsewhereMoves DEF lockVars
    <2>2. CASE UNCHANGED track
      BY <2>1, <2>2 DEF ClaimInv, Claims
    <2>3. CASE \A p \in Trackers : track'[p].pc \in {"idle", "done"}
      BY <2>1, <2>3, CrashClaims DEF ClaimInv
    <2> QED
      BY <1>6, <2>2, <2>3, ElsewhereMoves
  <1>7. CASE UNCHANGED vars
    BY <1>7 DEF vars, ClaimInv, Claims
  <1> QED
    BY <1>2, <1>3, <1>4, <1>5, <1>6, <1>7, StepParts

\* Every step keeps ResetInv.
LEMMA ResetStep ==
    ASSUME "update" \notin Environment, RefreshesOneRun
    PROVE  TypeInv /\ PairInv /\ OwnerInv /\ MonitorInv /\ ClaimInv /\ ResetInv /\ [Next]_vars
              => ResetInv'
  <1> SUFFICES ASSUME TypeInv, PairInv, OwnerInv, MonitorInv, ClaimInv, ResetInv, [Next]_vars
               PROVE  ResetInv'
    OBVIOUS
  <1>1. /\ Requests \subseteq Trackers /\ Requests \cap Ops = {} /\ project \in Row
        /\ settled \subseteq Ops \X Containers /\ NoOp \notin Ops
    BY TrackersAssumption, NoOpAssumption DEF Trackers, TypeInv, TypeOK
  <1>2. /\ \A o : Known(o) => Known(o)'
        /\ \A o \in Ops : Over(o) => Over(o)'
        /\ Known(NoOp)
    BY <1>1, OverKept DEF Known
  <1>3. ASSUME UNCHANGED <<buildVars, seen, held>>,
               project' = project \/ ~ (project'.op = "deploying" /\ ~ project'.deleted),
               \A r \in Requests : track'[r].pc \in {"builds", "reset"} => track'[r] = track[r]
        PROVE  ResetInv'
    BY <1>2, <1>3 DEF ResetInv, buildVars
  <1>4. ASSUME NEW o \in Ops, RunStep(o) PROVE ResetInv'
    <2>1. /\ \A r \in Requests : track'[r] = track[r]
          /\ UNCHANGED <<seen, held>>
      BY <1>1, <1>4, RunStepMoves DEF reqVars
    <2>2. Known(o)'
      BY <1>4, RunWorks DEF Known
    <2>3. /\ \A k \in Ops, c \in Containers : build'[k][c] # "none" => Known(k)'
          /\ \A c \in Containers : Known(latest[c])'
          /\ \A k \in Ops, c \in Containers : <<k, c>> \in settled' => Over(k)'
      BY <1>2, <1>4, <2>2, RunStepWrites DEF ResetInv, Known
    <2>4. ASSUME NEW r \in Requests, track'[r].pc = "reset"
          PROVE  project'.op = "deploying" => project'.deleted
      <3>1. /\ \A k \in Ops : Over(k)
            /\ project.op = "deploying" => project.deleted
        BY <2>1, <2>4 DEF ResetInv
      <3>2. Claims = {}
        BY <3>1 DEF Claims, Over
      <3> QED
        BY <1>1, <1>4, <3>1, <3>2, RunStepClaims DEF Row
    <2> QED
      BY <1>2, <2>1, <2>3, <2>4 DEF ResetInv
  <1>5. ASSUME NEW p \in Trackers, TrackStep(p) PROVE ResetInv'
    <2>1. /\ UNCHANGED <<buildVars, seen, held>>
          /\ \A q \in Trackers \ {p} : track'[q] = track[q]
          /\ track'[p].pc \notin {"builds", "reset"}
      BY <1>5, TrackStepMoves DEF reqVars, RefreshPhase
    <2>2. project' = project \/ project'.op # "deploying"
      BY <1>1, <1>5, TrackStepClaims DEF Row
    <2> QED
      BY <1>1, <1>3, <2>1, <2>2
  <1>6. ASSUME NEW r \in Requests, RequestStep(r) PROVE ResetInv'
    <2>1. /\ \A o \in Ops, c \in Containers : build'[o][c] # "none" => Known(o)'
          /\ \A c \in Containers : Known(latest[c])'
          /\ \A q \in Requests, c \in Containers : Known(seen[q][c].op)'
          /\ \A o \in Ops, c \in Containers : <<o, c>> \in settled' => Over(o)'
      <3>1. \A o \in Ops, c \in Containers : build'[o][c] # "none" => Known(o)
        BY <1>6, RequestStepWrites DEF ResetInv
      <3>2. \A q \in Requests, c \in Containers : Known(seen'[q][c].op)
        BY <1>2, <1>6, RequestStepWrites DEF ResetInv
      <3>3. /\ \A c \in Containers : Known(latest'[c])
            /\ \A o \in Ops, c \in Containers : <<o, c>> \in settled' => Over(o)
        BY <1>6, RequestStepWrites DEF ResetInv
      <3> QED
        BY <1>2, <3>1, <3>2, <3>3 DEF Known
    <2>2. \A q \in Requests \ {r} : track'[q] = track[q] /\ held'[q] = held[q]
      <3>1. \A q \in Requests \ {r} : held'[q] = held[q]
        BY <1>6 DEF RequestStep, RefreshActiveDeployment, RefreshActiveBuildStatuses, ReadBuild,
                    RefreshBuild, LoadForReset, ResetProject, reqVars, TypeInv, TypeOK
      <3> QED
        BY <1>1, <1>6, <3>1, RequestStepMoves
    <2>3. project' = project \/ project'.op # "deploying"
      BY <1>1, <1>6, RequestStepClaims DEF Row
    <2>4. track'[r].pc \in {"builds", "reset"} => "refreshBuilds" \in Environment
      BY <1>6, RequestStepMoves DEF ResetInv, LoadForReset, At
    <2>5. track'[r].pc = "reset" => /\ ~ held'[r].deleted
                                    /\ project'.op = "deploying" => project'.deleted
                                    /\ \A o \in Ops : Over(o)
      <3>1. track'[r].pc = "reset" => /\ ~ held'[r].deleted /\ project.op = "building"
                                      /\ \A o \in Ops : Over(o)
        BY <1>6, RequestStepMoves, LoadFindsOver
      <3> QED
        BY <2>3, <3>1
    <2>6. \A q \in Requests \ {r} : track'[q].pc = "reset" =>
             /\ ~ held'[q].deleted
             /\ project'.op = "deploying" => project'.deleted
             /\ \A o \in Ops : Over(o)
      BY <2>2, <2>3 DEF ResetInv
    <2>7. \A q \in Requests : track'[q].pc \in {"builds", "reset"} => "refreshBuilds" \in Environment
      BY <2>2, <2>4 DEF ResetInv
    <2> QED
      BY <1>2, <2>1, <2>5, <2>6, <2>7 DEF ResetInv
  <1>7. ASSUME NEW e \in Edits, EditStep(e) PROVE ResetInv'
    <2>1. UNCHANGED <<buildVars, seen, held, track>>
      BY <1>7 DEF EditStep, ReadForUpdate, UpdateProject, ReadForDelete, DeleteProject, reqVars
    <2> QED
      BY <1>3, <1>7, <2>1, EditStepClaims
  <1>8. CASE Elsewhere
    <2>1. project' = project
      BY <1>8, ElsewhereMoves DEF lockVars
    <2>2. ASSUME NEW o \in Ops, AgeDeployment(o) \/ PipelineRuns(o) \/ PipelineDeleted(o)
          PROVE  ResetInv'
      <3>1. UNCHANGED <<buildVars, seen, held, track>>
        BY <2>2 DEF AgeDeployment, PipelineRuns, PipelineDeleted, reqVars
      <3> QED
        BY <1>3, <2>1, <3>1
    <2>3. ASSUME NEW o \in Ops, NEW c \in Containers, AgeBuild(o, c) PROVE ResetInv'
      <3>1. /\ UNCHANGED <<build, latest, seen, held, track>>
            /\ settled' = settled \cup {<<o, c>>}
            /\ build[o][c] # "none" /\ track[o].pc \notin BuildPhase
        BY <2>3 DEF AgeBuild, reqVars, RefreshesOneRun
      <3>2. Over(o)
        BY <3>1 DEF ResetInv, Known, Over
      <3>3. \A k \in Ops, m \in Containers : <<k, m>> \in settled' => Over(k)
        BY <3>1, <3>2 DEF ResetInv
      <3> QED
        BY <2>1, <3>1, <3>3 DEF ResetInv, Known, Over
    <2>4. CASE Crash
      <3>1. /\ UNCHANGED buildVars
            /\ seen' = [r \in Requests |-> [c \in Containers |-> Unread]]
            /\ \A r \in Requests : track'[r].pc \in {"idle", "done"}
        BY <1>1, <2>4 DEF Crash, IdleTrack
      <3>2. \A r \in Requests, c \in Containers : Known(seen[r][c].op)'
        BY <1>2, <3>1 DEF Unread
      <3> QED
        BY <1>2, <3>1, <3>2 DEF ResetInv, buildVars
    <2> QED
      BY <1>8, <2>2, <2>3, <2>4 DEF Elsewhere
  <1>9. CASE UNCHANGED vars
    BY <1>3, <1>9 DEF vars, buildVars, reqVars
  <1> QED
    BY <1>4, <1>5, <1>6, <1>7, <1>8, <1>9, StepParts

-----------------------------------------------------------------------------
(* The step simulation. *)

\* The initial states are initial states of the abstract lock.
LEMMA LockInit == Init => Lock!Init
    BY DEF Init, Lock!Init, NewRow, IdleTrack, BuildPhase, Trackers

\* Every step is a step of the abstract lock or leaves it unchanged.
LEMMA LockStep ==
    TypeInv /\ PairInv /\ OwnerInv /\ ClaimInv /\ ResetInv /\ [Next]_vars
        => [Lock!Next]_(Lock!lvars)
  <1> SUFFICES ASSUME TypeInv, PairInv, OwnerInv, ClaimInv, ResetInv, [Next]_vars
               PROVE  [Lock!Next]_(Lock!lvars)
    OBVIOUS
  <1>1. project \in Row /\ Pair(project)
    BY DEF TypeInv, TypeOK, PairInv
  <1>2. ASSUME Claims' = Claims, project' = project PROVE UNCHANGED Lock!lvars
    BY <1>2 DEF Lock!lvars, Claims
  <1>3. ASSUME Claims # {}, Claims' = {}, project' = project PROVE Lock!Orphan
    BY <1>1, <1>3 DEF Lock!Orphan, Claims, ClaimInv
  <1>4. ASSUME NEW o \in Ops, RunStep(o) PROVE [Lock!Next]_(Lock!lvars)
    <2>1. CASE /\ Claims' = {o} /\ Claims = {} /\ ~ project.deleted
               /\ project.op = "nothing" /\ project' = [project EXCEPT !.op = "building"]
      BY <1>1, <2>1 DEF Lock!Next, Lock!Acquire, Claims, Row
    <2>2. CASE /\ Claims' = {} /\ Claims = {o} /\ ~ project.deleted
               /\ project.op = "building" /\ project' = [project EXCEPT !.op = "nothing"]
      BY <1>1, <2>2 DEF Lock!Next, Lock!GiveBack, Claims, Row
    <2>3. CASE /\ Claims' = {} /\ Claims = {o} /\ ~ project.deleted /\ project.op = "building"
               /\ project' = [project EXCEPT !.op = "deploying", !.active = o]
      BY <1>1, <2>3 DEF Lock!Next, Lock!HandOver, Claims, Row
    <2>4. CASE Claims' = {} /\ Claims = {o} /\ project' = project
      BY <1>3, <2>4 DEF Lock!Next
    <2> QED
      BY <1>2, <1>4, <2>1, <2>2, <2>3, <2>4, RunStepClaims
  <1>5. ASSUME NEW p \in Trackers, TrackStep(p) PROVE [Lock!Next]_(Lock!lvars)
    <2>1. CASE /\ ~ project.deleted /\ project.op = "deploying" /\ Claims' = Claims
               /\ project' = [project EXCEPT !.op = "nothing", !.active = NoOp]
      BY <1>1, <2>1 DEF Lock!Next, Lock!Finish, Claims, Row
    <2> QED
      BY <1>2, <1>5, <2>1, TrackStepClaims
  <1>6. ASSUME NEW r \in Requests, RequestStep(r) PROVE [Lock!Next]_(Lock!lvars)
    <2>1. CASE /\ Claims' = Claims /\ Claims = {} /\ ~ project.deleted
               /\ project.op = "building" /\ project' = [project EXCEPT !.op = "nothing"]
      BY <1>1, <2>1 DEF Lock!Next, Lock!GiveBack, Claims, Row
    <2> QED
      BY <1>2, <1>6, <2>1, RequestStepClaims
  <1>7. ASSUME NEW e \in Edits, EditStep(e) PROVE [Lock!Next]_(Lock!lvars)
    <2>1. UNCHANGED track /\ Claims' = Claims
      BY <1>7, EditStepClaims DEF Claims
    <2>2. CASE ~ project.deleted /\ project'.deleted
      BY <1>1, <2>1, <2>2 DEF Lock!Next, Lock!Remove, Claims, Row, OperationStatus
    <2> QED
      BY <1>2, <1>7, <2>1, <2>2, EditStepClaims
  <1>8. CASE Elsewhere
    <2>1. project' = project
      BY <1>8, ElsewhereMoves DEF lockVars
    <2>2. CASE UNCHANGED track
      BY <1>2, <2>1, <2>2 DEF Claims
    <2>3. CASE \A p \in Trackers : track'[p].pc \in {"idle", "done"}
      BY <1>2, <1>3, <2>1, <2>3, CrashClaims DEF Lock!Next
    <2> QED
      BY <1>8, <2>2, <2>3, ElsewhereMoves
  <1>9. CASE UNCHANGED vars
    BY <1>2, <1>9 DEF vars, Claims
  <1> QED
    BY <1>4, <1>5, <1>6, <1>7, <1>8, <1>9, StepParts

\* project_operation_status and active_deployment_id are a lock, whatever crashes, lost
\* answers, failing transactions, deletions and refreshes of the deployment do: a run that
\* counts on the lock keeps it until it gives it back or hands it to its own deployment,
\* and only one run at a time does.  With one run the builds may be refreshed as well, by
\* any number of requests: RefreshActiveBuildStatuses loads the aggregate FOR UPDATE but
\* outside a transaction, and never saves it over a lock that somebody counts on or owns.
THEOREM ImplementsLockHolds ==
    ASSUME "update" \notin Environment, RefreshesOneRun
    PROVE  Spec => ImplementsLock
  <1>1. TypeInv /\ PairInv /\ FinInv /\ OwnerInv /\ [Next]_vars => OwnerInv'
    BY OwnerStep
  <1>2. TypeInv /\ PairInv /\ FinInv /\ OwnerInv /\ MonitorInv /\ [Next]_vars => MonitorInv'
    BY MonitorStep
  <1>3. TypeInv /\ PairInv /\ OwnerInv /\ ClaimInv /\ ResetInv /\ [Next]_vars => ClaimInv'
    BY ClaimStep
  <1>4. TypeInv /\ PairInv /\ OwnerInv /\ MonitorInv /\ ClaimInv /\ ResetInv /\ [Next]_vars
           => ResetInv'
    BY ResetStep
  <1>5. TypeInv /\ PairInv /\ OwnerInv /\ ClaimInv /\ ResetInv /\ [Next]_vars
           => [Lock!Next]_(Lock!lvars)
    BY LockStep
  <1> QED
    BY <1>1, <1>2, <1>3, <1>4, <1>5, InitTyped, StepTyped, PairInit, PairStep, FinInit, FinStep,
       OwnerInit, MonitorInit, ClaimInit, ResetInit, LockInit, PTL
    DEF Spec, ImplementsLock, Lock!Spec

-----------------------------------------------------------------------------
(* The lock is taken from a deployment only by the end of this deployment. *)

\* A step that takes the lock from deployment o completes it.
LEMMA ReleaseStep ==
    ASSUME TypeInv, PairInv, FinInv, OwnerInv, ClaimInv, ResetInv, [Next]_vars,
           NEW o \in Ops, project.active = o, project'.active # o, ~ project'.deleted
    PROVE  IsCompleted(deployment'[o])
  <1>1. /\ project \in Row /\ project.op = "deploying" /\ o # NoOp
        /\ deployment \in [Ops -> Record]
    BY NoOpAssumption DEF PairInv, Pair, TypeInv, TypeOK
  <1>2. project' # project
    OBVIOUS
  <1>3. ASSUME NEW p \in Trackers, TrackStep(p) PROVE IsCompleted(deployment'[o])
    <2> DEFINE t == track[p].target
    <2>1. CASE CommitTracked(p)
      <3>1. /\ project' = Release(project, t)
            /\ deployment' = [deployment EXCEPT ![t] = track[p].d]
        BY <1>2, <2>1 DEF CommitTracked
      <3>2. t = o
        BY <3>1 DEF Release, CanCompleteDeploy
      <3>3. IsCompleted(track[p].d)
        BY <2>1 DEF CommitTracked, At, FinInv, Sound
      <3> QED
        BY <1>1, <3>1, <3>2, <3>3
    <2>2. CASE FailSave(p)
      <3>1. /\ project' = Release(project, t)
            /\ deployment' = [deployment EXCEPT ![t] = Failed(track[p].d, track[p].fail)]
        BY <1>2, <2>2 DEF FailSave
      <3>2. t = o
        BY <3>1 DEF Release, CanCompleteDeploy
      <3>3. track[p].fail \in BackendTerminal /\ track[p].d \in Record
        BY <2>2, HeldTyped DEF FailSave, At, FinInv, Sound
      <3>4. IsCompleted(Failed(track[p].d, track[p].fail))
        BY <3>3, StatusFacts DEF IsCompleted, Failed, Record
      <3> QED
        BY <1>1, <3>1, <3>2, <3>4
    <2>3. CASE KubeUnreachable(p) \/ KubeAnswers(p) \/ SaveTracked(p) \/ FailRead(p)
      BY <1>2, <2>3 DEF KubeUnreachable, KubeAnswers, SaveTracked, FailRead, lockVars
    <2> QED
      BY <1>3, <2>1, <2>2, <2>3 DEF TrackStep
  <1>4. ASSUME NEW k \in Ops PROVE ~ RunStep(k)
    BY <1>1, <1>2, RunStepClaims DEF ClaimInv
  <1>5. ASSUME NEW r \in Requests PROVE ~ RequestStep(r)
    BY <1>1, <1>2, RequestStepClaims
  <1>6. ASSUME NEW e \in Edits PROVE ~ EditStep(e)
    BY <1>2, EditStepClaims
  <1>7. ~ Elsewhere /\ ~ UNCHANGED vars
    BY <1>2, ElsewhereMoves DEF lockVars, vars
  <1> QED
    BY <1>3, <1>4, <1>5, <1>6, <1>7, StepParts

\* A deployment loses the lock only in the step that completes its own row
\* (handleDeployFailure and updateDeploymentFromKubeStatus write both in one transaction),
\* never by a late answer about an earlier deployment.
THEOREM ReleasedByItsEndHolds ==
    ASSUME "update" \notin Environment, RefreshesOneRun
    PROVE  Spec => ReleasedByItsEnd
  <1>1. TypeInv /\ PairInv /\ FinInv /\ OwnerInv /\ [Next]_vars => OwnerInv'
    BY OwnerStep
  <1>2. TypeInv /\ PairInv /\ FinInv /\ OwnerInv /\ MonitorInv /\ [Next]_vars => MonitorInv'
    BY MonitorStep
  <1>3. TypeInv /\ PairInv /\ OwnerInv /\ ClaimInv /\ ResetInv /\ [Next]_vars => ClaimInv'
    BY ClaimStep
  <1>4. TypeInv /\ PairInv /\ OwnerInv /\ MonitorInv /\ ClaimInv /\ ResetInv /\ [Next]_vars
           => ResetInv'
    BY ResetStep
  <1>5. TypeInv /\ PairInv /\ FinInv /\ OwnerInv /\ ClaimInv /\ ResetInv /\ [Next]_vars
           => [\A o \in Ops : project.active = o /\ project'.active # o /\ ~ project'.deleted
                                => IsCompleted(deployment'[o])]_vars
    BY ReleaseStep
  <1> QED
    BY <1>1, <1>2, <1>3, <1>4, <1>5, InitTyped, StepTyped, PairInit, PairStep, FinInit, FinStep,
       OwnerInit, MonitorInit, ClaimInit, ResetInit, PTL DEF Spec, ReleasedByItsEnd

-----------------------------------------------------------------------------
(* One run at a time works, from its request to the event id of its deployment. *)
(* Besides the two circumstances above a slow server is excluded: a request may  *)
(* then give up, and release the lock of, a deployment that is being triggered.  *)

Starting(o) == track[o].pc \in {"trigger", "saveEvent"}

StartInv ==
    /\ \A o \in Ops : track[o].pc \in BuildPhase \cup {"idle"} => o \notin created
    /\ \A o \in Ops : track[o].pc = "idle" \/ Working(o) => o \notin aged
    /\ \A o \in Ops : Starting(o) => /\ project.active = o \/ project.deleted
                                     /\ \A r \in Requests : ~ Follows(r, o)
                                     /\ \A k \in Ops \ {o} : ~ Working(k)

\* Initially no deployment exists.
LEMMA StartInit == Init => StartInv
    BY DEF Init, StartInv, Starting, IdleTrack, Trackers

\* A step of a run keeps StartInv.
LEMMA StartRun ==
    ASSUME TypeInv, PairInv, MonitorInv, ClaimInv, StartInv, NEW o \in Ops, RunStep(o)
    PROVE  StartInv'
  <1>1. /\ \A k \in Ops \ {o} : track'[k] = track[k]
        /\ \A r \in Requests : track'[r] = track[r]
        /\ Pair(project) /\ project \in Row /\ NoOp \notin Ops
    BY RunStepMoves, TrackersAssumption, NoOpAssumption DEF Trackers, PairInv, TypeInv, TypeOK
  <1>2. \A k \in Ops : track'[k].pc \in BuildPhase \cup {"idle"} => k \notin created'
    BY <1>1, RunWorks DEF StartInv
  <1>3. \A k \in Ops : track'[k].pc = "idle" \/ Working(k)' => k \notin aged'
    <2>1. Working(o)' => track[o].pc = "idle" \/ Working(o)
      BY RunWorks DEF Working, BuildPhase
    <2> QED
      BY <1>1, <2>1, RunWorks DEF StartInv, Working
  <1>4. ASSUME NEW k \in Ops \ {o}, Starting(k)'
        PROVE  /\ project'.active = k \/ project'.deleted
               /\ \A r \in Requests : ~ Follows(r, k)'
               /\ \A m \in Ops \ {k} : ~ Working(m)'
    <2>1. /\ project.active = k \/ project.deleted
          /\ \A r \in Requests : ~ Follows(r, k)
          /\ \A m \in Ops \ {k} : ~ Working(m)
      BY <1>1, <1>4 DEF StartInv, Starting
    <2>2. ~ (project.op = "nothing" /\ ~ project.deleted)
      BY <1>1, <2>1 DEF Pair
    <2>3. ~ Working(o)
      BY <2>1
    <2>4. project' = project
      BY <2>2, <2>3, RunStepClaims DEF Claims, Working
    <2>5. ~ Working(o)'
      BY <2>2, <2>3, RunWorks DEF Working, BuildPhase
    <2> QED
      BY <1>1, <2>1, <2>4, <2>5 DEF Follows, Working
  <1>5. ASSUME Starting(o)'
        PROVE  /\ project'.active = o \/ project'.deleted
               /\ \A r \in Requests : ~ Follows(r, o)'
               /\ \A m \in Ops \ {o} : ~ Working(m)'
    <2>1. CASE track'[o].pc = "trigger"
      <3>1. track[o].pc = "lock" /\ project'.active = o
        BY <2>1, RunWorks
      <3>2. \A r \in Requests : ~ Follows(r, o)
        BY <3>1 DEF MonitorInv, FollowerSound, Departed, BuildPhase
      <3>3. \A m \in Ops \ {o} : ~ Working(m)
        BY <3>1 DEF ClaimInv, Claims, StartInv, Starting, Working, BuildPhase
      <3> QED
        BY <1>1, <3>1, <3>2, <3>3 DEF Follows, Working
    <2>2. CASE track'[o].pc = "saveEvent"
      BY <1>1, <2>2, RunWorks DEF StartInv, Starting, Follows, Working
    <2> QED
      BY <1>5, <2>1, <2>2 DEF Starting
  <1> QED
    BY <1>2, <1>3, <1>4, <1>5 DEF StartInv

\* A step of a refresh keeps StartInv: nobody refreshes a deployment that is starting.
LEMMA StartTrack ==
    ASSUME TypeInv, MonitorInv, StartInv, NEW p \in Trackers, TrackStep(p)
    PROVE  StartInv'
  <1> DEFINE t == track[p].target
  <1>1. /\ \A q \in Trackers \ {p} : track'[q] = track[q]
        /\ created' = created /\ aged' = aged
        /\ track[p].pc \in RefreshPhase /\ track[p] \in Track
        /\ Ops \subseteq Trackers /\ Requests \subseteq Trackers /\ Ops \cap Requests = {}
    BY TrackStepMoves, TrackStepLeads, TrackersAssumption
    DEF RefreshPhase, Trackers, TypeInv, Tracking
  <1>2. p \in Ops => track'[p].pc # "idle"
    <2>1. p \in Ops => /\ Rest(p) # "idle" /\ End(p) # "idle"
                       /\ track[p].pc = "failSave" => track[p].ret # "idle"
      BY DEF Rest, End, MonitorInv, RunSound
    <2>2. \/ track'[p].pc \in {Rest(p), End(p), "save", "commit", "failRead", "failSave"}
          \/ track[p].pc = "failSave" /\ track'[p].pc = track[p].ret
      BY <1>1, TrackStepLeads DEF Track
    <2> QED
      BY <2>1, <2>2
  <1>3. track'[p].pc \notin BuildPhase \cup {"trigger", "saveEvent"}
    BY TrackStepMoves DEF RefreshPhase, BuildPhase
  <1>4. /\ \A o \in Ops : track'[o].pc \in BuildPhase \cup {"idle"} => o \notin created'
        /\ \A o \in Ops : track'[o].pc = "idle" \/ Working(o)' => o \notin aged'
    BY <1>1, <1>2, <1>3 DEF StartInv, Working
  <1>5. ASSUME NEW o \in Ops, Starting(o)'
        PROVE  /\ project'.active = o \/ project'.deleted
               /\ \A r \in Requests : ~ Follows(r, o)'
               /\ \A k \in Ops \ {o} : ~ Working(k)'
    <2>1. o # p /\ Starting(o)
      BY <1>1, <1>3, <1>5 DEF Starting
    <2>2. /\ project.active = o \/ project.deleted
          /\ \A r \in Requests : ~ Follows(r, o)
          /\ \A k \in Ops \ {o} : ~ Working(k)
      BY <2>1 DEF StartInv
    <2>3. t # o
      BY <1>1, <2>1, <2>2 DEF Follows, TypeInv, Tracking, Trackers
    <2>4. project'.active = o \/ project'.deleted
      <3>1. project' = project \/ project' = Release(project, t)
        BY DEF TrackStep, KubeUnreachable, KubeAnswers, SaveTracked, CommitTracked,
               FailRead, FailSave, lockVars
      <3>2. Release(project, t).deleted = project.deleted
            /\ (project.active = o => Release(project, t).active = o)
        BY <2>3 DEF Release, Save, CompleteDeploy, CanCompleteDeploy, TypeInv, TypeOK, Row
      <3> QED
        BY <2>2, <3>1, <3>2
    <2>5. \A r \in Requests : ~ Follows(r, o)'
      <3>1. track'[p].pc \in RefreshPhase => p \in Ops \/ track'[p].target = t
        <4>1. p \in Requests => /\ Rest(p) \notin RefreshPhase /\ End(p) \notin RefreshPhase
                                /\ track[p].ret \notin RefreshPhase
          BY HeldTyped, RestTyped
        <4> QED
          BY <1>1, <4>1, TrackStepLeads DEF Track, Trackers
      <3> QED
        BY <1>1, <2>2, <2>3, <3>1 DEF Follows
    <2> QED
      BY <1>1, <1>3, <2>2, <2>4, <2>5 DEF Working
  <1> QED
    BY <1>4, <1>5 DEF StartInv

\* Every step keeps StartInv, in the circumstances of the theorem.
LEMMA StartStep ==
    ASSUME {"update", "refreshBuilds", "slow"} \cap Environment = {}
    PROVE  TypeInv /\ PairInv /\ OwnerInv /\ MonitorInv /\ ClaimInv /\ ResetInv /\ StartInv
              /\ [Next]_vars => StartInv'
  <1> SUFFICES ASSUME TypeInv, PairInv, OwnerInv, MonitorInv, ClaimInv, ResetInv, StartInv,
                      [Next]_vars
               PROVE  StartInv'
    OBVIOUS
  <1>1. ASSUME NEW r \in Requests, RequestStep(r) PROVE StartInv'
    <2> DEFINE t == project.active
    <2>1. RefreshActiveDeployment(r)
      BY <1>1 DEF RequestStep, RefreshActiveBuildStatuses, ReadBuild, RefreshBuild,
                  LoadForReset, ResetProject, At, ResetInv
    <2>2. /\ r \in Trackers /\ track \in Tracking /\ Ops \subseteq Trackers \ {r}
          /\ t \in Ops /\ ReadDeployment(r, t)
      BY <2>1, TrackersAssumption DEF Trackers, TypeInv, TypeOK, Row, RefreshActiveDeployment
    <2>3. \A q \in Trackers \ {r} : track'[q] = track[q]
      BY <2>2, ReadMoves
    <2>4. Starting(t) => Goto(r, Rest(r))
      <3>1. Starting(t) => Bare(deployment[t]) /\ t \notin aged
        BY <2>2 DEF MonitorInv, RunSound, Early, StartInv, Starting, Working
      <3>2. ~ IsCompleted(deployment[t])
        BY <2>2 DEF OwnerInv, OwnerIsUnfinished
      <3> QED
        BY <2>2, <3>1, <3>2 DEF ReadDeployment, Bare, PastGrace
    <2>5. \A o \in Ops : Starting(o) => ~ Follows(r, o)'
      <3>1. Starting(t) => track'[r].pc \notin RefreshPhase
        BY <2>2, <2>4, GotoMoves, RestTyped
      <3>2. track'[r].pc \in RefreshPhase => track'[r].target = t
        BY <2>2, ReadLeads, RestTyped
      <3> QED
        BY <3>1, <3>2 DEF Follows
    <2> QED
      BY <2>1, <2>2, <2>3, <2>5
      DEF RefreshActiveDeployment, StartInv, Starting, Working, Follows, Trackers, lockVars
  <1>2. ASSUME NEW e \in Edits, EditStep(e) PROVE StartInv'
    <2>1. UNCHANGED <<created, aged>>
      BY <1>2 DEF EditStep, ReadForUpdate, UpdateProject, ReadForDelete, DeleteProject, lockVars
    <2> QED
      BY <1>2, <2>1, EditStepClaims DEF StartInv, Starting, Working, Follows
  <1>3. CASE Elsewhere
    <2>1. UNCHANGED lockVars
      BY <1>3, ElsewhereMoves
    <2>2. CASE Crash
      <3>1. \A p \in Trackers : track'[p].pc \in {"idle", "done"}
        BY <2>2 DEF Crash, IdleTrack
      <3>2. \A o \in Ops : track'[o].pc = "idle" => track[o].pc = "idle"
        BY <2>2, TrackersAssumption DEF Crash, IdleTrack, At, Trackers
      <3>3. \A o \in Ops : ~ Working(o)' /\ ~ Starting(o)' /\ track'[o].pc \notin BuildPhase
        BY <3>1 DEF Working, Starting, BuildPhase, Trackers
      <3>4. aged' = aged
        BY <2>2 DEF Crash
      <3> QED
        BY <2>1, <3>2, <3>3, <3>4 DEF StartInv, lockVars
    <2>3. ASSUME NEW o \in Ops, AgeDeployment(o) PROVE StartInv'
      <3>1. /\ aged' = aged \cup {o} /\ o \in created /\ UNCHANGED track
            /\ ~ Starting(o)
        BY <2>3 DEF AgeDeployment, Starting
      <3>2. track[o].pc \notin BuildPhase \cup {"idle"}
        BY <3>1 DEF StartInv
      <3> QED
        BY <2>1, <3>1, <3>2 DEF StartInv, Starting, Working, Follows, lockVars
    <2>4. CASE UNCHANGED <<aged, track>>
      BY <2>1, <2>4 DEF StartInv, Starting, Working, Follows, lockVars
    <2> QED
      BY <1>3, <2>2, <2>3, <2>4 DEF Elsewhere, PipelineRuns, PipelineDeleted, AgeBuild
  <1>4. CASE UNCHANGED vars
    BY <1>4 DEF vars, StartInv, Starting, Working, Follows
  <1> QED
    BY <1>1, <1>2, <1>3, <1>4, StepParts, StartRun, StartTrack

\* "Concurrent deployments for the same project are prevented": at most one run is building
\* or starting its deployment, and then no other deployment owns the lock, whatever
\* crashes, lost answers, failing statements, deletions and refreshes of the deployment do.
THEOREM ExclusiveRunHolds ==
    ASSUME {"update", "refreshBuilds", "slow"} \cap Environment = {}
    PROVE  Spec => []ExclusiveRun
  <1>1. TypeInv /\ PairInv /\ FinInv /\ OwnerInv /\ [Next]_vars => OwnerInv'
    BY OwnerStep
  <1>2. TypeInv /\ PairInv /\ OwnerInv /\ ClaimInv /\ ResetInv /\ [Next]_vars => ClaimInv'
    BY ClaimStep
  <1>3. TypeInv /\ PairInv /\ FinInv /\ OwnerInv /\ MonitorInv /\ [Next]_vars => MonitorInv'
    BY MonitorStep
  <1>4. TypeInv /\ PairInv /\ OwnerInv /\ MonitorInv /\ ClaimInv /\ ResetInv /\ StartInv
           /\ [Next]_vars => StartInv'
    BY StartStep
  <1>6. TypeInv /\ PairInv /\ OwnerInv /\ MonitorInv /\ ClaimInv /\ ResetInv /\ [Next]_vars
           => ResetInv'
    BY ResetStep DEF RefreshesOneRun
  <1>5. PairInv /\ MonitorInv /\ ClaimInv /\ StartInv => ExclusiveRun
    <2> SUFFICES ASSUME PairInv, MonitorInv, ClaimInv, StartInv, NEW o \in Ops, Working(o)
                 PROVE  /\ \A k \in Ops \ {o} : ~ Working(k)
                        /\ project.active \in {o, NoOp}
      BY DEF ExclusiveRun
    <2>1. CASE Starting(o)
      BY <2>1 DEF StartInv, MonitorInv
    <2>2. CASE track[o].pc \in BuildPhase
      <3>1. \A k \in Ops \ {o} : ~ Working(k)
        BY <2>2 DEF StartInv, Starting, ClaimInv, Claims, Working
      <3>2. project.active = NoOp
        BY <2>2 DEF ClaimInv, Claims, PairInv, Pair, MonitorInv
      <3> QED
        BY <3>1, <3>2
    <2> QED
      BY <2>1, <2>2 DEF Working, Starting
  <1> QED
    BY <1>1, <1>2, <1>3, <1>4, <1>5, <1>6, InitTyped, StepTyped, PairInit, PairStep, FinInit,
       FinStep, OwnerInit, MonitorInit, ClaimInit, ResetInit, StartInit, PTL DEF Spec

=============================================================================
