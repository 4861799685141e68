------------------------ MODULE ContainerBuildProofs ------------------------
(***************************************************************************)
(* Type correctness of ContainerBuild, that a key has one kind, that a run *)
(* keeps what users edit, and what holds of images while transactions do   *)
(* not interfere: for every set of sources, installations, keys, values    *)
(* and edits and any number of commits.                                    *)
(***************************************************************************)
EXTENDS ContainerBuild, TLAPS

-----------------------------------------------------------------------------
(* What the operators return. *)

\* A container as it is loaded.
Container == [row : Row, vars : Variables]

Runs == [pc : Places, row : Row, vars : Variables, result : Results, hash : Hashes]

\* NewContainer returns a row.
LEMMA NewContainerTyped ==
    ASSUME NEW s \in Sources, NEW i \in Installations
    PROVE  NewContainer(s, i) \in Row
    BY CommitsAssumption DEF NewContainer, Row, Tags, Latest

\* A container without variables, and an edit that is over.
LEMMA EmptyTyped ==
    /\ NoVariables \in Variables
    /\ Closed \in [open : BOOLEAN, seen : Variables]
    BY DEF NoVariables, Closed, Variables

\* The run that is over; it has a type because a container exists.
LEMMA NoRunTyped == row \in Row => NoRun \in Runs
  <1> SUFFICES ASSUME row \in Row PROVE NoRun \in Runs
    OBVIOUS
  <1>1. /\ (CHOOSE s \in Sources : TRUE) \in Sources
        /\ (CHOOSE i \in Installations : TRUE) \in Installations
    BY DEF Row
  <1> QED
    BY <1>1, NewContainerTyped, EmptyTyped DEF NoRun, Runs, Places, Results, Hashes

\* FindByIDForUpdate returns a container, in an edit and after a build.
LEMMA LoadedTyped ==
    ASSUME TypeOK, NEW e \in Edits
    PROVE  Loaded(e) \in Container /\ Current \in Container
    BY DEF TypeOK, Loaded, Current, Container

\* The methods of the aggregate return containers.
LEMMA MethodsTyped ==
    ASSUME NEW c \in Container, NEW kind \in Kinds, NEW k \in Keys, NEW v \in Values \cup {Unset}
    PROVE  /\ MarkNeedsBuild(c) \in Container
           /\ SetKey(c, kind, k, v) \in Container
           /\ Rebuilt(SetKey(c, kind, k, v), kind) \in Container
  <1>1. \A d \in Container : MarkNeedsBuild(d) \in Container
    BY DEF MarkNeedsBuild, Container, Row
  <1>2. SetKey(c, kind, k, v) \in Container
    BY DEF SetKey, Container, Variables
  <1> QED
    BY <1>1, <1>2 DEF Rebuilt

\* The tags of the image and of the result.
LEMMA TagsTyped ==
    /\ head \in Tags \ {Latest} => CommitHash \in Hashes /\ TagOf(CommitHash) \in Tags
    /\ run.hash \in Hashes => TagOf(run.hash) \in Tags
    BY CommitsAssumption DEF CommitHash, Hashes, TagOf, Tags, Latest

-----------------------------------------------------------------------------
(* Types. *)

\* A container is created with a row, without variables and without a run.
LEMMA InitTyped == Init => TypeOK
  <1> SUFFICES ASSUME Init PROVE TypeOK
    OBVIOUS
  <1>1. row \in Row
    BY NewContainerTyped DEF Init
  <1>2. head \in Tags \ {Latest} /\ registry \in [Tags -> Image \cup {NoImage}]
    BY CommitsAssumption DEF Init, Tags, Latest
  <1> QED
    BY <1>1, <1>2, NoRunTyped, EmptyTyped DEF Init, TypeOK, Runs

\* Save writes a container.
LEMMA CommitTyped ==
    ASSUME TypeOK, NEW e \in Edits, NEW c \in Container, Commit(e, c)
    PROVE  TypeOK'
    BY EmptyTyped DEF TypeOK, Commit, Container

\* The edits (AddBuildVar ... DeleteContainer) keep the types.
LEMMA EditTyped ==
    ASSUME TypeOK, NEW e \in Edits, Edit(e)
    PROVE  TypeOK'
  <1> USE LoadedTyped
  <1>1. CASE CheckPermission(e)
    BY <1>1 DEF CheckPermission, TypeOK
  <1>2. CASE Refuse(e)
    BY <1>2, EmptyTyped DEF Refuse, TypeOK
  <1>3. ASSUME NEW kind \in Kinds, NEW k \in Keys, NEW v \in Values,
               AddVar(e, kind, k, v) \/ UpdateVar(e, kind, k, v)
        PROVE  TypeOK'
    BY <1>3, MethodsTyped, CommitTyped DEF AddVar, UpdateVar
  <1>4. ASSUME NEW kind \in Kinds, NEW k \in Keys, DeleteVar(e, kind, k)
        PROVE  TypeOK'
    BY <1>4, MethodsTyped, CommitTyped DEF DeleteVar
  <1>5. ASSUME NEW s \in Sources, NEW i \in Installations, UpdateContainer(e, s, i)
        PROVE  TypeOK'
    <2> DEFINE new == [Loaded(e) EXCEPT !.row.source = s, !.row.install = i]
    <2>1. new \in Container /\ MarkNeedsBuild(new) \in Container
      BY DEF Container, Row, MarkNeedsBuild
    <2> QED
      BY <1>5, <2>1, CommitTyped DEF UpdateContainer
  <1>6. CASE EditOther(e)
    BY <1>6, CommitTyped DEF EditOther
  <1>7. CASE DeleteContainer(e)
    <2>1. [Loaded(e) EXCEPT !.row.deleted = TRUE] \in Container
      BY DEF Container, Row
    <2> QED
      BY <1>7, <2>1, CommitTyped DEF DeleteContainer
  <1> QED
    BY <1>1, <1>2, <1>3, <1>4, <1>5, <1>6, <1>7 DEF Edit

\* The steps of buildAndDeployInBackground keep the types.
LEMMA RunTyped ==
    ASSUME TypeOK, RunStep
    PROVE  TypeOK'
  <1>1. run \in Runs /\ NoRun \in Runs
    BY NoRunTyped DEF TypeOK, Runs
  <1>2. CASE FetchRow
    BY <1>1, <1>2 DEF FetchRow, TypeOK, Runs, Places, Kinds
  <1>3. CASE FetchVars
    <2>1. run.pc \in Kinds
      BY <1>3 DEF FetchVars
    <2>2. After[run.pc] \in Places
      BY <2>1 DEF After, Places, Kinds
    <2>3. [run.vars EXCEPT ![run.pc] = vars[run.pc]] \in Variables
      BY <1>1, <2>1 DEF TypeOK, Runs, Variables
    <2>4. run' = [run EXCEPT !.vars = [run.vars EXCEPT ![run.pc] = vars[run.pc]], !.pc = After[run.pc]]
      BY <1>3 DEF FetchVars
    <2>5. run' \in Runs
      BY <1>1, <2>2, <2>3, <2>4 DEF Runs
    <2> QED
      BY <1>3, <2>5 DEF FetchVars, TypeOK, Runs
  <1>4. CASE BuildSucceeds
    <2>1. CommitHash \in Hashes /\ TagOf(CommitHash) \in Tags
      BY TagsTyped DEF TypeOK
    <2>2. ImageOf(run.row, run.vars) \in Image
      BY <1>1 DEF ImageOf, Image, Runs, Row, Variables, Kinds
    <2>3. run' \in Runs
      BY <1>1, <1>4, <2>1 DEF BuildSucceeds, Runs, Places, Results
    <2> QED
      BY <1>4, <2>1, <2>2, <2>3 DEF BuildSucceeds, TypeOK, Runs
  <1>5. CASE BuildSkipped
    <2>1. CommitHash \in Hashes
      BY TagsTyped DEF TypeOK
    <2> QED
      BY <1>1, <1>5, <2>1 DEF BuildSkipped, TypeOK, Runs, Places, Results
  <1>6. CASE RunAborts \/ AbortDeployment \/ Deploy
    BY <1>1, <1>6 DEF RunAborts, AbortDeployment, Deploy, TypeOK, Runs
  <1>7. CASE UpdateContainerAfterBuild
    <2>1. Built(row) \in Row
      BY <1>1, TagsTyped DEF Built, Row, TypeOK, Runs
    <2>2. run' \in Runs
      BY <1>1, <1>7 DEF UpdateContainerAfterBuild, Runs, Places
    <2> QED
      BY <1>7, <2>1, <2>2 DEF UpdateContainerAfterBuild, Current, TypeOK, Runs
  <1> QED
    BY <1>2, <1>3, <1>4, <1>5, <1>6, <1>7 DEF RunStep

\* Every step keeps the types.
LEMMA StepTyped == TypeOK /\ [Next]_state => TypeOK'
  <1> SUFFICES ASSUME TypeOK, [Next]_state PROVE TypeOK'
    OBVIOUS
  <1>1. CASE Push
    BY <1>1, CommitsAssumption DEF Push, TypeOK, Tags, Latest
  <1>2. CASE UNCHANGED state
    BY <1>2 DEF state, TypeOK
  <1> QED
    BY <1>1, <1>2, EditTyped, RunTyped DEF Next

\* The columns that edits and runs of buildAndDeployInBackground write keep their
\* types: the last commit is one, or "latest", and never an empty hash.
THEOREM TypeCorrect == Spec => []TypeOK
  <1> QED
    BY InitTyped, StepTyped, PTL DEF Spec

-----------------------------------------------------------------------------
(* A key has one kind. *)

\* A key has one kind among these variables.
OneKind(vs) == \A k \in Keys, s, t \in Kinds : vs[s][k] # Unset /\ vs[t][k] # Unset => s = t

\* Not only the table, but every snapshot that an edit may yet save.
KindInv == OneKind(vars) /\ \A e \in Edits : OneKind(edits[e].seen)

\* Nothing is set in a new container.
LEMMA InitKinds == Init => KindInv
    BY DEF Init, KindInv, OneKind, Closed, NoVariables

\* A key that is free, or has the kind already, may be set; any key may be removed.
LEMMA SetKeyKinds ==
    ASSUME NEW c \in Container, OneKind(c.vars), NEW kind \in Kinds, NEW k \in Keys,
           NEW v \in Values \cup {Unset},
           v = Unset \/ KeyIsFree(c, kind, k) \/ HasKey(c, kind, k)
    PROVE  OneKind(Rebuilt(SetKey(c, kind, k, v), kind).vars)
  <1>1. Rebuilt(SetKey(c, kind, k, v), kind).vars = [c.vars EXCEPT ![kind] = [c.vars[kind] EXCEPT ![k] = v]]
    BY DEF Rebuilt, SetKey, MarkNeedsBuild, Container
  <1> DEFINE new == [c.vars EXCEPT ![kind] = [c.vars[kind] EXCEPT ![k] = v]]
  <1>2. \A t \in Kinds, j \in Keys : new[t][j] = IF t = kind /\ j = k THEN v ELSE c.vars[t][j]
    BY DEF Container, Variables
  <1>3. OneKind(new)
    BY <1>2 DEF OneKind, KeyIsFree, HasKey
  <1> QED
    BY <1>1, <1>3

\* Save writes variables in which a key has one kind.
LEMMA CommitKinds ==
    ASSUME TypeOK, KindInv, NEW e \in Edits, NEW c, OneKind(c.vars), Commit(e, c)
    PROVE  KindInv'
  <1>1. OneKind(Closed.seen)
    BY DEF OneKind, Closed, NoVariables
  <1> QED
    BY <1>1 DEF TypeOK, KindInv, Commit, OneKind

\* Every step keeps it: a run writes the variables back as they are.
LEMMA StepKinds == TypeOK /\ KindInv /\ [Next]_state => KindInv'
  <1> SUFFICES ASSUME TypeOK, KindInv, [Next]_state PROVE KindInv'
    OBVIOUS
  <1>1. ASSUME NEW e \in Edits, Edit(e)
        PROVE  KindInv'
    <2>1. Loaded(e) \in Container /\ OneKind(Loaded(e).vars)
      BY LoadedTyped DEF KindInv, Loaded
    <2>2. CASE CheckPermission(e)
      BY <2>2 DEF CheckPermission, KindInv, OneKind, TypeOK
    <2>3. CASE Refuse(e)
      <3>1. OneKind(Closed.seen)
        BY DEF OneKind, Closed, NoVariables
      <3> QED
        BY <2>3, <3>1 DEF Refuse, KindInv, OneKind, TypeOK
    <2>4. ASSUME NEW kind \in Kinds, NEW k \in Keys, NEW v \in Values,
                 AddVar(e, kind, k, v) \/ UpdateVar(e, kind, k, v)
          PROVE  KindInv'
      BY <2>1, <2>4, SetKeyKinds, CommitKinds DEF AddVar, UpdateVar
    <2>5. ASSUME NEW kind \in Kinds, NEW k \in Keys, DeleteVar(e, kind, k)
          PROVE  KindInv'
      BY <2>1, <2>5, SetKeyKinds, CommitKinds DEF DeleteVar
    <2>6. ASSUME NEW s \in Sources, NEW i \in Installations, UpdateContainer(e, s, i)
          PROVE  KindInv'
      <3> DEFINE new == [Loaded(e) EXCEPT !.row.source = s, !.row.install = i]
      <3>1. new.vars = Loaded(e).vars /\ MarkNeedsBuild(new).vars = Loaded(e).vars
        BY <2>1 DEF Container, MarkNeedsBuild
      <3> QED
        BY <2>1, <2>6, <3>1, CommitKinds DEF UpdateContainer
    <2>7. CASE EditOther(e)
      BY <2>1, <2>7, CommitKinds DEF EditOther
    <2>8. CASE DeleteContainer(e)
      <3>1. [Loaded(e) EXCEPT !.row.deleted = TRUE].vars = Loaded(e).vars
        BY <2>1 DEF Container
      <3> QED
        BY <2>1, <2>8, <3>1, CommitKinds DEF DeleteContainer
    <2> QED
      BY <1>1, <2>2, <2>3, <2>4, <2>5, <2>6, <2>7, <2>8 DEF Edit
  <1>2. CASE RunStep
    <2>1. UNCHANGED <<vars, edits>>
      BY <1>2 DEF RunStep, FetchRow, FetchVars, BuildSucceeds, BuildSkipped, RunAborts,
         UpdateContainerAfterBuild, AbortDeployment, Deploy, Current
    <2> QED
      BY <2>1 DEF KindInv, OneKind
  <1>3. CASE Push \/ UNCHANGED state
    BY <1>3 DEF Push, state, KindInv, OneKind
  <1> QED
    BY <1>1, <1>2, <1>3 DEF Next

\* AddEnvVar, AddSecret and AddBuildVar look for the key among the variables of all
\* kinds: although they look at a snapshot, no two kinds ever share a key.
THEOREM KeyHasOneKindHolds == Spec => []KeyHasOneKind
  <1>1. KindInv => KeyHasOneKind
    BY DEF KindInv, OneKind, KeyHasOneKind
  <1> QED
    BY <1>1, InitTyped, StepTyped, InitKinds, StepKinds, PTL DEF Spec

-----------------------------------------------------------------------------
(* A build takes no edit back. *)

\* The only step of a run that writes the container is UpdateContainerAfterBuild, and
\* it writes the last commit and needs_build into what it has read under the lock.
THEOREM BuildKeepsEditsHolds == Spec => BuildKeepsEdits
  <1> DEFINE Kept == RunStep => /\ vars' = vars
                                /\ row' = [row EXCEPT !.needs = row'.needs, !.last = row'.last]
  <1>1. ASSUME TypeOK, RunStep
        PROVE  Kept
    <2>1. CASE UpdateContainerAfterBuild
      <3>1. vars' = vars /\ row' = Built(row)
        BY <2>1 DEF UpdateContainerAfterBuild, Current
      <3> DEFINE last == IF run.result = "success" THEN TagOf(run.hash) ELSE row.last
      <3> HIDE DEF last
      <3>2. row' = [row EXCEPT !.last = last, !.needs = FALSE]
        BY <3>1 DEF Built, last
      <3>3. row'.last = last /\ row'.needs = FALSE
        BY <1>1, <3>2 DEF TypeOK, Row
      <3>4. row' = [row EXCEPT !.needs = FALSE, !.last = last]
        BY <3>2
      <3>5. row' = [row EXCEPT !.needs = row'.needs, !.last = row'.last]
        BY <3>3, <3>4
      <3> QED
        BY <3>1, <3>5
    <2>2. CASE ~ UpdateContainerAfterBuild
      <3>1. UNCHANGED <<row, vars>>
        BY <1>1, <2>2 DEF RunStep, FetchRow, FetchVars, BuildSucceeds, BuildSkipped, RunAborts,
           AbortDeployment, Deploy
      <3>2. row = [row EXCEPT !.needs = row.needs, !.last = row.last]
        BY <1>1 DEF TypeOK, Row
      <3>3. row'.needs = row.needs /\ row'.last = row.last
        BY <3>1
      <3> QED
        BY <3>1, <3>2, <3>3
    <2> QED
      BY <2>1, <2>2
  <1>2. TypeOK /\ [Next]_state => [Kept]_state
    BY <1>1
  <1> QED
    BY <1>2, TypeCorrect, PTL DEF Spec, BuildKeepsEdits

-----------------------------------------------------------------------------
(* Without interference needs_build tells whether the image is current, and  *)
(* the image that is deployed fits the configuration it is deployed with.    *)
(* Both follow from what the copy of a run has to do with the container that *)
(* users go on editing.                                                      *)

Undisturbed == interference = {}

\* While a run reads, its copy of the row is the row.  Until its result is recorded, a
\* container that needs no build still has the source and build variables of the copy;
\* and a copy that needs no build has an image.
CopyInv ==
    /\ run.pc \in Kinds => run.row = row /\ ~ row.deleted
    /\ run.pc \in {"building", "update"} =>
          /\ run.row.last = row.last
          /\ ~ row.needs => ~ run.row.needs /\ ImageOf(row, vars) = ImageOf(run.row, run.vars)
          /\ ~ run.row.needs => registry[run.row.last] = ImageOf(run.row, run.vars)

\* A build that succeeded has pushed the image of the copy; one that was skipped was
\* not asked for.
ResultInv ==
    run.pc = "update" =>
       /\ run.result \in {"success", "skipped"}
       /\ run.result = "success" => registry[TagOf(run.hash)] = ImageOf(run.row, run.vars)
       /\ run.result = "skipped" => ~ run.row.needs

\* Users do not remove the repository of a container.
KeepsRepository == \A c \in SourceChanges : c[1] \in GitSources => c[2] \in GitSources

ImageInv == Undisturbed => ImageCurrent /\ CopyInv /\ ResultInv

\* A container without a repository has the tag "latest", and so has its copy; and the
\* hash of its build is empty.
RepositoryInv ==
    /\ row.source \notin GitSources => row.last = Latest
    /\ run.row.source \notin GitSources => run.row.last = Latest
    /\ run.pc = "update" => (run.hash = Unset <=> run.row.source \notin GitSources)

-----------------------------------------------------------------------------
(* What an edit may do. *)

\* What a committed edit leaves: the last commit, and either a request for a build or
\* the source and the build variables, too.
EditKeeps ==
    /\ row'.last = row.last
    /\ row'.needs \/ (row'.needs = row.needs /\ ImageOf(row', vars') = ImageOf(row, vars))
    /\ row'.source = row.source \/ <<row.source, row'.source>> \in SourceChanges

\* A behaviour admits the same interference throughout.
LEMMA InterferenceFixed == [Next]_state => UNCHANGED interference
  <1> SUFFICES ASSUME [Next]_state PROVE UNCHANGED interference
    OBVIOUS
  <1>1. ASSUME NEW e \in Edits, Edit(e)
        PROVE  UNCHANGED interference
    <2>1. \A c : Commit(e, c) => UNCHANGED interference
      BY DEF Commit
    <2> QED
      BY <1>1, <2>1 DEF Edit, CheckPermission, Refuse, AddVar, UpdateVar, DeleteVar,
         UpdateContainer, EditOther, DeleteContainer
  <1>2. CASE RunStep
    BY <1>2 DEF RunStep, FetchRow, FetchVars, BuildSucceeds, BuildSkipped, RunAborts,
       UpdateContainerAfterBuild, AbortDeployment, Deploy
  <1>3. CASE Push \/ UNCHANGED state
    BY <1>3 DEF Push, state
  <1> QED
    BY <1>1, <1>2, <1>3 DEF Next

\* A commit without interference saves what it has loaded, with its own change, and
\* while no run is reading.
LEMMA CommitKeeps ==
    ASSUME TypeOK, Undisturbed, NEW e \in Edits, NEW c, Commit(e, c)
    PROVE  /\ run.pc \notin Kinds /\ edits[e].seen = vars
           /\ row' = c.row /\ vars' = c.vars
           /\ Loaded(e) = [row |-> row, vars |-> vars]
           /\ UNCHANGED <<interference, run, head, registry>>
    BY DEF Commit, Undisturbed, Loaded

\* Setting or removing a variable.
LEMMA SetKeyKeeps ==
    ASSUME TypeOK, Undisturbed, NEW e \in Edits, NEW kind \in Kinds, NEW k \in Keys,
           NEW v \in Values \cup {Unset}, Commit(e, Rebuilt(SetKey(Loaded(e), kind, k, v), kind))
    PROVE  EditKeeps
  <1> DEFINE c == Loaded(e)
             new == Rebuilt(SetKey(c, kind, k, v), kind)
  <1>1. row' = new.row /\ vars' = new.vars /\ c = [row |-> row, vars |-> vars]
    BY CommitKeeps
  <1>2. CASE kind = "build"
    <2>1. new.row = [row EXCEPT !.needs = TRUE]
      BY <1>1, <1>2 DEF Rebuilt, MarkNeedsBuild, SetKey
    <2> QED
      BY <1>1, <2>1 DEF EditKeeps, TypeOK, Row
  <1>3. CASE kind # "build"
    <2>1. new.row = row /\ new.vars = [vars EXCEPT ![kind] = [vars[kind] EXCEPT ![k] = v]]
      BY <1>1, <1>3 DEF Rebuilt, SetKey
    <2>2. new.vars["build"] = vars["build"]
      BY <1>3, <2>1 DEF TypeOK, Variables, Kinds
    <2> QED
      BY <1>1, <2>1, <2>2 DEF EditKeeps, ImageOf
  <1> QED
    BY <1>2, <1>3

\* UpdateContainer asks for a build when the source changes.
LEMMA UpdateKeeps ==
    ASSUME TypeOK, Undisturbed, NEW e \in Edits, NEW s \in Sources, NEW i \in Installations,
           UpdateContainer(e, s, i)
    PROVE  EditKeeps
  <1> DEFINE new == [Loaded(e) EXCEPT !.row.source = s, !.row.install = i]
             c == IF ShouldRebuild(Loaded(e), new) THEN MarkNeedsBuild(new) ELSE new
  <1>1. Commit(e, c) /\ (s = row.source \/ <<row.source, s>> \in SourceChanges)
    BY DEF UpdateContainer
  <1>2. row' = c.row /\ vars' = c.vars /\ Loaded(e) = [row |-> row, vars |-> vars]
    BY <1>1, CommitKeeps
  <1>3. new.row = [row EXCEPT !.source = s, !.install = i] /\ new.vars = vars
    BY <1>2
  <1> HIDE DEF new
  <1>4. Loaded(e).row.source = row.source /\ new.row.source = s
    BY <1>2, <1>3 DEF TypeOK, Row
  <1>5. ShouldRebuild(Loaded(e), new) <=> s # row.source
    BY <1>4 DEF ShouldRebuild
  <1>6. CASE s = row.source
    <2>1. c = new
      BY <1>5, <1>6
    <2> QED
      BY <1>2, <1>3, <1>6, <2>1 DEF EditKeeps, ImageOf, TypeOK, Row
  <1>7. CASE s # row.source
    <2>1. c = MarkNeedsBuild(new)
      BY <1>5, <1>7
    <2>2. MarkNeedsBuild(new).row = [new.row EXCEPT !.needs = TRUE]
      BY DEF MarkNeedsBuild, new, Loaded
    <2>3. row' = [[row EXCEPT !.source = s, !.install = i] EXCEPT !.needs = TRUE]
      BY <1>2, <1>3, <2>1, <2>2
    <2>4. row'.last = row.last /\ row'.needs /\ row'.source = s
      BY <2>3 DEF TypeOK, Row
    <2> QED
      BY <1>1, <2>4 DEF EditKeeps
  <1> QED
    BY <1>6, <1>7

\* Every edit either changes only what edits hold, or commits.
LEMMA EditStep ==
    ASSUME TypeOK, Undisturbed, NEW e \in Edits, Edit(e)
    PROVE  /\ UNCHANGED <<interference, run, head, registry>>
           /\ UNCHANGED <<row, vars>> \/ (run.pc \notin Kinds /\ EditKeeps /\ (row'.deleted \/ ~ row.deleted))
  <1>1. CASE CheckPermission(e) \/ Refuse(e)
    BY <1>1 DEF CheckPermission, Refuse
  <1>2. ASSUME NEW c, Commit(e, c), EditKeeps
        PROVE  /\ UNCHANGED <<interference, run, head, registry>>
               /\ run.pc \notin Kinds /\ EditKeeps /\ (row'.deleted \/ ~ row.deleted)
    BY <1>2, CommitKeeps DEF Commit
  <1>3. ASSUME NEW kind \in Kinds, NEW k \in Keys, NEW v \in Values,
               AddVar(e, kind, k, v) \/ UpdateVar(e, kind, k, v)
        PROVE  /\ UNCHANGED <<interference, run, head, registry>>
               /\ run.pc \notin Kinds /\ EditKeeps /\ (row'.deleted \/ ~ row.deleted)
    BY <1>2, <1>3, SetKeyKeeps DEF AddVar, UpdateVar
  <1>4. ASSUME NEW kind \in Kinds, NEW k \in Keys, DeleteVar(e, kind, k)
        PROVE  /\ UNCHANGED <<interference, run, head, registry>>
               /\ run.pc \notin Kinds /\ EditKeeps /\ (row'.deleted \/ ~ row.deleted)
    BY <1>2, <1>4, SetKeyKeeps DEF DeleteVar
  <1>5. ASSUME NEW s \in Sources, NEW i \in Installations, UpdateContainer(e, s, i)
        PROVE  /\ UNCHANGED <<interference, run, head, registry>>
               /\ run.pc \notin Kinds /\ EditKeeps /\ (row'.deleted \/ ~ row.deleted)
    BY <1>2, <1>5, UpdateKeeps DEF UpdateContainer
  <1>6. CASE EditOther(e)
    <2>1. row' = row /\ vars' = vars
      BY <1>6, CommitKeeps DEF EditOther
    <2> QED
      BY <1>6, <2>1, CommitKeeps DEF EditOther
  <1>7. CASE DeleteContainer(e)
    <2>1. row' = [row EXCEPT !.deleted = TRUE] /\ vars' = vars
      BY <1>7, CommitKeeps DEF DeleteContainer
    <2>2. EditKeeps
      BY <2>1 DEF EditKeeps, ImageOf, TypeOK, Row
    <2> QED
      BY <1>2, <1>7, <2>2 DEF DeleteContainer
  <1> QED
    BY <1>1, <1>3, <1>4, <1>5, <1>6, <1>7 DEF Edit

-----------------------------------------------------------------------------
(* needs_build tells whether the image is current. *)

\* A new container needs a build, and no run has begun.
LEMMA InitImage == Init => ImageInv
    BY DEF Init, ImageInv, ImageCurrent, CopyInv, ResultInv, NewContainer, NoRun, Kinds

\* An edit that leaves needs_build FALSE leaves what the image is made from.
LEMMA EditImage ==
    ASSUME TypeOK, Undisturbed, ImageInv, NEW e \in Edits, Edit(e)
    PROVE  ImageCurrent' /\ CopyInv' /\ ResultInv'
  <1>1. ImageCurrent /\ CopyInv /\ ResultInv
    BY DEF ImageInv
  <1>2. UNCHANGED <<interference, run, head, registry>>
    BY EditStep
  <1>3. ResultInv'
    BY <1>1, <1>2 DEF ResultInv, TagOf, ImageOf
  <1>4. CASE UNCHANGED <<row, vars>>
    BY <1>1, <1>2, <1>3, <1>4 DEF ImageCurrent, CopyInv, ImageOf
  <1>5. CASE run.pc \notin Kinds /\ EditKeeps /\ (row'.deleted \/ ~ row.deleted)
    <2>1. ImageCurrent'
      BY <1>1, <1>2, <1>5 DEF ImageCurrent, EditKeeps
    <2>2. CopyInv'
      BY <1>1, <1>2, <1>5 DEF CopyInv, EditKeeps
    <2> QED
      BY <1>3, <2>1, <2>2
  <1> QED
    BY <1>4, <1>5, EditStep

\* Copying the configuration: nobody edits meanwhile, so it is a copy.
LEMMA FetchImage ==
    ASSUME TypeOK, Undisturbed, ImageInv, FetchRow \/ FetchVars
    PROVE  ImageCurrent' /\ CopyInv' /\ ResultInv'
  <1>1. ImageCurrent /\ CopyInv /\ ResultInv
    BY DEF ImageInv
  <1>2. CASE FetchRow
    <2>1. run'.pc = "env" /\ run'.row = row /\ ~ row.deleted
      BY <1>2 DEF FetchRow, NoRun
    <2> QED
      BY <1>1, <1>2, <2>1 DEF FetchRow, ImageCurrent, CopyInv, ResultInv, ImageOf, Kinds
  <1>3. CASE FetchVars
    <2>1. run.pc \in Kinds /\ UNCHANGED <<row, vars, registry>>
      BY <1>3 DEF FetchVars
    <2>2. /\ run'.pc = After[run.pc] /\ run'.row = run.row
          /\ run'.vars[run.pc] = vars[run.pc]
      BY <1>3, <2>1 DEF FetchVars, TypeOK, Variables
    <2>3. run'.row = row /\ ~ row.deleted
      BY <1>1, <2>1, <2>2 DEF CopyInv
    <2>4. CASE run.pc # "build"
      <3>1. run'.pc \in Kinds
        BY <2>1, <2>2, <2>4 DEF After, Kinds
      <3> QED
        BY <1>1, <2>1, <2>3, <3>1 DEF ImageCurrent, CopyInv, ResultInv, ImageOf, Kinds
    <2>5. CASE run.pc = "build"
      <3>1. run'.pc = "building" /\ ImageOf(run'.row, run'.vars) = ImageOf(row, vars)
        BY <2>2, <2>3, <2>5 DEF After, ImageOf
      <3> QED
        BY <1>1, <2>1, <2>3, <3>1 DEF ImageCurrent, CopyInv, ResultInv, ImageOf, Kinds
    <2> QED
      BY <2>4, <2>5
  <1> QED
    BY <1>2, <1>3

\* Tekton builds the copy or decides that its image is still good.
LEMMA BuildImage ==
    ASSUME TypeOK, Undisturbed, ImageInv, BuildSucceeds \/ BuildSkipped
    PROVE  ImageCurrent' /\ CopyInv' /\ ResultInv'
  <1>1. ImageCurrent /\ CopyInv /\ ResultInv
    BY DEF ImageInv
  <1> DEFINE copy == ImageOf(run.row, run.vars)
  <1>2. /\ run.pc = "building" /\ run'.pc = "update" /\ UNCHANGED <<row, vars>>
        /\ run'.row = run.row /\ run'.vars = run.vars
    BY DEF BuildSucceeds, BuildSkipped, TypeOK
  <1>3. ImageOf(run'.row, run'.vars) = copy /\ ImageOf(row', vars') = ImageOf(row, vars)
    BY <1>2 DEF ImageOf
  <1>4. CASE BuildSucceeds
    <2>1. TagOf(CommitHash) \in Tags
      BY TagsTyped DEF TypeOK
    <2>2. /\ registry'[TagOf(CommitHash)] = copy
          /\ \A t \in Tags : registry'[t] = copy \/ registry'[t] = registry[t]
          /\ run'.result = "success" /\ run'.hash = CommitHash
      BY <1>4, <2>1 DEF BuildSucceeds, TypeOK
    <2>3. row.last \in Tags /\ run.row.last \in Tags
      BY DEF TypeOK, Row
    <2>4. ~ row.needs => ImageOf(row, vars) = copy
      BY <1>1, <1>2 DEF CopyInv
    <2>5. ImageCurrent'
      BY <1>1, <1>2, <1>3, <2>2, <2>3, <2>4 DEF ImageCurrent
    <2>6. CopyInv'
      BY <1>1, <1>2, <1>3, <2>2, <2>3 DEF CopyInv, Kinds
    <2>7. TagOf(run'.hash) = TagOf(CommitHash)
      BY <2>2
    <2>8. ResultInv'
      BY <1>3, <2>2, <2>7 DEF ResultInv
    <2> QED
      BY <2>5, <2>6, <2>8
  <1>5. CASE BuildSkipped
    <2>1. run'.result = "skipped" /\ ~ run.row.needs /\ UNCHANGED registry
      BY <1>5 DEF BuildSkipped, ShouldBuild, TypeOK
    <2> QED
      BY <1>1, <1>2, <1>3, <2>1 DEF ImageCurrent, CopyInv, ResultInv, Kinds
  <1> QED
    BY <1>4, <1>5

\* The result is recorded for the configuration it belongs to.
LEMMA RecordImage ==
    ASSUME TypeOK, Undisturbed, ImageInv, UpdateContainerAfterBuild
    PROVE  ImageCurrent' /\ CopyInv' /\ ResultInv'
  <1>1. CopyInv /\ ResultInv /\ run.pc = "update" /\ run'.pc = "deploy"
    BY DEF ImageInv, UpdateContainerAfterBuild, TypeOK
  <1>2. row' = Built(row) /\ UNCHANGED <<vars, registry>>
    BY DEF UpdateContainerAfterBuild, Current
  <1>3. row.source = run.row.source /\ vars["build"] = run.vars["build"]
    BY DEF UpdateContainerAfterBuild, hasBuildParametersChanged, Current
  <1>4. /\ row'.source = row.source
        /\ row'.last = IF run.result = "success" THEN TagOf(run.hash) ELSE row.last
    BY <1>2 DEF Built, TypeOK, Row
  <1>5. ImageOf(row', vars') = ImageOf(run.row, run.vars)
    BY <1>2, <1>3, <1>4 DEF ImageOf
  <1>6. registry[row'.last] = ImageOf(run.row, run.vars)
    BY <1>1, <1>4 DEF CopyInv, ResultInv
  <1> QED
    BY <1>1, <1>2, <1>5, <1>6 DEF ImageCurrent, CopyInv, ResultInv, Kinds

\* Every step keeps the invariant.
LEMMA StepImage == TypeOK /\ ImageInv /\ [Next]_state => ImageInv'
  <1> SUFFICES ASSUME TypeOK, ImageInv, [Next]_state, Undisturbed'
               PROVE  ImageCurrent' /\ CopyInv' /\ ResultInv'
    BY DEF ImageInv
  <1>1. Undisturbed
    BY InterferenceFixed DEF Undisturbed
  <1>2. CASE RunAborts \/ AbortDeployment \/ Deploy
    <2>1. run'.pc = "idle" /\ UNCHANGED <<row, vars, registry>>
      BY <1>2 DEF RunAborts, AbortDeployment, Deploy, NoRun
    <2> QED
      BY <1>1, <2>1 DEF ImageInv, ImageCurrent, CopyInv, ResultInv, ImageOf, Kinds
  <1>3. CASE Push \/ UNCHANGED state
    <2>1. UNCHANGED <<row, vars, run, registry>>
      BY <1>3 DEF Push, state
    <2> QED
      BY <1>1, <2>1 DEF ImageInv, ImageCurrent, CopyInv, ResultInv, ImageOf, TagOf
  <1> QED
    BY <1>1, <1>2, <1>3, EditImage, FetchImage, BuildImage, RecordImage DEF Next, RunStep

\* Without interference, a container whose needs_build is FALSE has an image of its
\* present source and build variables under its last commit: MarkNeedsBuild is called
\* wherever it must be, and UpdateContainerAfterBuild clears nothing it should keep.
THEOREM ImageCurrentHolds == Spec => []ImageCurrentUndisturbed
  <1>1. ImageInv => ImageCurrentUndisturbed
    BY DEF ImageInv, Undisturbed, ImageCurrentUndisturbed
  <1> QED
    BY <1>1, InitTyped, StepTyped, InitImage, StepImage, PTL DEF Spec

-----------------------------------------------------------------------------
(* The image that is deployed fits its configuration. *)

\* A new container has the tag "latest".
LEMMA InitRepository == Init => RepositoryInv
    BY DEF Init, RepositoryInv, NewContainer, NoRun

\* An edit does not touch the last commit, and gives a container a repository or
\* leaves it one.
LEMMA EditRepository ==
    ASSUME TypeOK, KeepsRepository, RepositoryInv, NEW e \in Edits, Edit(e)
    PROVE  RepositoryInv'
  <1> DEFINE Same == row'.source = row.source /\ row'.last = row.last
  <1>1. UNCHANGED run
    <2>1. \A c : Commit(e, c) => UNCHANGED run
      BY DEF Commit
    <2> QED
      BY <2>1 DEF Edit, CheckPermission, Refuse, AddVar, UpdateVar, DeleteVar,
         UpdateContainer, EditOther, DeleteContainer
  <1>2. Loaded(e) = [row |-> row, vars |-> edits[e].seen] /\ row \in Row
    BY DEF Loaded, TypeOK
  <1>3. CASE CheckPermission(e) \/ Refuse(e)
    BY <1>3 DEF CheckPermission, Refuse, RepositoryInv
  <1>4. ASSUME NEW kind \in Kinds, NEW k \in Keys, NEW v \in Values \cup {Unset},
               Commit(e, Rebuilt(SetKey(Loaded(e), kind, k, v), kind))
        PROVE  Same
    <2>1. row' = row \/ row' = [row EXCEPT !.needs = TRUE]
      BY <1>2, <1>4 DEF Commit, Rebuilt, MarkNeedsBuild, SetKey
    <2> QED
      BY <1>2, <2>1 DEF Row
  <1>5. ASSUME NEW s \in Sources, NEW i \in Installations, UpdateContainer(e, s, i)
        PROVE  RepositoryInv'
    <2> DEFINE new == [Loaded(e) EXCEPT !.row.source = s, !.row.install = i]
    <2>1. new.row = [row EXCEPT !.source = s, !.install = i]
      BY <1>2
    <2> HIDE DEF new
    <2>2. row' = new.row \/ row' = [new.row EXCEPT !.needs = TRUE]
      BY <1>5 DEF UpdateContainer, Commit, MarkNeedsBuild, new, Loaded
    <2>3. row'.source = s /\ row'.last = row.last
      BY <1>2, <2>1, <2>2 DEF Row
    <2>4. s = row.source \/ <<row.source, s>> \in SourceChanges
      BY <1>5 DEF UpdateContainer
    <2>5. s \notin GitSources => row.source \notin GitSources
      BY <2>4 DEF KeepsRepository
    <2> QED
      BY <1>1, <2>3, <2>5 DEF RepositoryInv
  <1>6. CASE EditOther(e) \/ DeleteContainer(e)
    <2>1. row' = row \/ row' = [row EXCEPT !.deleted = TRUE]
      BY <1>2, <1>6 DEF EditOther, DeleteContainer, Commit
    <2> QED
      BY <1>1, <1>2, <2>1 DEF Row, RepositoryInv
  <1>7. ASSUME NEW kind \in Kinds, NEW k \in Keys,
               DeleteVar(e, kind, k) \/ \E v \in Values : AddVar(e, kind, k, v) \/ UpdateVar(e, kind, k, v)
        PROVE  RepositoryInv'
    BY <1>1, <1>4, <1>7 DEF AddVar, UpdateVar, DeleteVar, RepositoryInv
  <1> QED
    BY <1>3, <1>5, <1>6, <1>7 DEF Edit

\* A run copies the row, and records an empty hash as "latest".
LEMMA RunRepository ==
    ASSUME TypeOK, RepositoryInv, RunStep
    PROVE  RepositoryInv'
  <1>1. CASE FetchRow
    <2>1. run'.row = row /\ run'.pc = "env" /\ UNCHANGED row
      BY <1>1 DEF FetchRow, NoRun
    <2> QED
      BY <2>1 DEF RepositoryInv
  <1>2. CASE FetchVars
    <2>1. run'.row = run.row /\ run'.pc # "update" /\ UNCHANGED row
      BY <1>2 DEF FetchVars, After, Kinds, TypeOK
    <2> QED
      BY <2>1 DEF RepositoryInv
  <1>3. CASE BuildSucceeds \/ BuildSkipped
    <2>1. run'.row = run.row /\ run'.hash = CommitHash /\ UNCHANGED row
      BY <1>3 DEF BuildSucceeds, BuildSkipped, TypeOK
    <2>2. CommitHash = Unset <=> run.row.source \notin GitSources
      BY CommitsAssumption DEF CommitHash, TypeOK, Tags
    <2> QED
      BY <2>1, <2>2 DEF RepositoryInv
  <1>4. CASE RunAborts \/ AbortDeployment \/ Deploy
    <2>1. run'.pc = "idle" /\ run'.row.last = Latest /\ UNCHANGED row
      BY <1>4 DEF RunAborts, AbortDeployment, Deploy, NoRun, NewContainer
    <2> QED
      BY <2>1 DEF RepositoryInv
  <1>5. CASE UpdateContainerAfterBuild
    <2>1. run.pc = "update" /\ row.source = run.row.source
      BY <1>5 DEF UpdateContainerAfterBuild, hasBuildParametersChanged, Current
    <2>2. row'.source = row.source /\ row'.last \in {row.last, TagOf(run.hash)}
      BY <1>5 DEF UpdateContainerAfterBuild, Current, Built, TypeOK, Row
    <2>3. run'.pc = "deploy" /\ run'.row = run.row
      BY <1>5 DEF UpdateContainerAfterBuild, TypeOK
    <2> QED
      BY <2>1, <2>2, <2>3 DEF RepositoryInv, TagOf
  <1> QED
    BY <1>1, <1>2, <1>3, <1>4, <1>5 DEF RunStep

\* Every step keeps it, when users keep the repository.
LEMMA StepRepository ==
    KeepsRepository => (TypeOK /\ RepositoryInv /\ [Next]_state => RepositoryInv')
  <1>1. ASSUME Push \/ UNCHANGED state, RepositoryInv
        PROVE  RepositoryInv'
    BY <1>1 DEF Push, state, RepositoryInv
  <1> QED
    BY <1>1, EditRepository, RunRepository DEF Next

\* The state of a run that is about to deploy.
DeployInv == Undisturbed /\ run.pc = "deploy" => registry[ImageTag] = ImageOf(run.row, run.vars)

\* The tag that ConvertToDeployConfig takes names the image of the result that has
\* been recorded.
LEMMA StepDeploy ==
    TypeOK /\ ImageInv /\ RepositoryInv /\ DeployInv /\ [Next]_state => DeployInv'
  <1> SUFFICES ASSUME TypeOK, ImageInv, RepositoryInv, DeployInv, [Next]_state,
                      Undisturbed', run'.pc = "deploy"
               PROVE  (registry[ImageTag] = ImageOf(run.row, run.vars))'
    BY DEF DeployInv
  <1>1. Undisturbed
    BY InterferenceFixed DEF Undisturbed
  <1>2. ASSUME UNCHANGED <<run, registry>>
        PROVE  (registry[ImageTag] = ImageOf(run.row, run.vars))'
    BY <1>1, <1>2 DEF DeployInv, ImageTag, ImageOf
  <1>3. CASE UpdateContainerAfterBuild
    <2>1. /\ run.pc = "update" /\ UNCHANGED registry
          /\ run'.row = run.row /\ run'.vars = run.vars
          /\ run'.result = run.result /\ run'.hash = run.hash
      BY <1>3 DEF UpdateContainerAfterBuild, TypeOK
    <2>2. CopyInv /\ ResultInv
      BY <1>1 DEF ImageInv
    <2>3. registry[ImageTag] = ImageOf(run.row, run.vars)
      <3>1. CASE run.result = "success" /\ run.hash # Unset
        BY <2>1, <2>2, <3>1 DEF ResultInv, ImageTag, TagOf
      <3>2. CASE run.result = "success" /\ run.hash = Unset
        BY <2>1, <2>2, <3>2 DEF ResultInv, RepositoryInv, ImageTag, TagOf
      <3>3. CASE run.result = "skipped"
        BY <2>1, <2>2, <3>3 DEF CopyInv, ResultInv, ImageTag
      <3> QED
        BY <2>1, <2>2, <3>1, <3>2, <3>3 DEF ResultInv
    <2>4. ImageTag' = ImageTag /\ ImageOf(run.row, run.vars)' = ImageOf(run.row, run.vars)
      BY <2>1 DEF ImageTag, ImageOf
    <2> QED
      BY <2>1, <2>3, <2>4
  <1>4. ASSUME RunStep, ~ UpdateContainerAfterBuild
        PROVE  FALSE
    <2>1. FetchVars => run'.pc \in {"secret", "build", "building"}
      BY DEF FetchVars, After, Kinds, TypeOK
    <2>2. FetchRow => run'.pc = "env"
      BY DEF FetchRow, NoRun
    <2>3. BuildSucceeds \/ BuildSkipped => run'.pc = "update"
      BY DEF BuildSucceeds, BuildSkipped, TypeOK
    <2>4. RunAborts \/ AbortDeployment \/ Deploy => run'.pc = "idle"
      BY DEF RunAborts, AbortDeployment, Deploy, NoRun
    <2> QED
      BY <1>4, <2>1, <2>2, <2>3, <2>4 DEF RunStep
  <1>5. ASSUME NEW e \in Edits, Edit(e)
        PROVE  UNCHANGED <<run, registry>>
    BY <1>1, <1>5, EditStep
  <1>6. CASE Push \/ UNCHANGED state
    BY <1>2, <1>6 DEF Push, state
  <1> QED
    BY <1>2, <1>3, <1>4, <1>5, <1>6 DEF Next

\* Without interference, the copy of the configuration that is deployed runs on an
\* image built from it, as ConvertToDeployConfig promises, provided that no container
\* loses its repository.
THEOREM DeploysItsConfigurationHolds ==
    ASSUME KeepsRepository
    PROVE  Spec => []DeploysItsConfiguration
  <1>1. Init => DeployInv
    BY DEF Init, DeployInv, NoRun
  <1>2. TypeOK /\ RepositoryInv /\ [Next]_state => RepositoryInv'
    BY StepRepository
  <1>3. DeployInv => DeploysItsConfiguration
    BY DEF DeployInv, Undisturbed, DeploysItsConfiguration
  <1> QED
    BY <1>1, <1>2, <1>3, InitTyped, StepTyped, InitImage, StepImage, InitRepository, StepDeploy,
       PTL DEF Spec
=============================================================================
