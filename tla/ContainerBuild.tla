--------------------------- MODULE ContainerBuild ---------------------------
(***************************************************************************)
(* One container while it is built: the edits of the users, each of them a *)
(* transaction, and the runs of build-and-deploy, which copy the           *)
(* configuration, have Tekton build it, record the result in the container *)
(* when the configuration is still the same, and deploy the copy.          *)
(*                                                                         *)
(* Transactions are REPEATABLE READ on InnoDB.  An edit first checks the   *)
(* user's permission, which reads the container and so fixes its snapshot; *)
(* then FindByIDForUpdate locks the row of CONTAINERS and reads its latest *)
(* version, but the variables from the snapshot; Save writes the whole     *)
(* aggregate.  UpdateContainerAfterBuild begins with the lock: its         *)
(* snapshot is as late as its row.  A run reads the configuration with one *)
(* SELECT after the other, in no transaction.                              *)
(*                                                                         *)
(* Runs of one project exclude each other (ProjectOps).  A key is a name   *)
(* of a variable; template, Git URL, branch and directory are one source;  *)
(* names, limits, mounts and networks are left out (EditOther).            *)
(***************************************************************************)
EXTENDS Naturals

CONSTANTS
    Sources,         \* what a container can be built from: Git repositories ...
    GitSources,      \* ... and templates without one, such as databases
    SourceChanges,   \* the changes from one source to another that users make
    Installations,   \* GitHub installations
    Keys, Values,
    Unset,           \* a key without a value
    Edits,           \* concurrent edit requests
    MaxCommits,      \* bound on the commits of the repository
    Interferences    \* what concurrent transactions may do to each other, see Interference

ASSUME SourcesAssumption == GitSources \subseteq Sources /\ SourceChanges \subseteq Sources \X Sources
ASSUME UnsetAssumption == Unset \notin Values
ASSUME CommitsAssumption == MaxCommits \in Nat \ {0} /\ Unset \notin 0 .. MaxCommits

\* "torn": edits commit while a run reads the configuration;
\* "stale": an edit saves although another one has changed variables since its snapshot.
Interference == {"torn", "stale"}

ASSUME InterferencesAssumption == Interferences \subseteq SUBSET Interference

VARIABLES
    row,        \* the row of CONTAINERS
    vars,       \* the rows of ENV_VARS, SECRETS and BUILD_VARS
    edits,      \* the edit requests
    run,        \* the run of build-and-deploy
    head,       \* the latest commit of the repository
    registry,   \* the image that each tag names
    interference    \* the interference that this behaviour admits

state == <<row, vars, edits, run, head, registry, interference>>

-----------------------------------------------------------------------------
Kinds == {"env", "secret", "build"}
Variables == [Kinds -> [Keys -> Values \cup {Unset}]]

\* Tags: the commits, and "latest", which is also the tag of a container that was
\* never built.
Latest  == 0
Tags    == 0 .. MaxCommits
NoImage == [source |-> Unset, build |-> Unset]

Row == [source : Sources, install : Installations, needs : BOOLEAN, last : Tags, deleted : BOOLEAN]
Image == [source : Sources, build : [Keys -> Values \cup {Unset}]]

\* What an image of this configuration is made from.
ImageOf(r, vs) == [source |-> r.source, build |-> vs["build"]]

Places == Kinds \cup {"idle", "building", "update", "deploy"}
Results == {"none", "success", "skipped"}
Hashes  == (Tags \ {Latest}) \cup {Unset}

TypeOK ==
    /\ row \in Row /\ vars \in Variables
    /\ edits \in [Edits -> [open : BOOLEAN, seen : Variables]]
    /\ run \in [pc : Places, row : Row, vars : Variables, result : Results, hash : Hashes]
    /\ head \in Tags \ {Latest}
    /\ registry \in [Tags -> Image \cup {NoImage}]
    /\ interference \in Interferences

NoVariables == [t \in Kinds |-> [k \in Keys |-> Unset]]
Closed == [open |-> FALSE, seen |-> NoVariables]

NewContainer(s, i) == [source |-> s, install |-> i, needs |-> TRUE, last |-> Latest, deleted |-> FALSE]

NoRun == [pc |-> "idle", row |-> NewContainer(CHOOSE s \in Sources : TRUE, CHOOSE i \in Installations : TRUE),
          vars |-> NoVariables, result |-> "none", hash |-> Unset]

Init ==
    /\ \E s \in Sources, i \in Installations : row = NewContainer(s, i)
    /\ vars = NoVariables
    /\ edits = [e \in Edits |-> Closed]
    /\ run = NoRun
    /\ head = 1
    /\ registry = [t \in Tags |-> NoImage]
    /\ interference \in Interferences

-----------------------------------------------------------------------------
(* The aggregate Container as it is loaded: c.row and c.vars. *)

MarkNeedsBuild(c) == [c EXCEPT !.row.needs = TRUE]

\* A mutant: only the variables of the same kind are searched.
KeyIsFreeInKind(c, kind, k) == c.vars[kind][k] = Unset

\* The key is not used yet, by no kind of variable.
KeyIsFree(c, kind, k) == \A t \in Kinds : c.vars[t][k] = Unset

HasKey(c, kind, k) == c.vars[kind][k] # Unset

SetKey(c, kind, k, v) == [c EXCEPT !.vars[kind][k] = v]

\* Build variables are baked into the image; the others are not.
Rebuilt(c, kind) == IF kind = "build" THEN MarkNeedsBuild(c) ELSE c

ShouldRebuild(old, new) == old.row.source # new.row.source

-----------------------------------------------------------------------------
(* The edits. *)

\* CanUserModifyContainer, which loads the container: the snapshot of the transaction.
CheckPermission(e) ==
    /\ ~ edits[e].open /\ ~ row.deleted
    /\ edits' = [edits EXCEPT ![e] = [open |-> TRUE, seen |-> vars]]
    /\ UNCHANGED <<interference, row, vars, run, head, registry>>

\* FindByIDForUpdate in an edit: the latest row, the variables of the snapshot.
Loaded(e) == [row |-> row, vars |-> edits[e].seen]

\* Save and commit, unless the interference that this takes is excluded.
Commit(e, c) ==
    /\ edits[e].open /\ ~ row.deleted
    /\ "torn" \in interference \/ run.pc \notin Kinds
    /\ "stale" \in interference \/ edits[e].seen = vars
    /\ row' = c.row /\ vars' = c.vars
    /\ edits' = [edits EXCEPT ![e] = Closed]
    /\ UNCHANGED <<interference, run, head, registry>>

\* The request is refused, the container is gone, or a statement fails: a rollback.
Refuse(e) ==
    /\ edits[e].open
    /\ edits' = [edits EXCEPT ![e] = Closed]
    /\ UNCHANGED <<interference, row, vars, run, head, registry>>

AddVar(e, kind, k, v) ==
    LET c == Loaded(e)
    IN  /\ KeyIsFree(c, kind, k)
        /\ Commit(e, Rebuilt(SetKey(c, kind, k, v), kind))

UpdateVar(e, kind, k, v) ==
    LET c == Loaded(e)
    IN  /\ HasKey(c, kind, k)
        /\ Commit(e, Rebuilt(SetKey(c, kind, k, v), kind))

DeleteVar(e, kind, k) ==
    LET c == Loaded(e)
    IN  /\ HasKey(c, kind, k)
        /\ Commit(e, Rebuilt(SetKey(c, kind, k, Unset), kind))

\* UpdateContainer: a change of the installation alone asks for no build.
UpdateContainer(e, s, i) ==
    LET old == Loaded(e)
        new == [old EXCEPT !.row.source = s, !.row.install = i]
    IN  /\ s = row.source \/ <<row.source, s>> \in SourceChanges
        /\ Commit(e, IF ShouldRebuild(old, new) THEN MarkNeedsBuild(new) ELSE new)

\* An edit of the name, the limits, a mount or a network saves the variables, too.
EditOther(e) == Commit(e, Loaded(e))

DeleteContainer(e) == Commit(e, [Loaded(e) EXCEPT !.row.deleted = TRUE])

Edit(e) ==
    \/ CheckPermission(e)
    \/ Refuse(e)
    \/ \E kind \in Kinds, k \in Keys, v \in Values : AddVar(e, kind, k, v)
    \/ \E kind \in Kinds, k \in Keys, v \in Values : UpdateVar(e, kind, k, v)
    \/ \E kind \in Kinds, k \in Keys : DeleteVar(e, kind, k)
    \/ \E s \in Sources, i \in Installations : UpdateContainer(e, s, i)
    \/ EditOther(e)
    \/ DeleteContainer(e)

-----------------------------------------------------------------------------
(* A run of build-and-deploy. *)

\* ListContainersByProjectID: the row, then its variables, kind by kind.
FetchRow ==
    /\ run.pc = "idle" /\ ~ row.deleted
    /\ run' = [NoRun EXCEPT !.pc = "env", !.row = row]
    /\ UNCHANGED <<interference, row, vars, edits, head, registry>>

After == [env |-> "secret", secret |-> "build", build |-> "building"]

FetchVars ==
    /\ run.pc \in Kinds
    /\ run' = [run EXCEPT !.vars[run.pc] = vars[run.pc], !.pc = After[run.pc]]
    /\ UNCHANGED <<interference, row, vars, edits, head, registry>>

\* What Tekton decides: force_build (needs_build as the run has read it), or a commit
\* that is not the last one built.
ShouldBuild ==
    \/ run.row.needs
    \/ run.row.source \in GitSources /\ head # run.row.last

\* latest_commit_hash, which is empty for a container without a repository.
CommitHash == IF run.row.source \in GitSources THEN head ELSE Unset

\* The image tag that Tekton pushes: the commit or, without one, "latest".
TagOf(hash) == IF hash = Unset THEN Latest ELSE hash

BuildSucceeds ==
    /\ run.pc = "building" /\ ShouldBuild
    /\ registry' = [registry EXCEPT ![TagOf(CommitHash)] = ImageOf(run.row, run.vars)]
    /\ run' = [run EXCEPT !.pc = "update", !.result = "success", !.hash = CommitHash]
    /\ UNCHANGED <<interference, row, vars, edits, head>>

BuildSkipped ==
    /\ run.pc = "building" /\ ~ ShouldBuild
    /\ run' = [run EXCEPT !.pc = "update", !.result = "skipped", !.hash = CommitHash]
    /\ UNCHANGED <<interference, row, vars, edits, head, registry>>

\* The build fails, the container of another build fails, the container is deleted
\* while it is updated, a statement fails, or the server dies: the run ends.
RunAborts ==
    /\ run.pc # "idle"
    /\ run' = NoRun
    /\ UNCHANGED <<interference, row, vars, edits, head, registry>>

\* A mutant: the build variables are not compared.
RowChanged(c) ==
    <<c.row.source, c.row.install>> # <<run.row.source, run.row.install>>

hasBuildParametersChanged(c) ==
    \/ <<c.row.source, c.row.install>> # <<run.row.source, run.row.install>>
    \/ c.vars["build"] # run.vars["build"]

\* A mutant: the container is written back as the run has read it.
CurrentOfRun == [row |-> row, vars |-> run.vars]

\* FindByIDForUpdate as the first statement of a transaction.
Current == [row |-> row, vars |-> vars]

\* A mutant: an empty hash is recorded as it is.
BuiltWithHash(r) ==
    [r EXCEPT !.last = IF run.result = "success" THEN run.hash ELSE @, !.needs = FALSE]

\* SetLastBuiltCommitHash after a success, ClearNeedsBuild in any case.
Built(r) ==
    [r EXCEPT !.last = IF run.result = "success" THEN TagOf(run.hash) ELSE @, !.needs = FALSE]

\* The result is recorded.
UpdateContainerAfterBuild ==
    LET c == Current
    IN  /\ run.pc = "update" /\ ~ row.deleted /\ ~ hasBuildParametersChanged(c)
        /\ row' = Built(c.row) /\ vars' = c.vars
        /\ run' = [run EXCEPT !.pc = "deploy"]
        /\ UNCHANGED <<interference, edits, head, registry>>

\* ErrContainerChangedDuringBuild, or ErrContainerNotFound.
AbortDeployment ==
    /\ run.pc = "update" /\ (row.deleted \/ hasBuildParametersChanged(Current))
    /\ run' = NoRun
    /\ UNCHANGED <<interference, row, vars, edits, head, registry>>

\* A mutant: the tag of the configuration.
TagBeforeBuild == run.row.last

\* The tag that ConvertToDeployConfig takes: a new commit's, or that of the copy.
ImageTag == IF run.result = "success" /\ run.hash # Unset THEN run.hash ELSE run.row.last

\* The copy is deployed with the image that ImageTag names; the run is over.
Deploy ==
    /\ run.pc = "deploy"
    /\ run' = NoRun
    /\ UNCHANGED <<interference, row, vars, edits, head, registry>>

-----------------------------------------------------------------------------
\* Somebody pushes to the repository.
Push ==
    /\ head < MaxCommits
    /\ head' = head + 1
    /\ UNCHANGED <<interference, row, vars, edits, run, registry>>

RunStep ==
    \/ FetchRow \/ FetchVars
    \/ BuildSucceeds \/ BuildSkipped \/ RunAborts
    \/ UpdateContainerAfterBuild \/ AbortDeployment
    \/ Deploy

Next ==
    \/ \E e \in Edits : Edit(e)
    \/ RunStep
    \/ Push

Spec == Init /\ [][Next]_state

-----------------------------------------------------------------------------
(* Properties. *)

\* A container that needs no build has been built from its present configuration:
\* whatever an edit changes, it either asks for a build or is not part of the image,
\* and a result is recorded only for the configuration it belongs to.
ImageCurrent ==
    ~ row.deleted /\ ~ row.needs => registry[row.last] = ImageOf(row, vars)

\* The same as long as no transaction interferes with another one.
ImageCurrentUndisturbed == interference = {} => ImageCurrent

\* A key names an environment variable, a secret or a build variable, never two of
\* them, although concurrent edits check this on snapshots that are out of date.
KeyHasOneKind ==
    \A k \in Keys, s, t \in Kinds : vars[s][k] # Unset /\ vars[t][k] # Unset => s = t

\* Unless transactions interfere, the image that is deployed was built from the
\* configuration it is deployed with.
DeploysItsConfiguration ==
    interference = {} /\ run.pc = "deploy" => registry[ImageTag] = ImageOf(run.row, run.vars)

\* A run takes nothing of the users' edits back, those committed while it was building
\* included: it touches needs_build and the last commit only.
BuildKeepsEdits ==
    [][RunStep => /\ vars' = vars
                  /\ row' = [row EXCEPT !.needs = row'.needs, !.last = row'.last]]_state
=============================================================================
