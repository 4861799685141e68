------------------------------ MODULE Projects ------------------------------
(***************************************************************************)
(* The projects of one account, their member row and their volumes: what   *)
(* CreateProject, UpdateProject, DeleteProject, AddVolume and RemoveVolume *)
(* do to PROJECTS, PROJECT_USER and VOLUMES when their transactions        *)
(* interleave.  MySQL runs them at REPEATABLE READ: a transaction reads    *)
(* the snapshot of its first read, while an UPDATE sees what is committed. *)
(* The operation lock of a project is the subject of ProjectOps.           *)
(***************************************************************************)
EXTENDS Transactions

CONSTANTS
  MaxProjectId,    \* bound: rows of PROJECTS
  Plans,           \* "free" and others: "eco", and "pro", which nothing here tells from it
  WithVolumes,     \* bound: the projects whose volumes are explored
  VolumeNames,
  Disks,           \* disk limits that NewResourceLimits accepts
  FreeDisk,        \* SYSTEM_SETTINGS: the disk of a Free project
  BetaDisk,        \* SYSTEM_SETTINGS: the largest disk of the others
  MaxProjects,     \* SYSTEM_SETTINGS: projects of an account
  MaxFree,         \* SYSTEM_SETTINGS: Free projects of an account
  Capacities,      \* capacities that a request may ask for
  MinCapacity, MaxCapacity,
  Legacy,          \* projects from before plans existed
  LegacyDisk

\* What the constants are.
ASSUME ProjectsAssumption ==
  /\ {"free", "eco"} \subseteq Plans /\ Plans \subseteq {"free", "eco", "pro"} /\ WithVolumes \subseteq 1 .. MaxProjectId
  /\ Disks \subseteq 0 .. W - 1 /\ FreeDisk \in Disks /\ BetaDisk \in Nat /\ LegacyDisk \in Disks
  /\ MaxProjects \in Nat /\ MaxFree \in Nat /\ MaxProjectId \in Nat /\ Legacy \subseteq 1 .. MaxProjectId
  /\ Capacities \subseteq 0 .. W - 1 /\ MinCapacity \in Nat /\ MaxCapacity \in Nat
  /\ Keep \notin Disks /\ Keep \notin Plans

\* Ids are given in the order of the inserts; those of the old projects are the first.
Projects == 1 .. MaxProjectId

VARIABLES
  project,   \* project[p]: the row of PROJECTS, or NoRow
  member,    \* member[p]: the owner's row of PROJECT_USER
  volumes,   \* the rows of VOLUMES
  lock,      \* lock[p]: the request that holds the row of project p
  gap,       \* gap[p]: the request whose DELETE holds p's range of the index of VOLUMES
  req,       \* req[r]: what request r is about to do, or Idle
  cleaned    \* projects for which the clean-up pipeline was triggered

pvars == <<project, member, volumes, lock, gap, req, cleaned>>

Rows == [plan : Plans \cup {"null"}, disk : Disks, deleted : BOOLEAN]
Volumes == [project : Projects, name : VolumeNames, cap : MinCapacity .. MaxCapacity]
Steps ==
       [op : {"create"}, plan : Plans, disk : Disks]
  \cup [op : {"update"}, p : Projects, row : Rows, member : {"none", "active", "removed"}]
  \cup [op : {"volumes", "delete", "cleanup"}, p : Projects]
  \cup [op : {"volume"}, p : Projects, disk : Disks, total : 0 .. W - 1, names : SUBSET VolumeNames,
        name : VolumeNames, cap : 0 .. W - 1]

\* No limit that is accepted wraps with a volume that is (value.MaxDiskLimit, volume.MaxVolumeCapacity).
ASSUME NoWrapAssumption == \A disk \in Disks : disk + MaxCapacity < W

\* NULL is not a row.
ASSUME NoRowAssumption == NoRow \notin Rows

-----------------------------------------------------------------------------
(* What the rows say.                                                      *)

Exists(p) == project[p] # NoRow
Live(p) == Exists(p) /\ ~ project[p].deleted
VolumesOf(p) == {v \in volumes : v.project = p}
TotalOf(vs) == MapThenSumSet(LAMBDA v : v.cap, vs)

\* Both counts go through FindByUserID; every project is "active".
FindByUserID == {p \in Projects : Live(p) /\ member[p] = "active"}
FreeProjects == {p \in FindByUserID : project[p].plan = "free"}
\* A bug that the runs must find: one project too many.
CountTooFew == Cardinality(FindByUserID) <= MaxProjects
ValidateMaxProjectsPerUser == Cardinality(FindByUserID) < MaxProjects
\* A bug that the runs must find: one Free project too many.
FreeCountTooFew == Cardinality(FreeProjects) <= MaxFree
ValidateFreePlanLimit == Cardinality(FreeProjects) < MaxFree

\* A row without a plan counts as Eco.
PlanOf(row) == IF row.plan = "null" THEN "eco" ELSE row.plan
\* A bug that the runs must find: a Free project with any disk.
FreeWithAnyDisk(row) == TRUE
ValidateFreeResources(row) == PlanOf(row) = "free" => row.disk = FreeDisk
ValidateFreeTierLimits(row) == PlanOf(row) # "free" => row.disk <= BetaDisk

GetTotalCapacityByProjectID(p) == TotalOf(VolumesOf(p)) % W
\* A bug that the runs must find: names are not compared.
WithoutNameCheck(step) == FALSE
ExistsByName(step) == step.name \in step.names
WithinDiskLimit(step) == (step.total + step.cap) % W <= step.disk
\* A bug that the runs must find: no largest capacity.
WithoutMaximum(cap) == MinCapacity <= cap
NewVolume(cap) == MinCapacity <= cap /\ cap <= MaxCapacity

\* A bug that the runs must find: the member as it is at the save.
CurrentMember(step) == member[step.p]
\* The member rows that Save compares with come from the transaction's snapshot.
ExistingMember(step) == step.member
\* A bug that the runs must find: FindByID, which takes no lock.
WithoutLock(r, p) == Live(p) /\ UNCHANGED lock
FindByIDForUpdate(r, p) == Live(p) /\ lock[p] = Idle /\ lock' = [lock EXCEPT ![p] = r]

-----------------------------------------------------------------------------
Init ==
  /\ project = [p \in Projects |->
                  IF p \in Legacy THEN [plan |-> "null", disk |-> LegacyDisk, deleted |-> FALSE] ELSE NoRow]
  /\ member = [p \in Projects |-> IF p \in Legacy THEN "active" ELSE "none"]
  /\ volumes = {} /\ cleaned = {}
  /\ lock = [p \in Projects |-> Idle] /\ gap = [p \in Projects |-> Idle]
  /\ req = [r \in Requests |-> Idle]

rows == <<project, member, volumes, cleaned>>

\* Every check of CreateProject reads the same snapshot; a refusal changes nothing.
CreateProject(r) ==
  /\ req[r] = Idle
  /\ \E plan \in Plans, disk \in Disks :
       LET row == [plan |-> plan, disk |-> disk, deleted |-> FALSE] IN
       /\ ValidateMaxProjectsPerUser
       /\ ValidateFreeResources(row) /\ ValidateFreeTierLimits(row)
       /\ plan = "free" => ValidateFreePlanLimit
       /\ req' = [req EXCEPT ![r] = [op |-> "create", plan |-> plan, disk |-> disk]]
  /\ UNCHANGED <<rows, lock, gap>>

\* The row and the owner's row of PROJECT_USER are inserted and committed.
CommitCreate(r) ==
  /\ req[r] # Idle /\ req[r].op = "create"
  /\ \E p \in Projects :
       /\ ~ Exists(p) /\ \A q \in 1 .. p - 1 : Exists(q)
       /\ project' = [project EXCEPT ![p] = [plan |-> req[r].plan, disk |-> req[r].disk, deleted |-> FALSE]]
       /\ member' = [member EXCEPT ![p] = "active"]
  /\ req' = [req EXCEPT ![r] = Idle]
  /\ UNCHANGED <<volumes, lock, gap, cleaned>>

\* A bug that the runs must find: a plan that is left out is written all the same.
KeepLiterally(row, plan) == [row EXCEPT !.plan = plan]
SetPlan(row, plan) == IF plan = Keep THEN row ELSE [row EXCEPT !.plan = plan]
SetResourceLimits(row, disk) == IF disk = Keep THEN row ELSE [row EXCEPT !.disk = disk]
ConvertsToFree(old, new) == PlanOf(new) = "free" /\ PlanOf(old) # "free"

UpdateProject(r) ==
  /\ req[r] = Idle
  /\ \E p \in Projects, plan \in Plans \cup {Keep}, disk \in Disks \cup {Keep} :
       LET new == SetResourceLimits(SetPlan(project[p], plan), disk) IN
       /\ Live(p)
       /\ ValidateFreeResources(new) /\ ValidateFreeTierLimits(new)
       /\ ConvertsToFree(project[p], new) => ValidateFreePlanLimit
       /\ req' = [req EXCEPT ![r] = [op |-> "update", p |-> p, row |-> new, member |-> member[p]]]
  /\ UNCHANGED <<rows, lock, gap>>

\* A bug that the runs must find: no condition on is_deleted.
SaveDeleted(p, row) == [project EXCEPT ![p] = row]
\* UPDATE ... WHERE is_deleted = FALSE writes all columns of the aggregate.
UpdateRow(p, row) ==
  IF Live(p) THEN [project EXCEPT ![p] = row] ELSE project

\* Save: the row, then the difference of the members.
CommitUpdate(r) ==
  /\ req[r] # Idle /\ req[r].op = "update"
  /\ LET p == req[r].p IN
     /\ lock[p] = Idle
     /\ project' = UpdateRow(p, req[r].row)
     /\ member' = IF ExistingMember(req[r]) = "removed" THEN [member EXCEPT ![p] = "active"] ELSE member
  /\ req' = [req EXCEPT ![r] = Idle]
  /\ UNCHANGED <<volumes, lock, gap, cleaned>>

\* The first reads of the deletion, in its transaction.
DeleteProject(r) ==
  /\ req[r] = Idle
  /\ \E p \in Projects : /\ Live(p)
                         /\ req' = [req EXCEPT ![r] = [op |-> "volumes", p |-> p]]
  /\ UNCHANGED <<rows, lock, gap>>

\* A bug that the runs must find: the clean-up is triggered before the commit.
CleanupFirst(r) ==
  /\ req[r] # Idle /\ req[r].op = "volumes"
  /\ gap[req[r].p] = Idle
  /\ gap' = [gap EXCEPT ![req[r].p] = r]
  /\ cleaned' = cleaned \cup {req[r].p}
  /\ req' = [req EXCEPT ![r].op = "delete"]
  /\ UNCHANGED <<project, member, volumes, lock>>

\* DELETE FROM VOLUMES: the rows and the gap between them are locked until the commit,
\* which is when the others see them gone.
DeleteVolumesByProjectID(r) ==
  /\ req[r] # Idle /\ req[r].op = "volumes"
  /\ gap[req[r].p] = Idle
  /\ gap' = [gap EXCEPT ![req[r].p] = r]
  /\ req' = [req EXCEPT ![r].op = "delete"]
  /\ UNCHANGED <<rows, lock>>

\* SoftDelete and Save need the row of the project; the transaction ends with them.
CommitDelete(r) ==
  /\ req[r] # Idle /\ req[r].op = "delete"
  /\ LET p == req[r].p IN
     /\ lock[p] = Idle
     /\ project' = UpdateRow(p, [project[p] EXCEPT !.deleted = TRUE])
     /\ member' = [member EXCEPT ![p] = "removed"]
     /\ volumes' = volumes \ VolumesOf(p)
     /\ gap' = [gap EXCEPT ![p] = Idle]
  /\ req' = [req EXCEPT ![r].op = "cleanup"]
  /\ UNCHANGED <<lock, cleaned>>

\* The pipeline that removes the project's resources; its failure is only logged.
TriggerCleanup(r) ==
  /\ req[r] # Idle /\ req[r].op = "cleanup"
  /\ cleaned' \in {cleaned, cleaned \cup {req[r].p}}
  /\ req' = [req EXCEPT ![r] = Idle]
  /\ UNCHANGED <<project, member, volumes, lock, gap>>

\* SELECT ... FOR UPDATE, then the reads of the names and of the sum.
AddVolume(r) ==
  /\ req[r] = Idle
  /\ \E p \in WithVolumes, name \in VolumeNames, cap \in Capacities :
       /\ FindByIDForUpdate(r, p)
       /\ req' = [req EXCEPT ![r] =
            [op |-> "volume", p |-> p, disk |-> project[p].disk, total |-> GetTotalCapacityByProjectID(p),
             names |-> {v.name : v \in VolumesOf(p)}, name |-> name, cap |-> cap]]
  /\ UNCHANGED <<rows, gap>>

Unlock(r) == lock' = [p \in Projects |-> IF lock[p] = r THEN Idle ELSE lock[p]]

\* The INSERT waits for a deletion that holds the range.
CommitVolume(r) ==
  /\ req[r] # Idle /\ req[r].op = "volume"
  /\ gap[req[r].p] = Idle
  /\ ~ ExistsByName(req[r]) /\ WithinDiskLimit(req[r]) /\ NewVolume(req[r].cap)
  /\ volumes' = volumes \cup {[project |-> req[r].p, name |-> req[r].name, cap |-> req[r].cap]}
  /\ Unlock(r)
  /\ req' = [req EXCEPT ![r] = Idle]
  /\ UNCHANGED <<project, member, gap, cleaned>>

\* FindByID and DELETE of one volume; it holds no lock of the project.
RemoveVolume(r) ==
  /\ req[r] = Idle
  /\ \E v \in volumes : gap[v.project] = Idle /\ volumes' = volumes \ {v}
  /\ UNCHANGED <<project, member, lock, gap, req, cleaned>>

\* A refused check, a failing statement, the victim of a deadlock or a crash: the
\* transaction is rolled back and its locks go.  After the commit only the clean-up is lost.
Rollback(r) ==
  /\ req[r] # Idle
  /\ req' = [req EXCEPT ![r] = Idle]
  /\ Unlock(r)
  /\ gap' = [p \in Projects |-> IF gap[p] = r THEN Idle ELSE gap[p]]
  /\ UNCHANGED rows

RequestStep(r) ==
  \/ CreateProject(r) \/ CommitCreate(r)
  \/ UpdateProject(r) \/ CommitUpdate(r)
  \/ DeleteProject(r) \/ DeleteVolumesByProjectID(r) \/ CommitDelete(r) \/ TriggerCleanup(r)
  \/ AddVolume(r) \/ CommitVolume(r) \/ RemoveVolume(r)
  \/ Rollback(r)

Next == \E r \in Requests : RequestStep(r)

Spec == Init /\ [][Next]_pvars

-----------------------------------------------------------------------------
(* Rows, locks and requests keep their shapes, and a lock or a range is    *)
(* held only by the request that is at the step that holds it.             *)
ProjectsTypeOK ==
  /\ project \in [Projects -> Rows \cup {NoRow}]
  /\ member \in [Projects -> {"none", "active", "removed"}]
  /\ volumes \subseteq Volumes
  /\ lock \in [Projects -> Requests \cup {Idle}] /\ gap \in [Projects -> Requests \cup {Idle}]
  /\ req \in [Requests -> Steps \cup {Idle}]
  /\ cleaned \subseteq Projects

(* The count of projects is read, compared and acted upon without a lock   *)
(* (ValidateMaxProjectsPerUser), so requests that overlap may pass it      *)
(* together.  Even so, the projects and the ones about to be inserted      *)
(* exceed the limit by no more than one for each request beyond the first, *)
(* however long the account goes on creating and deleting.                 *)
Creating == {r \in Requests : req[r] # Idle /\ req[r].op = "create"}
QuotaOvershoot ==
  Cardinality(FindByUserID) + Cardinality(Creating)
    <= Max({Cardinality(Legacy), MaxProjects + Cardinality(Requests) - 1})

(* The same for Free projects (ValidateFreePlanLimit), which conversions   *)
(* reach as well, and updates that save a Free row over one that another   *)
(* update has converted meanwhile: such a project counts once.             *)
CreatingFree == {r \in Creating : req[r].plan = "free"}
SavingFree == {r \in Requests : req[r] # Idle /\ req[r].op = "update" /\ req[r].row.plan = "free"}
BecomingFree == {req[r].p : r \in SavingFree} \cap (FindByUserID \ FreeProjects)
FreeOvershoot ==
  Cardinality(FreeProjects) + Cardinality(CreatingFree) + Cardinality(BecomingFree)
    <= MaxFree + Cardinality(Requests) - 1

(* UpdateProject writes the plan and the limits that it has validated      *)
(* together, whatever was saved in between: a Free project never has other *)
(* resources than the fixed ones.                                          *)
FreeIsFixed ==
  \A p \in Projects : Exists(p) /\ project[p].plan = "free" => project[p].disk = FreeDisk

(* The quotas of an account: the three above.                              *)
QuotasHold == QuotaOvershoot /\ FreeOvershoot /\ FreeIsFixed

(* The volumes of a project grow only up to the disk limit of that moment, *)
(* although the sum is added in 32 bits before the capacity itself is      *)
(* checked, and although an update may lower the limit while the volume is *)
(* being created; and no two of them have one name, for which the schema   *)
(* has no key.  Only the row that CreateVolume holds stands for both.      *)
VolumesFit ==
  [][\A p \in Projects : LET after == {v \in volumes' : v.project = p} IN
       /\ TotalOf(after) > TotalOf(VolumesOf(p)) => TotalOf(after) <= project[p].disk
       /\ \A v, w \in after : v.name = w.name => v = w]_pvars

(* The volumes of a deleted project are gone: one that is being created    *)
(* while the project is deleted does not survive it (DeleteProject,        *)
(* CreateVolume).                                                          *)
NoOrphanVolumes == \A v \in volumes : Live(v.project)

(* An update that started before a deletion and is saved after it gives    *)
(* nobody his membership back (Save, SoftDelete).                          *)
DeletedHasNoMember == \A p \in Projects : Exists(p) => (member[p] = "active" <=> Live(p))

(* Clean-up is triggered for projects that are deleted, never for one      *)
(* whose deletion was rolled back (DeleteProject).                         *)
OnlyDeletedAreCleaned == \A p \in cleaned : Exists(p) /\ project[p].deleted

(* A deletion is whole: the three above.                                  *)
DeletionIsWhole == NoOrphanVolumes /\ DeletedHasNoMember /\ OnlyDeletedAreCleaned

(* A deleted row stays as the deletion has left it: neither an update nor  *)
(* a second deletion under way writes to it (UpdateProject's WHERE).       *)
DeletedIsFrozen ==
  [][\A p \in Projects : Exists(p) /\ project[p].deleted => project'[p] = project[p]]_pvars

=============================================================================
