---------------------------- MODULE ServicesProofs ----------------------------
(***************************************************************************)
(* What requests do to projects, members and volumes, to the networks of   *)
(* containers, and to containers and their mounts, for any number of       *)
(* requests and any bounds.  The three services share no state here: each  *)
(* has its part, and the last part puts them together.                     *)
(***************************************************************************)
EXTENDS MCServices, Sums

-----------------------------------------------------------------------------
(***************************************************************************)
(* What requests of one account do to its projects, members and volumes,   *)
(* for any number of requests and projects and any quotas: deletions are   *)
(* whole and final, Free projects have the fixed resources, volumes of a   *)
(* project have different names and grow only up to the disk limit, and    *)
(* the numbers of projects and of Free projects are bounded.               *)
(***************************************************************************)

-----------------------------------------------------------------------------
(* The inductive invariant. *)

\* The variables are functions on projects and requests; volumes are of projects.
ProjectShape ==
  /\ project \in [Projects -> Rows \cup {NoRow}]
  /\ member \in [Projects -> {"none", "active", "removed"}]
  /\ lock \in [Projects -> Requests \cup {Idle}]
  /\ req = [r \in Requests |-> req[r]]
  /\ cleaned \subseteq Projects /\ \A v \in volumes : v.project \in Projects

\* A row that may be saved: a Free project has the fixed resources.
Fixed(row) == row.plan = "free" => row.disk = FreeDisk

CreateHeld(q) == q.plan \in Plans /\ q.disk \in Disks /\ Fixed(q)
\* The row that an update writes is not deleted, and the member it has read is active.
UpdateHeld(q) ==
  /\ q.p \in Projects /\ Exists(q.p)
  /\ q.row \in Rows /\ ~ q.row.deleted /\ Fixed(q.row) /\ q.member = "active"
DeleteHeld(q) == q \in [op : {"volumes", "delete"}, p : Projects] /\ Exists(q.p)
CleanupHeld(q) == q.p \in Projects /\ Exists(q.p) /\ project[q.p].deleted
\* A volume is created under the lock of a live project, whose names cannot increase.
VolumeHeld(r, q) ==
  /\ q.p \in Projects /\ lock[q.p] = r /\ Live(q.p)
  /\ \A v \in volumes : v.project = q.p => v.name \in q.names

\* What request r holds is still true when it commits.
ProjectHeld(r) ==
  req[r] # Idle =>
    /\ req[r].op = "create" => CreateHeld(req[r])
    /\ req[r].op = "update" => UpdateHeld(req[r])
    /\ req[r].op \in {"volumes", "delete"} => DeleteHeld(req[r])
    /\ req[r].op = "cleanup" => CleanupHeld(req[r])
    /\ req[r].op = "volume" => VolumeHeld(r, req[r])

NamesDiffer ==
  \A v, w \in volumes : v.project = w.project /\ v.name = w.name => v = w

Inv ==
  /\ ProjectShape /\ \A r \in Requests : ProjectHeld(r)
  /\ DeletionIsWhole /\ FreeIsFixed /\ NamesDiffer

-----------------------------------------------------------------------------
\* The old projects are live, have their member, and have no plan.
LEMMA InitInv == Init => Inv
  <1> SUFFICES ASSUME Init PROVE Inv
    OBVIOUS
  <1> DEFINE old == [plan |-> "null", disk |-> LegacyDisk, deleted |-> FALSE]
  <1>b. old \in Rows
    BY ProjectsAssumption DEF Rows
  <1>0. old # NoRow /\ old.plan = "null" /\ ~ old.deleted
    BY <1>b, NoRowAssumption
  <1>a. project = [p \in Projects |-> IF p \in Legacy THEN old ELSE NoRow]
        /\ member = [p \in Projects |-> IF p \in Legacy THEN "active" ELSE "none"]
    BY DEF Init
  <1> HIDE DEF old
  <1>1. \A p \in Projects : Exists(p) => Live(p) /\ member[p] = "active" /\ project[p].plan = "null"
    BY <1>0, <1>a DEF Exists, Live
  <1>2. \A p \in Projects : member[p] = "active" => Exists(p)
    BY <1>0, <1>a DEF Exists
  <1>3. ProjectShape
    BY ProjectsAssumption DEF Init, ProjectShape, Rows
  <1>4. DeletionIsWhole /\ NamesDiffer
    BY <1>1, <1>2 DEF Init, DeletionIsWhole, NoOrphanVolumes, DeletedHasNoMember, OnlyDeletedAreCleaned,
                      NamesDiffer
  <1>5. FreeIsFixed
    BY <1>1 DEF FreeIsFixed
  <1>6. \A r \in Requests : ProjectHeld(r)
    BY DEF Init, ProjectHeld
  <1> QED
    BY <1>3, <1>4, <1>5, <1>6 DEF Inv

\* Rows of projects are left alone: only what a request holds changes.
LEMMA RequestOnly ==
  ASSUME Inv, NEW r \in Requests, UNCHANGED <<project, member, volumes, cleaned>>,
         ProjectShape', \A s \in Requests : ProjectHeld(s)'
  PROVE  Inv'
  BY DEF Inv, DeletionIsWhole, NoOrphanVolumes, DeletedHasNoMember, OnlyDeletedAreCleaned, FreeIsFixed,
         NamesDiffer, Exists, Live

\* What request s holds survives a step of another one: rows stay, locked projects stay
\* live, and no volume is added to a project that s has locked.
LEMMA OthersHold ==
  ASSUME Inv, NEW s \in Requests, req'[s] = req[s],
         \A p \in Projects : /\ Exists(p) => Exists(p)'
                             /\ Exists(p) /\ project[p].deleted => project'[p].deleted
                             /\ lock[p] = s => lock'[p] = s
                             /\ lock[p] = s /\ Live(p) => Live(p)',
         \A v \in volumes' : v \in volumes \/ lock[v.project] # s
  PROVE  ProjectHeld(s)'
  <1>1. CASE req[s] # Idle /\ req[s].op = "volume"
    <2>1. VolumeHeld(s, req[s])
      BY <1>1 DEF Inv, ProjectHeld
    <2>2. VolumeHeld(s, req[s])'
      BY <2>1 DEF VolumeHeld
    <2> QED
      BY <1>1, <2>2 DEF ProjectHeld
  <1>2. CASE req[s] # Idle /\ req[s].op # "volume"
    BY <1>2 DEF Inv, ProjectHeld, CreateHeld, UpdateHeld, DeleteHeld, CleanupHeld, Fixed
  <1>3. CASE req[s] = Idle
    BY <1>3 DEF ProjectHeld
  <1> QED
    BY <1>1, <1>2, <1>3

\* The same for a step that leaves the rows alone.
LEMMA OthersHoldStill ==
  ASSUME Inv, NEW s \in Requests, req'[s] = req[s], UNCHANGED <<project, volumes>>,
         \A p \in Projects : lock[p] = s => lock'[p] = s
  PROVE  ProjectHeld(s)'
  BY OthersHold DEF Exists, Live

-----------------------------------------------------------------------------
\* A project about to be created has the resources of its plan.
LEMMA CreateInv ==
  ASSUME Inv, NEW r \in Requests, CreateProject(r)
  PROVE  Inv'
  <1>1. PICK plan \in Plans, disk \in Disks :
          /\ ValidateFreeResources([plan |-> plan, disk |-> disk, deleted |-> FALSE])
          /\ req' = [req EXCEPT ![r] = [op |-> "create", plan |-> plan, disk |-> disk]]
    BY DEF CreateProject
  <1>2. UNCHANGED <<project, member, volumes, cleaned, lock>>
    BY DEF CreateProject, rows
  <1>3. ProjectShape'
    BY <1>1, <1>2 DEF Inv, ProjectShape
  <1>4. req'[r] = [op |-> "create", plan |-> plan, disk |-> disk]
        /\ \A s \in Requests \ {r} : req'[s] = req[s]
    BY <1>1 DEF Inv, ProjectShape
  <1>5. plan = "free" => disk = FreeDisk
    BY <1>1 DEF ValidateFreeResources, PlanOf
  <1>6. ProjectHeld(r)'
    BY <1>4, <1>5 DEF ProjectHeld, CreateHeld, Fixed
  <1>7. \A s \in Requests : ProjectHeld(s)'
    BY <1>2, <1>4, <1>6, OthersHoldStill
  <1> QED
    BY <1>2, <1>3, <1>7, RequestOnly

\* An update keeps the row live and the plan with its resources.
LEMMA UpdateInv ==
  ASSUME Inv, NEW r \in Requests, UpdateProject(r)
  PROVE  Inv'
  <1>1. PICK p \in Projects, plan \in Plans \cup {Keep}, disk \in Disks \cup {Keep} :
          LET new == SetResourceLimits(SetPlan(project[p], plan), disk) IN
          /\ Live(p) /\ ValidateFreeResources(new)
          /\ req' = [req EXCEPT ![r] = [op |-> "update", p |-> p, row |-> new, member |-> member[p]]]
    BY DEF UpdateProject
  <1> DEFINE new == SetResourceLimits(SetPlan(project[p], plan), disk)
  <1>2. UNCHANGED <<project, member, volumes, cleaned, lock>>
    BY DEF UpdateProject, rows
  <1>3. project[p] \in Rows /\ ~ project[p].deleted /\ member[p] = "active"
    BY <1>1 DEF Inv, ProjectShape, Live, Exists, DeletionIsWhole, DeletedHasNoMember
  <1>4. new \in Rows /\ ~ new.deleted
    BY <1>3 DEF Rows, SetPlan, SetResourceLimits
  <1>5. ValidateFreeResources(new)
    BY <1>1
  <1>6. /\ req'[r] = [op |-> "update", p |-> p, row |-> new, member |-> member[p]]
        /\ \A s \in Requests \ {r} : req'[s] = req[s]
        /\ req' = [s \in Requests |-> req'[s]]
    BY <1>1 DEF Inv, ProjectShape
  <1> HIDE DEF new
  <1>7. Fixed(new)
    BY <1>5 DEF ValidateFreeResources, PlanOf, Fixed
  <1>8. ProjectHeld(r)'
    BY <1>1, <1>2, <1>3, <1>4, <1>6, <1>7 DEF ProjectHeld, UpdateHeld, Live, Exists
  <1>9. \A s \in Requests : ProjectHeld(s)'
    BY <1>2, <1>6, <1>8, OthersHoldStill
  <1>10. ProjectShape'
    BY <1>2, <1>6 DEF Inv, ProjectShape
  <1> QED
    BY <1>2, <1>9, <1>10, RequestOnly

\* A deletion starts with a project that exists.
LEMMA DeleteInv ==
  ASSUME Inv, NEW r \in Requests, DeleteProject(r) \/ DeleteVolumesByProjectID(r)
  PROVE  Inv'
  <1>1. UNCHANGED <<project, member, volumes, cleaned, lock>>
    BY DEF DeleteProject, DeleteVolumesByProjectID, rows
  <1>2. /\ \A s \in Requests \ {r} : req'[s] = req[s]
        /\ req' = [s \in Requests |-> req'[s]]
    BY DEF Inv, ProjectShape, DeleteProject, DeleteVolumesByProjectID
  <1>3. req'[r] \in [op : {"volumes", "delete"}, p : Projects] /\ Exists(req'[r].p)
    <2>1. CASE DeleteProject(r)
      BY <2>1 DEF Inv, ProjectShape, DeleteProject, Live
    <2>2. CASE DeleteVolumesByProjectID(r)
      <3>1. DeleteHeld(req[r])
        BY <2>2 DEF Inv, ProjectHeld, DeleteVolumesByProjectID
      <3>2. req'[r] = [req[r] EXCEPT !.op = "delete"]
        BY <2>2 DEF Inv, ProjectShape, DeleteVolumesByProjectID
      <3>3. req'[r] \in [op : {"volumes", "delete"}, p : Projects] /\ req'[r].p = req[r].p
        BY <3>1, <3>2 DEF DeleteHeld
      <3> QED
        BY <3>1, <3>3 DEF DeleteHeld
    <2> QED
      BY <2>1, <2>2
  <1>4. ProjectHeld(r)'
    BY <1>1, <1>3 DEF ProjectHeld, DeleteHeld, Exists
  <1>5. \A s \in Requests : ProjectHeld(s)'
    BY <1>1, <1>2, <1>4, OthersHoldStill
  <1>6. ProjectShape'
    BY <1>1, <1>2 DEF Inv, ProjectShape
  <1> QED
    BY <1>1, <1>5, <1>6, RequestOnly

\* CreateVolume takes the lock of a live project and reads all its names.
LEMMA AddVolumeInv ==
  ASSUME Inv, NEW r \in Requests, AddVolume(r)
  PROVE  Inv'
  <1>1. PICK p \in WithVolumes, name \in VolumeNames, cap \in Capacities :
          /\ FindByIDForUpdate(r, p)
          /\ req' = [req EXCEPT ![r] =
               [op |-> "volume", p |-> p, disk |-> project[p].disk, total |-> GetTotalCapacityByProjectID(p),
                names |-> {v.name : v \in VolumesOf(p)}, name |-> name, cap |-> cap]]
    BY DEF AddVolume
  <1> DEFINE q == [op |-> "volume", p |-> p, disk |-> project[p].disk, total |-> GetTotalCapacityByProjectID(p),
                   names |-> {v.name : v \in VolumesOf(p)}, name |-> name, cap |-> cap]
  <1>a. p \in Projects /\ Live(p) /\ lock[p] = Idle /\ lock' = [lock EXCEPT ![p] = r]
    BY <1>1, ProjectsAssumption DEF FindByIDForUpdate, Projects
  <1>b. q.op = "volume" /\ q.p = p /\ q.names = {v.name : v \in VolumesOf(p)}
    OBVIOUS
  <1>c. req' = [req EXCEPT ![r] = q]
    BY <1>1
  <1> HIDE DEF q
  <1>2. UNCHANGED <<project, member, volumes, cleaned>>
    BY DEF AddVolume, rows
  <1>3. /\ req'[r] = q /\ \A s \in Requests \ {r} : req'[s] = req[s]
        /\ req' = [s \in Requests |-> req'[s]]
    BY <1>c DEF Inv, ProjectShape
  <1>4. /\ lock' \in [Projects -> Requests \cup {Idle}] /\ lock'[p] = r
        /\ \A s \in Requests, x \in Projects : lock[x] = s => lock'[x] = s
    BY <1>a, TransactionsAssumption DEF Inv, ProjectShape
  <1>5. \A v \in volumes : v.project = p => v.name \in q.names
    BY <1>b DEF VolumesOf
  <1>6. ProjectHeld(r)'
    BY <1>a, <1>b, <1>2, <1>3, <1>4, <1>5 DEF ProjectHeld, VolumeHeld, Live, Exists
  <1>7. \A s \in Requests : ProjectHeld(s)'
    BY <1>2, <1>3, <1>4, <1>6, OthersHoldStill
  <1>8. ProjectShape'
    BY <1>2, <1>3, <1>4 DEF Inv, ProjectShape
  <1> QED
    BY <1>2, <1>7, <1>8, RequestOnly

\* A rollback gives up what only this request holds.
LEMMA RollbackInv ==
  ASSUME Inv, NEW r \in Requests, Rollback(r)
  PROVE  Inv'
  <1>1. UNCHANGED <<project, member, volumes, cleaned>>
    BY DEF Rollback, rows
  <1>2. /\ req'[r] = Idle /\ \A s \in Requests \ {r} : req'[s] = req[s]
        /\ req' = [s \in Requests |-> req'[s]]
    BY DEF Inv, ProjectShape, Rollback
  <1>3. /\ lock' \in [Projects -> Requests \cup {Idle}]
        /\ \A s \in Requests \ {r}, x \in Projects : lock[x] = s => lock'[x] = s
    BY DEF Inv, ProjectShape, Rollback, Unlock
  <1>4. \A s \in Requests : ProjectHeld(s)'
    <2>1. ProjectHeld(r)'
      BY <1>2 DEF ProjectHeld
    <2> QED
      BY <1>1, <1>2, <1>3, <2>1, OthersHoldStill
  <1>5. ProjectShape'
    BY <1>1, <1>2, <1>3 DEF Inv, ProjectShape
  <1> QED
    BY <1>1, <1>4, <1>5, RequestOnly

-----------------------------------------------------------------------------
\* The new project has an owner, and no volumes.
LEMMA CommitCreateInv ==
  ASSUME Inv, NEW r \in Requests, CommitCreate(r)
  PROVE  Inv'
  <1>1. PICK p \in Projects :
          /\ ~ Exists(p)
          /\ project' = [project EXCEPT ![p] =
               [plan |-> req[r].plan, disk |-> req[r].disk, deleted |-> FALSE]]
          /\ member' = [member EXCEPT ![p] = "active"]
    BY DEF CommitCreate
  <1> DEFINE new == [plan |-> req[r].plan, disk |-> req[r].disk, deleted |-> FALSE]
  <1>2. CreateHeld(req[r])
    BY DEF Inv, ProjectHeld, CommitCreate
  <1>3. new \in Rows /\ Fixed(new) /\ ~ new.deleted
    BY <1>2 DEF CreateHeld, Fixed, Rows
  <1>4. new # NoRow
    BY <1>3, NoRowAssumption
  <1>5. /\ project' = [project EXCEPT ![p] = new]
        /\ UNCHANGED <<volumes, lock, cleaned>>
        /\ req' = [req EXCEPT ![r] = Idle]
    BY <1>1 DEF CommitCreate
  <1> HIDE DEF new
  <1>6. /\ project'[p] = new /\ member'[p] = "active"
        /\ \A x \in Projects \ {p} : project'[x] = project[x] /\ member'[x] = member[x]
    BY <1>1, <1>5 DEF Inv, ProjectShape
  <1>7. req'[r] = Idle /\ \A s \in Requests \ {r} : req'[s] = req[s]
    BY <1>5 DEF Inv, ProjectShape
  <1>8. ProjectShape'
    BY <1>1, <1>3, <1>5 DEF Inv, ProjectShape
  <1>9. \A s \in Requests : ProjectHeld(s)'
    <2>1. ProjectHeld(r)'
      BY <1>7 DEF ProjectHeld
    <2>2. \A x \in Projects : /\ Exists(x) => Exists(x)' /\ project'[x] = project[x]
                              /\ Live(x) => Live(x)'
      BY <1>1, <1>3, <1>4, <1>6 DEF Exists, Live
    <2> QED
      BY <1>5, <1>7, <2>1, <2>2, OthersHold
  <1>10. \A v \in volumes : v.project # p
    BY <1>1 DEF Inv, DeletionIsWhole, NoOrphanVolumes, Live
  <1>11. NoOrphanVolumes' /\ NamesDiffer'
    BY <1>5, <1>6, <1>10 DEF Inv, ProjectShape, DeletionIsWhole, NoOrphanVolumes, NamesDiffer, Live, Exists
  <1>12. DeletedHasNoMember' /\ FreeIsFixed'
    BY <1>3, <1>4, <1>6 DEF Inv, DeletionIsWhole, DeletedHasNoMember, FreeIsFixed, Fixed, Live, Exists
  <1>13. OnlyDeletedAreCleaned'
    BY <1>1, <1>5, <1>6, ProjectsAssumption DEF Inv, ProjectShape, DeletionIsWhole, OnlyDeletedAreCleaned, Exists
  <1> QED
    BY <1>8, <1>9, <1>11, <1>12, <1>13 DEF Inv, DeletionIsWhole

\* A stale update is saved only while its project is live, and changes no member.
LEMMA CommitUpdateInv ==
  ASSUME Inv, NEW r \in Requests, CommitUpdate(r)
  PROVE  Inv'
  <1> DEFINE p == req[r].p
             new == req[r].row
  <1>1. UpdateHeld(req[r])
    BY DEF Inv, ProjectHeld, CommitUpdate
  <1>2. /\ lock[p] = Idle /\ project' = UpdateRow(p, new)
        /\ UNCHANGED <<member, volumes, lock, cleaned>>
        /\ req' = [req EXCEPT ![r] = Idle]
    BY <1>1 DEF CommitUpdate, ExistingMember, UpdateHeld
  <1>3. p \in Projects /\ new \in Rows /\ ~ new.deleted /\ Fixed(new) /\ new # NoRow
    BY <1>1, NoRowAssumption DEF UpdateHeld
  <1> HIDE DEF p, new
  <1>4. /\ \A x \in Projects : project'[x] = project[x] \/ (x = p /\ Live(x) /\ project'[x] = new)
        /\ project' \in [Projects -> Rows \cup {NoRow}]
    BY <1>2, <1>3 DEF UpdateRow, Inv, ProjectShape
  <1>5. \A x \in Projects : (Live(x) <=> Live(x)') /\ (Exists(x) <=> Exists(x)')
    BY <1>3, <1>4 DEF Live, Exists
  <1>6. req'[r] = Idle /\ \A s \in Requests \ {r} : req'[s] = req[s]
    BY <1>2 DEF Inv, ProjectShape
  <1>7. ProjectShape'
    BY <1>2, <1>4 DEF Inv, ProjectShape
  <1>8. \A s \in Requests : ProjectHeld(s)'
    <2>1. ProjectHeld(r)'
      BY <1>6 DEF ProjectHeld
    <2>2. \A x \in Projects : Exists(x) /\ project[x].deleted => project'[x].deleted
      BY <1>4 DEF Live
    <2> QED
      BY <1>2, <1>5, <1>6, <2>1, <2>2, OthersHold
  <1>9. NoOrphanVolumes' /\ NamesDiffer'
    BY <1>2, <1>5 DEF Inv, ProjectShape, DeletionIsWhole, NoOrphanVolumes, NamesDiffer
  <1>10. DeletedHasNoMember'
    BY <1>2, <1>5 DEF Inv, DeletionIsWhole, DeletedHasNoMember
  <1>11. FreeIsFixed'
    BY <1>3, <1>4 DEF Inv, FreeIsFixed, Fixed, Exists
  <1>12. OnlyDeletedAreCleaned'
    BY <1>2, <1>4, <1>5 DEF Inv, ProjectShape, DeletionIsWhole, OnlyDeletedAreCleaned, Live
  <1> QED
    BY <1>7, <1>8, <1>9, <1>10, <1>11, <1>12 DEF Inv, DeletionIsWhole

\* The row is marked, the members are removed and the volumes are gone, all at once.
LEMMA CommitDeleteInv ==
  ASSUME Inv, NEW r \in Requests, CommitDelete(r)
  PROVE  Inv'
  <1> DEFINE p == req[r].p
             new == [project[p] EXCEPT !.deleted = TRUE]
  <1>0. req[r] \in [op : {"volumes", "delete"}, p : Projects] /\ Exists(p)
    BY DEF Inv, ProjectHeld, CommitDelete, DeleteHeld
  <1>1. p \in Projects /\ Exists(p) /\ project[p] \in Rows
    BY <1>0 DEF Inv, ProjectShape, Exists
  <1>2. /\ lock[p] = Idle /\ project' = UpdateRow(p, new)
        /\ member' = [member EXCEPT ![p] = "removed"]
        /\ volumes' = volumes \ VolumesOf(p)
        /\ UNCHANGED <<lock, cleaned>>
        /\ req' = [req EXCEPT ![r].op = "cleanup"]
    BY DEF CommitDelete
  <1>3. new \in Rows /\ new.deleted /\ new.plan = project[p].plan /\ new.disk = project[p].disk
    BY <1>1 DEF Rows
  <1>4. new # NoRow
    BY <1>3, NoRowAssumption
  <1>5. req'[r].p = p /\ req'[r].op = "cleanup" /\ req' = [s \in Requests |-> req'[s]]
        /\ \A s \in Requests \ {r} : req'[s] = req[s]
    <2>1. req'[r] = [req[r] EXCEPT !.op = "cleanup"] /\ req' = [s \in Requests |-> req'[s]]
          /\ \A s \in Requests \ {r} : req'[s] = req[s]
      BY <1>2 DEF Inv, ProjectShape
    <2> QED
      BY <1>0, <2>1
  <1> HIDE DEF p, new
  <1>a. /\ \A x \in Projects : project'[x] = project[x] \/ (x = p /\ Live(x) /\ project'[x] = new)
        /\ project' \in [Projects -> Rows \cup {NoRow}]
    BY <1>1, <1>2, <1>3 DEF UpdateRow, Inv, ProjectShape
  <1>b. project'[p] = IF Live(p) THEN new ELSE project[p]
    BY <1>1, <1>2 DEF UpdateRow, Inv, ProjectShape
  <1>c. project'[p] # NoRow /\ project'[p].deleted
    <2>1. CASE Live(p)
      BY <1>3, <1>4, <1>b, <2>1 DEF Exists
    <2>2. CASE ~ Live(p)
      <3>1. project[p].deleted
        BY <1>1, <2>2 DEF Live
      <3> QED
        BY <1>1, <1>b, <2>2, <3>1 DEF Exists
    <2> QED
      BY <2>1, <2>2
  <1>d. \A x \in Projects : (Exists(x) <=> Exists(x)')
    BY <1>4, <1>a DEF Live, Exists
  <1>6. /\ \A x \in Projects : project'[x] = project[x] \/ (x = p /\ Live(x) /\ project'[x] = new)
        /\ project' \in [Projects -> Rows \cup {NoRow}]
        /\ project'[p] # NoRow /\ project'[p].deleted
        /\ \A x \in Projects : (Exists(x) <=> Exists(x)')
    BY <1>a, <1>c, <1>d
  <1>7. /\ member' \in [Projects -> {"none", "active", "removed"}]
        /\ member'[p] = "removed" /\ \A x \in Projects \ {p} : member'[x] = member[x]
    BY <1>1, <1>2 DEF Inv, ProjectShape
  <1>8. \A x \in Projects : x # p => (Live(x) <=> Live(x)')
    BY <1>6 DEF Live, Exists
  <1>9. ProjectShape'
    BY <1>2, <1>5, <1>6, <1>7 DEF Inv, ProjectShape
  <1>10. \A s \in Requests : ProjectHeld(s)'
    <2>1. ProjectHeld(r)'
      BY <1>1, <1>5, <1>6 DEF ProjectHeld, CleanupHeld
    <2>2. \A s \in Requests, x \in Projects : lock[x] = s => x # p
      BY <1>2, TransactionsAssumption
    <2>3. \A x \in Projects : Exists(x) /\ project[x].deleted => project'[x].deleted
      BY <1>6 DEF Live
    <2> QED
      BY <1>2, <1>5, <1>6, <1>8, <2>1, <2>2, <2>3, OthersHold
  <1>11. NoOrphanVolumes' /\ NamesDiffer'
    BY <1>2, <1>8 DEF Inv, ProjectShape, DeletionIsWhole, NoOrphanVolumes, NamesDiffer, VolumesOf
  <1>12. DeletedHasNoMember'
    BY <1>6, <1>7, <1>8 DEF Inv, DeletionIsWhole, DeletedHasNoMember, Live
  <1>13. FreeIsFixed'
    BY <1>1, <1>3, <1>6 DEF Inv, FreeIsFixed, Exists
  <1>14. OnlyDeletedAreCleaned'
    BY <1>2, <1>6 DEF Inv, ProjectShape, DeletionIsWhole, OnlyDeletedAreCleaned, Live
  <1> QED
    BY <1>9, <1>10, <1>11, <1>12, <1>13, <1>14 DEF Inv, DeletionIsWhole

\* Only what has been deleted is cleaned up.
LEMMA TriggerCleanupInv ==
  ASSUME Inv, NEW r \in Requests, TriggerCleanup(r)
  PROVE  Inv'
  <1>1. CleanupHeld(req[r])
    BY DEF Inv, ProjectHeld, TriggerCleanup
  <1>2. /\ UNCHANGED <<project, member, volumes, lock>> /\ req'[r] = Idle
        /\ \A s \in Requests \ {r} : req'[s] = req[s]
    BY DEF Inv, ProjectShape, TriggerCleanup
  <1>3. \A x \in cleaned' : x \in cleaned \/ x = req[r].p
    BY DEF TriggerCleanup
  <1>4. ProjectShape'
    BY <1>1 DEF Inv, ProjectShape, TriggerCleanup, CleanupHeld
  <1>5. \A s \in Requests : ProjectHeld(s)'
    <2>1. ProjectHeld(r)'
      BY <1>2 DEF ProjectHeld
    <2> QED
      BY <1>2, <2>1, OthersHoldStill
  <1>6. DeletionIsWhole'
    BY <1>1, <1>2, <1>3 DEF Inv, DeletionIsWhole, NoOrphanVolumes, DeletedHasNoMember,
                            OnlyDeletedAreCleaned, CleanupHeld, Exists, Live
  <1> QED
    BY <1>2, <1>4, <1>5, <1>6 DEF Inv, FreeIsFixed, NamesDiffer, Exists

\* The volume has a new name in a project that is live and locked.
LEMMA CommitVolumeInv ==
  ASSUME Inv, NEW r \in Requests, CommitVolume(r)
  PROVE  Inv'
  <1> DEFINE p == req[r].p
             new == [project |-> p, name |-> req[r].name, cap |-> req[r].cap]
  <1>1. VolumeHeld(r, req[r]) /\ req[r].name \notin req[r].names
    BY DEF Inv, ProjectHeld, CommitVolume, ExistsByName
  <1>2. /\ volumes' = volumes \cup {new} /\ new.project = p /\ new.name = req[r].name
        /\ UNCHANGED <<project, member, cleaned>>
        /\ req' = [req EXCEPT ![r] = Idle]
    BY DEF CommitVolume
  <1>3. /\ lock' \in [Projects -> Requests \cup {Idle}]
        /\ \A s \in Requests \ {r}, x \in Projects : lock[x] = s => lock'[x] = s
    BY DEF Inv, ProjectShape, CommitVolume, Unlock
  <1>4. /\ p \in Projects /\ lock[p] = r /\ Live(p)
        /\ \A v \in volumes : v.project = p => v.name # new.name
    BY <1>1, <1>2 DEF VolumeHeld
  <1> HIDE DEF p, new
  <1>5. req'[r] = Idle /\ \A s \in Requests \ {r} : req'[s] = req[s]
    BY <1>2 DEF Inv, ProjectShape
  <1>6. ProjectShape'
    BY <1>2, <1>3, <1>4 DEF Inv, ProjectShape
  <1>7. \A s \in Requests : ProjectHeld(s)'
    <2>1. ProjectHeld(r)'
      BY <1>5 DEF ProjectHeld
    <2>2. \A s \in Requests \ {r} : \A v \in volumes' : v \in volumes \/ lock[v.project] # s
      BY <1>2, <1>4
    <2> QED
      BY <1>2, <1>3, <1>5, <2>1, <2>2, OthersHold DEF Exists, Live
  <1>8. NoOrphanVolumes' /\ NamesDiffer'
    BY <1>2, <1>4 DEF Inv, DeletionIsWhole, NoOrphanVolumes, NamesDiffer, Live, Exists
  <1>9. DeletedHasNoMember' /\ OnlyDeletedAreCleaned' /\ FreeIsFixed'
    BY <1>2 DEF Inv, DeletionIsWhole, DeletedHasNoMember, OnlyDeletedAreCleaned, FreeIsFixed, Live, Exists
  <1> QED
    BY <1>6, <1>7, <1>8, <1>9 DEF Inv, DeletionIsWhole

\* A volume less disturbs nothing.
LEMMA RemoveVolumeInv ==
  ASSUME Inv, NEW r \in Requests, RemoveVolume(r)
  PROVE  Inv'
  <1>1. volumes' \subseteq volumes /\ UNCHANGED <<project, member, lock, req, cleaned>>
    BY DEF RemoveVolume
  <1>2. ProjectShape' /\ FreeIsFixed' /\ NamesDiffer'
    BY <1>1 DEF Inv, ProjectShape, FreeIsFixed, NamesDiffer, Exists
  <1>3. \A s \in Requests : ProjectHeld(s)'
    BY <1>1, OthersHold DEF Exists, Live
  <1>4. DeletionIsWhole'
    BY <1>1 DEF Inv, DeletionIsWhole, NoOrphanVolumes, DeletedHasNoMember, OnlyDeletedAreCleaned, Live, Exists
  <1> QED
    BY <1>2, <1>3, <1>4 DEF Inv

-----------------------------------------------------------------------------
(* The theorems. *)

LEMMA StepInv == Inv /\ [Next]_pvars => Inv'
  <1> SUFFICES ASSUME Inv, [Next]_pvars PROVE Inv'
    OBVIOUS
  <1>1. ASSUME NEW r \in Requests, RequestStep(r) PROVE Inv'
    <2>1. CASE CreateProject(r)
      BY <2>1, CreateInv
    <2>2. CASE CommitCreate(r)
      BY <2>2, CommitCreateInv
    <2>3. CASE UpdateProject(r)
      BY <2>3, UpdateInv
    <2>4. CASE CommitUpdate(r)
      BY <2>4, CommitUpdateInv
    <2>5. CASE DeleteProject(r) \/ DeleteVolumesByProjectID(r)
      BY <2>5, DeleteInv
    <2>6. CASE CommitDelete(r)
      BY <2>6, CommitDeleteInv
    <2>7. CASE TriggerCleanup(r)
      BY <2>7, TriggerCleanupInv
    <2>8. CASE AddVolume(r)
      BY <2>8, AddVolumeInv
    <2>9. CASE CommitVolume(r)
      BY <2>9, CommitVolumeInv
    <2>10. CASE RemoveVolume(r)
      BY <2>10, RemoveVolumeInv
    <2>11. CASE Rollback(r)
      BY <2>11, RollbackInv
    <2> QED
      BY <1>1, <2>1, <2>2, <2>3, <2>4, <2>5, <2>6, <2>7, <2>8, <2>9, <2>10, <2>11 DEF RequestStep
  <1>2. CASE UNCHANGED pvars
    <2>1. \A s \in Requests : ProjectHeld(s)'
      BY <1>2, OthersHold DEF pvars, Exists, Live
    <2>2. ProjectShape'
      BY <1>2 DEF Inv, ProjectShape, pvars
    <2> QED
      BY <1>2, <2>1, <2>2 DEF Inv, DeletionIsWhole, NoOrphanVolumes, DeletedHasNoMember,
                OnlyDeletedAreCleaned, FreeIsFixed, NamesDiffer, Exists, Live, pvars
  <1> QED
    BY <1>1, <1>2 DEF Next

\* The volumes and members of a deleted project are gone, and only deleted projects
\* are cleaned up, however requests of the account overlap (DeleteProject).
THEOREM DeletionIsWholeHolds == Spec => []DeletionIsWhole
  <1>1. Inv => DeletionIsWhole
    BY DEF Inv
  <1> QED
    BY InitInv, StepInv, <1>1, PTL DEF Spec

\* A Free project has the fixed resources, whatever stale rows are saved (UpdateProject).
THEOREM FreeIsFixedHolds == Spec => []FreeIsFixed
  <1>1. Inv => FreeIsFixed
    BY DEF Inv
  <1> QED
    BY InitInv, StepInv, <1>1, PTL DEF Spec

\* Two volumes of a project never have one name, although the schema has no key for it
\* (CreateVolume).
THEOREM NamesDifferHolds == Spec => []NamesDiffer
  <1>1. Inv => NamesDiffer
    BY DEF Inv
  <1> QED
    BY InitInv, StepInv, <1>1, PTL DEF Spec

\* A deleted row is written by nobody (UPDATE ... WHERE is_deleted = FALSE).
THEOREM DeletedIsFrozenHolds == Spec => DeletedIsFrozen
  <1> DEFINE Frozen == \A p \in Projects : Exists(p) /\ project[p].deleted => project'[p] = project[p]
  <1>1. Inv /\ [Next]_pvars => Frozen
    <2> SUFFICES ASSUME Inv, [Next]_pvars, NEW p \in Projects, Exists(p), project[p].deleted
                 PROVE  project'[p] = project[p]
      OBVIOUS
    <2>1. ASSUME NEW r \in Requests, CommitCreate(r) PROVE project'[p] = project[p]
      BY <2>1 DEF CommitCreate, Inv, ProjectShape
    <2>2. ASSUME NEW q, NEW row, project' = UpdateRow(q, row) PROVE project'[p] = project[p]
      BY <2>2 DEF UpdateRow, Live, Inv, ProjectShape
    <2>3. ASSUME NEW r \in Requests, CommitUpdate(r) \/ CommitDelete(r) PROVE project'[p] = project[p]
      BY <2>2, <2>3 DEF CommitUpdate, CommitDelete
    <2> QED
      BY <2>1, <2>3 DEF Next, RequestStep, CreateProject, UpdateProject, DeleteProject,
           DeleteVolumesByProjectID, TriggerCleanup, AddVolume, CommitVolume, RemoveVolume, Rollback,
           rows, pvars
  <1> QED
    BY InitInv, StepInv, <1>1, PTL DEF Spec, DeletedIsFrozen

-----------------------------------------------------------------------------
(* The number of projects. *)

Bound == Max({Cardinality(Legacy), MaxProjects + Cardinality(Requests) - 1})

\* The larger of two numbers.
LEMMA MaxOfTwo ==
  ASSUME NEW a \in Int, NEW b \in Int
  PROVE  Max({a, b}) \in Int /\ Max({a, b}) >= a /\ Max({a, b}) >= b
  <1>1. \E x \in {a, b} : \A y \in {a, b} : x >= y
    <2>1. CASE a >= b
      BY <2>1
    <2>2. CASE b >= a
      BY <2>2
    <2> QED
      BY <2>1, <2>2
  <1>2. Max({a, b}) \in {a, b} /\ \A y \in {a, b} : Max({a, b}) >= y
    BY <1>1 DEF Max
  <1> QED
    BY <1>2

\* The sets that are counted are finite.
LEMMA Finite ==
  /\ IsFiniteSet(Projects) /\ IsFiniteSet(Requests) /\ IsFiniteSet(Legacy)
  /\ IsFiniteSet(FindByUserID) /\ IsFiniteSet(FindByUserID')
  /\ IsFiniteSet(Creating) /\ IsFiniteSet(Creating')
  /\ Cardinality(Legacy) \in Nat /\ Cardinality(Requests) \in Nat
  /\ Cardinality(FindByUserID) \in Nat /\ Cardinality(FindByUserID') \in Nat
  /\ Cardinality(Creating) \in Nat /\ Cardinality(Creating') \in Nat
  <1>1. IsFiniteSet(Projects) /\ IsFiniteSet(Requests)
    BY FS_Interval, ProjectsAssumption, TransactionsAssumption DEF Projects
  <1>2. /\ Legacy \in SUBSET Projects /\ FindByUserID \in SUBSET Projects
        /\ FindByUserID' \in SUBSET Projects
        /\ Creating \in SUBSET Requests /\ Creating' \in SUBSET Requests
    BY ProjectsAssumption DEF Projects, FindByUserID, Creating
  <1>3. /\ IsFiniteSet(Legacy) /\ IsFiniteSet(FindByUserID) /\ IsFiniteSet(FindByUserID')
        /\ IsFiniteSet(Creating) /\ IsFiniteSet(Creating')
    BY <1>1, <1>2, FS_Subset
  <1> QED
    BY <1>1, <1>3, FS_CardinalityType

LEMMA BoundFacts ==
  /\ Bound \in Int /\ Bound >= Cardinality(Legacy)
  /\ Bound >= MaxProjects + Cardinality(Requests) - 1
  <1>1. Cardinality(Legacy) \in Int /\ MaxProjects + Cardinality(Requests) - 1 \in Int
    BY Finite, ProjectsAssumption
  <1> QED
    BY <1>1, MaxOfTwo DEF Bound

\* Fewer projects and fewer creations keep the bound.
LEMMA Fewer ==
  ASSUME QuotaOvershoot, FindByUserID' \subseteq FindByUserID, Creating' \subseteq Creating
  PROVE  QuotaOvershoot'
  <1>1. /\ Cardinality(FindByUserID') <= Cardinality(FindByUserID)
        /\ Cardinality(Creating') <= Cardinality(Creating)
    BY Finite, FS_Subset
  <1> QED
    BY <1>1, Finite, BoundFacts DEF QuotaOvershoot, Bound

\* A creation that passes the check finds fewer projects than the limit.
LEMMA CreateBounded ==
  ASSUME Inv, NEW r \in Requests, CreateProject(r)
  PROVE  QuotaOvershoot'
  <1>1. Cardinality(FindByUserID) < MaxProjects /\ FindByUserID' = FindByUserID
    BY DEF CreateProject, ValidateMaxProjectsPerUser, rows, FindByUserID, Live, Exists
  <1>2. Cardinality(Creating') <= Cardinality(Requests)
    BY Finite, FS_Subset DEF Creating
  <1> QED
    BY <1>1, <1>2, Finite, BoundFacts, ProjectsAssumption DEF QuotaOvershoot, Bound

\* A creation that commits was counted as one under way.
LEMMA CommitCreateBounded ==
  ASSUME Inv, QuotaOvershoot, NEW r \in Requests, CommitCreate(r)
  PROVE  QuotaOvershoot'
  <1>1. PICK p \in Projects : /\ \A x \in Projects \ {p} : project'[x] = project[x]
                              /\ \A x \in Projects \ {p} : member'[x] = member[x]
    BY DEF CommitCreate, Inv, ProjectShape
  <1>2. FindByUserID' \in SUBSET (FindByUserID \cup {p})
    BY <1>1 DEF FindByUserID, Live, Exists
  <1>3. Cardinality(FindByUserID') <= Cardinality(FindByUserID) + 1
    <2>1. /\ IsFiniteSet(FindByUserID \cup {p})
          /\ Cardinality(FindByUserID \cup {p}) =
               IF p \in FindByUserID THEN Cardinality(FindByUserID) ELSE Cardinality(FindByUserID) + 1
      BY Finite, FS_AddElement
    <2>2. Cardinality(FindByUserID') <= Cardinality(FindByUserID \cup {p})
      BY <1>2, <2>1, FS_Subset
    <2> QED
      BY <2>1, <2>2, Finite
  <1>4. r \in Creating /\ Creating' = Creating \ {r}
    BY DEF CommitCreate, Creating, Inv, ProjectShape
  <1>5. Cardinality(Creating') = Cardinality(Creating) - 1
    BY <1>4, Finite, FS_RemoveElement
  <1> QED
    BY <1>3, <1>5, Finite, BoundFacts DEF QuotaOvershoot, Bound

\* The steps that neither create nor save a project leave the rows, and of the requests
\* they change their own, which is then no creation and no update.
QuietRequest(r) ==
  \/ DeleteProject(r) \/ DeleteVolumesByProjectID(r) \/ TriggerCleanup(r)
  \/ AddVolume(r) \/ CommitVolume(r) \/ RemoveVolume(r) \/ Rollback(r)

LEMMA QuietSteps ==
  ASSUME Inv, NEW r \in Requests, QuietRequest(r)
  PROVE  /\ UNCHANGED <<project, member>>
         /\ \A s \in Requests \ {r} : req'[s] = req[s]
         /\ req'[r] = Idle \/ req'[r] = req[r] \/ req'[r].op \notin {"create", "update"}
  <1>1. UNCHANGED <<project, member>>
    BY DEF QuietRequest, DeleteProject, DeleteVolumesByProjectID, TriggerCleanup, AddVolume,
           CommitVolume, RemoveVolume, Rollback, rows
  <1>2. /\ \A s \in Requests \ {r} : req'[s] = req[s]
        /\ req'[r] = Idle \/ req'[r] = req[r] \/ req'[r].op \notin {"create", "update"}
    <2>1. CASE DeleteProject(r) \/ TriggerCleanup(r) \/ CommitVolume(r) \/ RemoveVolume(r) \/ Rollback(r)
      BY <2>1 DEF DeleteProject, TriggerCleanup, CommitVolume, RemoveVolume, Rollback, Inv, ProjectShape
    <2>2. CASE AddVolume(r)
      BY <2>2 DEF AddVolume, Inv, ProjectShape
    <2>3. CASE DeleteVolumesByProjectID(r)
      <3>1. req[r] \in [op : {"volumes", "delete"}, p : Projects]
        BY <2>3 DEF DeleteVolumesByProjectID, Inv, ProjectHeld, DeleteHeld
      <3>2. req'[r] = [req[r] EXCEPT !.op = "delete"] /\ \A s \in Requests \ {r} : req'[s] = req[s]
        BY <2>3 DEF DeleteVolumesByProjectID, Inv, ProjectShape
      <3>3. req'[r].op = "delete"
        BY <3>1, <3>2
      <3> QED
        BY <3>2, <3>3
    <2> QED
      BY <2>1, <2>2, <2>3 DEF QuietRequest
  <1> QED
    BY <1>1, <1>2

LEMMA StepBounded == Inv /\ QuotaOvershoot /\ [Next]_pvars => QuotaOvershoot'
  <1> SUFFICES ASSUME Inv, QuotaOvershoot, [Next]_pvars PROVE QuotaOvershoot'
    OBVIOUS
  <1>1. ASSUME NEW r \in Requests, CreateProject(r) PROVE QuotaOvershoot'
    BY <1>1, CreateBounded
  <1>2. ASSUME NEW r \in Requests, CommitCreate(r) PROVE QuotaOvershoot'
    BY <1>2, CommitCreateBounded
  <1>3. ASSUME NEW r \in Requests, QuietRequest(r) \/ UpdateProject(r)
        PROVE  QuotaOvershoot'
    <2>1. /\ UNCHANGED <<project, member>>
          /\ \A s \in Requests \ {r} : req'[s] = req[s]
          /\ req'[r] = Idle \/ req'[r] = req[r] \/ req'[r].op # "create"
      <3>1. CASE QuietRequest(r)
        BY <3>1, QuietSteps
      <3>2. CASE UpdateProject(r)
        BY <3>2 DEF UpdateProject, rows, Inv, ProjectShape
      <3> QED
        BY <1>3, <3>1, <3>2
    <2>2. FindByUserID' = FindByUserID
      BY <2>1 DEF FindByUserID, Live, Exists
    <2>3. Creating' \subseteq Creating
      BY <2>1 DEF Creating
    <2> QED
      BY <2>2, <2>3, Fewer
  <1>4. ASSUME NEW r \in Requests, CommitUpdate(r) PROVE QuotaOvershoot'
    <2>1. UpdateHeld(req[r]) /\ project' = UpdateRow(req[r].p, req[r].row)
      BY <1>4 DEF Inv, ProjectHeld, CommitUpdate
    <2>2. member' = member
      BY <1>4, <2>1 DEF CommitUpdate, ExistingMember, UpdateHeld
    <2>3. \A x \in Projects : Live(x)' => Live(x)
      BY <2>1 DEF UpdateRow, Live, Exists, Inv, ProjectShape
    <2>4. FindByUserID' \subseteq FindByUserID
      BY <2>2, <2>3 DEF FindByUserID
    <2>5. Creating' \subseteq Creating
      BY <1>4 DEF CommitUpdate, Creating, Inv, ProjectShape
    <2> QED
      BY <2>4, <2>5, Fewer
  <1>5. ASSUME NEW r \in Requests, CommitDelete(r) PROVE QuotaOvershoot'
    <2>1. /\ project' = UpdateRow(req[r].p, [project[req[r].p] EXCEPT !.deleted = TRUE])
          /\ member' = [member EXCEPT ![req[r].p] = "removed"]
      BY <1>5 DEF CommitDelete
    <2>2. \A x \in Projects : Live(x)' => Live(x)
      BY <2>1 DEF UpdateRow, Live, Exists, Inv, ProjectShape
    <2>3. \A x \in Projects : member'[x] = "active" => member[x] = "active"
      BY <2>1 DEF Inv, ProjectShape
    <2>4. FindByUserID' \subseteq FindByUserID
      BY <2>2, <2>3 DEF FindByUserID
    <2>5. Creating' \subseteq Creating
      <3>1. req' = [req EXCEPT ![r].op = "cleanup"] /\ req[r] \in [op : {"volumes", "delete"}, p : Projects]
        BY <1>5 DEF CommitDelete, Inv, ProjectHeld, DeleteHeld
      <3>2. req'[r] = [req[r] EXCEPT !.op = "cleanup"] /\ \A s \in Requests \ {r} : req'[s] = req[s]
        BY <3>1 DEF Inv, ProjectShape
      <3>3. req'[r].op = "cleanup"
        BY <3>1, <3>2
      <3> QED
        BY <3>2, <3>3 DEF Creating
    <2> QED
      BY <2>4, <2>5, Fewer
  <1>6. CASE UNCHANGED pvars
    BY <1>6 DEF pvars, QuotaOvershoot, FindByUserID, Creating, Live, Exists
  <1> QED
    BY <1>1, <1>2, <1>3, <1>4, <1>5, <1>6 DEF Next, RequestStep, QuietRequest

\* The old projects are the only ones at first.
LEMMA InitBounded == Init => QuotaOvershoot
  <1> SUFFICES ASSUME Init PROVE QuotaOvershoot
    OBVIOUS
  <1>1. FindByUserID \in SUBSET Legacy
    BY DEF Init, FindByUserID
  <1>2. Creating = {}
    BY DEF Init, Creating
  <1>3. Cardinality(FindByUserID) <= Cardinality(Legacy) /\ Cardinality(Creating) = 0
    BY <1>1, <1>2, Finite, FS_Subset, FS_EmptySet
  <1> QED
    BY <1>3, Finite, BoundFacts DEF QuotaOvershoot, Bound

\* However requests overlap, and however long the account goes on creating and deleting,
\* the projects exceed the limit by less than the number of requests
\* (ValidateMaxProjectsPerUser).
THEOREM QuotaOvershootHolds == Spec => []QuotaOvershoot
  <1>1. Init => Inv /\ QuotaOvershoot
    BY InitInv, InitBounded
  <1>2. Inv /\ QuotaOvershoot /\ [Next]_pvars => (Inv /\ QuotaOvershoot)'
    BY StepInv, StepBounded
  <1> QED
    BY <1>1, <1>2, PTL DEF Spec

-----------------------------------------------------------------------------
(* The number of Free projects. *)

\* The measure: projects that are Free or may become so by a save under way, and Free
\* projects about to be inserted.
ToBeFree == FreeProjects \cup BecomingFree
FreeBound == MaxFree + Cardinality(Requests) - 1

\* The elements of two disjoint sets.
LEMMA DisjointUnion ==
  ASSUME NEW S, NEW T, IsFiniteSet(S), IsFiniteSet(T), S \cap T = {}
  PROVE  IsFiniteSet(S \cup T) /\ Cardinality(S \cup T) = Cardinality(S) + Cardinality(T)
  <1>1. Cardinality(S \cap T) = 0
    BY FS_EmptySet
  <1>2. Cardinality(S) \in Nat /\ Cardinality(T) \in Nat
    BY FS_CardinalityType
  <1>3. /\ IsFiniteSet(S \cup T)
        /\ Cardinality(S \cup T) = Cardinality(S) + Cardinality(T) - Cardinality(S \cap T)
    BY FS_Union
  <1> QED
    BY <1>1, <1>2, <1>3

LEMMA FreeFinite ==
  /\ IsFiniteSet(Requests) /\ Cardinality(Requests) \in Nat /\ MaxFree \in Nat
  /\ IsFiniteSet(FreeProjects) /\ IsFiniteSet(BecomingFree)
  /\ IsFiniteSet(CreatingFree) /\ IsFiniteSet(SavingFree)
  /\ Cardinality(FreeProjects) \in Nat /\ Cardinality(BecomingFree) \in Nat
  /\ Cardinality(CreatingFree) \in Nat /\ Cardinality(SavingFree) \in Nat
  <1>1. IsFiniteSet(Projects) /\ IsFiniteSet(Requests)
    BY FS_Interval, ProjectsAssumption, TransactionsAssumption DEF Projects
  <1>2. /\ FreeProjects \in SUBSET Projects /\ BecomingFree \in SUBSET Projects
        /\ CreatingFree \in SUBSET Requests /\ SavingFree \in SUBSET Requests
    BY DEF FreeProjects, BecomingFree, FindByUserID, CreatingFree, Creating, SavingFree
  <1>3. /\ IsFiniteSet(FreeProjects) /\ IsFiniteSet(BecomingFree)
        /\ IsFiniteSet(CreatingFree) /\ IsFiniteSet(SavingFree)
    BY <1>1, <1>2, FS_Subset
  <1> QED
    BY <1>1, <1>3, FS_CardinalityType, ProjectsAssumption

\* The two sets of projects are disjoint, so that one cardinality tells the sum.
FreeMeasure ==
  /\ IsFiniteSet(ToBeFree) /\ Cardinality(ToBeFree) \in Nat
  /\ IsFiniteSet(CreatingFree) /\ Cardinality(CreatingFree) \in Nat
  /\ FreeOvershoot <=> Cardinality(ToBeFree) + Cardinality(CreatingFree) <= FreeBound

LEMMA FreeIsMeasured == FreeMeasure
  <1>1. FreeProjects \cap BecomingFree = {}
    BY DEF BecomingFree
  <1>2. /\ IsFiniteSet(ToBeFree)
        /\ Cardinality(ToBeFree) = Cardinality(FreeProjects) + Cardinality(BecomingFree)
    BY <1>1, FreeFinite, DisjointUnion DEF ToBeFree
  <1> QED
    BY <1>2, FreeFinite DEF FreeMeasure, FreeOvershoot, FreeBound

LEMMA FreeIsMeasuredNext == FreeMeasure'
  BY FreeIsMeasured, PTL

\* Every project that becomes Free is the project of a save of its own, and a save is
\* no creation.
LEMMA PendingFree ==
  Cardinality(BecomingFree) + Cardinality(CreatingFree) <= Cardinality(Requests)
  <1> DEFINE saved == [r \in SavingFree |-> req[r].p]
             targets == {req[r].p : r \in SavingFree}
  <1>1. saved \in Surjection(SavingFree, targets)
    BY DEF Surjection
  <1>2. IsFiniteSet(targets) /\ Cardinality(targets) <= Cardinality(SavingFree)
    BY <1>1, FreeFinite, FS_Surjection
  <1>3. Cardinality(BecomingFree) <= Cardinality(targets) /\ Cardinality(targets) \in Nat
    BY <1>2, FS_Subset, FS_CardinalityType DEF BecomingFree
  <1>4. SavingFree \cap CreatingFree = {}
    BY DEF SavingFree, CreatingFree, Creating
  <1>5. /\ IsFiniteSet(SavingFree \cup CreatingFree)
        /\ Cardinality(SavingFree \cup CreatingFree) = Cardinality(SavingFree) + Cardinality(CreatingFree)
    BY <1>4, FreeFinite, DisjointUnion
  <1>6. Cardinality(SavingFree \cup CreatingFree) <= Cardinality(Requests)
    <2>1. SavingFree \cup CreatingFree \in SUBSET Requests
      BY DEF SavingFree, CreatingFree, Creating
    <2> QED
      BY <2>1, FreeFinite, FS_Subset
  <1> QED
    BY <1>2, <1>3, <1>5, <1>6, FreeFinite

\* A request that has passed the check found fewer Free projects than the limit.
LEMMA CheckedFree == ValidateFreePlanLimit => FreeOvershoot
  BY PendingFree, FreeFinite DEF FreeOvershoot, ValidateFreePlanLimit

\* Who belongs to the measure.
LEMMA ToBeFreeIs ==
  \A p : p \in ToBeFree <=>
    /\ p \in FindByUserID
    /\ \/ project[p].plan = "free"
       \/ \E s \in Requests : req[s] # Idle /\ req[s].op = "update" /\ req[s].row.plan = "free" /\ req[s].p = p
  BY DEF ToBeFree, FreeProjects, BecomingFree, SavingFree

LEMMA FewerFree ==
  ASSUME FreeOvershoot, ToBeFree' \subseteq ToBeFree, CreatingFree' \subseteq CreatingFree
  PROVE  FreeOvershoot'
  <1>1. /\ Cardinality(ToBeFree') <= Cardinality(ToBeFree)
        /\ Cardinality(CreatingFree') <= Cardinality(CreatingFree)
    BY FreeIsMeasured, FS_Subset DEF FreeMeasure
  <1> QED
    BY <1>1, FreeIsMeasured, FreeIsMeasuredNext, FreeFinite DEF FreeMeasure, FreeBound

\* A request that has found fewer Free projects than the limit may now write one.
LEMMA CheckedFreeNext ==
  ASSUME ValidateFreePlanLimit, UNCHANGED <<project, member>>
  PROVE  FreeOvershoot'
  <1>1. ValidateFreePlanLimit'
    BY DEF ValidateFreePlanLimit, FreeProjects, FindByUserID, Live, Exists
  <1>2. (ValidateFreePlanLimit => FreeOvershoot)'
    BY CheckedFree, PTL
  <1> QED
    BY <1>1, <1>2

\* Steps after which request r writes no Free project that it did not write before.
LEMMA QuietFree ==
  ASSUME Inv, FreeOvershoot, NEW r \in Requests, UNCHANGED <<project, member>>,
         \A s \in Requests \ {r} : req'[s] = req[s],
         \/ req'[r] = Idle \/ req'[r] = req[r] \/ req'[r].op \notin {"create", "update"}
         \/ req'[r].op = "create" /\ req'[r].plan # "free"
         \/ req'[r].op = "update" /\ (req'[r].row.plan = "free" => project[req'[r].p].plan = "free")
  PROVE  FreeOvershoot'
  <1>1. FindByUserID' = FindByUserID
    BY DEF FindByUserID, Live, Exists
  <1>2. ToBeFree' \subseteq ToBeFree
    <2>1. ASSUME NEW p, p \in ToBeFree' PROVE p \in ToBeFree
      <3>1. /\ p \in FindByUserID
            /\ \/ project[p].plan = "free"
               \/ \E s \in Requests : /\ req'[s] # Idle /\ req'[s].op = "update"
                                      /\ req'[s].row.plan = "free" /\ req'[s].p = p
        BY <1>1, <2>1 DEF ToBeFree, FreeProjects, BecomingFree, SavingFree
      <3> QED
        BY <3>1, ToBeFreeIs
    <2> QED
      BY <2>1
  <1>3. CreatingFree' \subseteq CreatingFree
    BY DEF CreatingFree, Creating
  <1> QED
    BY <1>2, <1>3, FewerFree

LEMMA CreateFree ==
  ASSUME Inv, FreeOvershoot, NEW r \in Requests, CreateProject(r)
  PROVE  FreeOvershoot'
  <1>1. PICK plan \in Plans, disk \in Disks :
          /\ plan = "free" => ValidateFreePlanLimit
          /\ req' = [req EXCEPT ![r] = [op |-> "create", plan |-> plan, disk |-> disk]]
    BY DEF CreateProject
  <1>2. UNCHANGED <<project, member>>
    BY DEF CreateProject, rows
  <1>3. CASE plan = "free"
    BY <1>1, <1>2, <1>3, CheckedFreeNext
  <1>4. CASE plan # "free"
    <2>1. req'[r] = [op |-> "create", plan |-> plan, disk |-> disk] /\ \A s \in Requests \ {r} : req'[s] = req[s]
      BY <1>1 DEF Inv, ProjectShape
    <2>2. req'[r].op = "create" /\ req'[r].plan # "free"
      BY <1>4, <2>1
    <2> QED
      BY <1>2, <2>1, <2>2, QuietFree
  <1> QED
    BY <1>3, <1>4

\* An update that makes a project Free has passed the check; another one leaves it Free.
LEMMA UpdateFree ==
  ASSUME Inv, FreeOvershoot, NEW r \in Requests, UpdateProject(r)
  PROVE  FreeOvershoot'
  <1>1. PICK p \in Projects, plan \in Plans \cup {Keep}, disk \in Disks \cup {Keep} :
          LET new == SetResourceLimits(SetPlan(project[p], plan), disk) IN
          /\ ConvertsToFree(project[p], new) => ValidateFreePlanLimit
          /\ req' = [req EXCEPT ![r] = [op |-> "update", p |-> p, row |-> new, member |-> member[p]]]
    BY DEF UpdateProject
  <1> DEFINE new == SetResourceLimits(SetPlan(project[p], plan), disk)
  <1>2. UNCHANGED <<project, member>>
    BY DEF UpdateProject, rows
  <1>3. /\ ConvertsToFree(project[p], new) => ValidateFreePlanLimit
        /\ req'[r] = [op |-> "update", p |-> p, row |-> new, member |-> member[p]]
        /\ \A s \in Requests \ {r} : req'[s] = req[s]
    BY <1>1 DEF Inv, ProjectShape
  <1> HIDE DEF new
  <1>4. CASE ConvertsToFree(project[p], new)
    BY <1>2, <1>3, <1>4, CheckedFreeNext
  <1>5. CASE ~ ConvertsToFree(project[p], new)
    <2>1. new.plan = "free" => project[p].plan = "free"
      BY <1>5 DEF ConvertsToFree, PlanOf
    <2>2. req'[r].op = "update" /\ (req'[r].row.plan = "free" => project[req'[r].p].plan = "free")
      BY <1>3, <2>1
    <2> QED
      BY <1>2, <1>3, <2>2, QuietFree
  <1> QED
    BY <1>4, <1>5

\* A Free project that is inserted was counted as one about to be.
LEMMA CommitCreateFree ==
  ASSUME Inv, FreeOvershoot, NEW r \in Requests, CommitCreate(r)
  PROVE  FreeOvershoot'
  <1>1. PICK p \in Projects :
          /\ ~ Exists(p)
          /\ project' = [project EXCEPT ![p] = [plan |-> req[r].plan, disk |-> req[r].disk, deleted |-> FALSE]]
          /\ member' = [member EXCEPT ![p] = "active"]
    BY DEF CommitCreate
  <1>2. /\ project'[p].plan = req[r].plan
        /\ \A x \in Projects \ {p} : project'[x] = project[x] /\ member'[x] = member[x]
    BY <1>1 DEF Inv, ProjectShape
  <1>3. req[r] # Idle /\ req[r].op = "create" /\ req'[r] = Idle /\ \A s \in Requests \ {r} : req'[s] = req[s]
    BY DEF CommitCreate, Inv, ProjectShape
  <1>4. \A x \in FindByUserID' : x # p => x \in FindByUserID /\ project'[x] = project[x]
    BY <1>2 DEF FindByUserID, Live, Exists
  <1>5. \A x \in ToBeFree' : x # p => x \in ToBeFree
    <2>1. ASSUME NEW x \in ToBeFree', x # p PROVE x \in ToBeFree
      <3>1. /\ x \in FindByUserID'
            /\ \/ project'[x].plan = "free"
               \/ \E s \in Requests : /\ req'[s] # Idle /\ req'[s].op = "update"
                                      /\ req'[s].row.plan = "free" /\ req'[s].p = x
        BY DEF ToBeFree, FreeProjects, BecomingFree, SavingFree
      <3> QED
        BY <1>3, <1>4, <2>1, <3>1, ToBeFreeIs
    <2> QED
      BY <2>1
  <1>6. CASE req[r].plan = "free"
    <2>1. ToBeFree' \in SUBSET (ToBeFree \cup {p})
      BY <1>5
    <2>2. Cardinality(ToBeFree') <= Cardinality(ToBeFree) + 1
      <3>1. /\ IsFiniteSet(ToBeFree \cup {p})
            /\ Cardinality(ToBeFree \cup {p}) =
                 IF p \in ToBeFree THEN Cardinality(ToBeFree) ELSE Cardinality(ToBeFree) + 1
        BY FreeIsMeasured, FS_AddElement DEF FreeMeasure
      <3>2. Cardinality(ToBeFree') <= Cardinality(ToBeFree \cup {p})
        BY <2>1, <3>1, FS_Subset
      <3> QED
        BY <3>1, <3>2, FreeIsMeasured, FreeIsMeasuredNext DEF FreeMeasure
    <2>3. r \in CreatingFree /\ CreatingFree' = CreatingFree \ {r}
      BY <1>3, <1>6 DEF CreatingFree, Creating
    <2>4. Cardinality(CreatingFree') = Cardinality(CreatingFree) - 1
      BY <2>3, FreeIsMeasured, FS_RemoveElement DEF FreeMeasure
    <2> QED
      BY <2>2, <2>4, FreeIsMeasured, FreeIsMeasuredNext, FreeFinite DEF FreeMeasure, FreeBound
  <1>7. CASE req[r].plan # "free"
    <2>1. p \notin ToBeFree'
      <3>1. ASSUME NEW s \in Requests, req'[s] # Idle, req'[s].op = "update" PROVE req'[s].p # p
        BY <1>1, <1>3, <3>1 DEF Inv, ProjectHeld, UpdateHeld
      <3> QED
        BY <1>2, <1>7, <3>1 DEF ToBeFree, FreeProjects, BecomingFree, SavingFree
    <2>2. CreatingFree' \subseteq CreatingFree
      BY <1>3 DEF CreatingFree, Creating
    <2> QED
      BY <1>5, <2>1, <2>2, FewerFree
  <1> QED
    BY <1>6, <1>7

\* A save writes a row that was counted when it was read, over one that may be Free; the
\* project stays in the measure if another save will make it Free again.
LEMMA CommitUpdateFree ==
  ASSUME Inv, FreeOvershoot, NEW r \in Requests, CommitUpdate(r)
  PROVE  FreeOvershoot'
  <1>1. UpdateHeld(req[r]) /\ project' = UpdateRow(req[r].p, req[r].row)
    BY DEF Inv, ProjectHeld, CommitUpdate
  <1>2. member' = member
    BY <1>1 DEF CommitUpdate, ExistingMember, UpdateHeld
  <1>3. /\ req[r] # Idle /\ req[r].op = "update" /\ req'[r] = Idle
        /\ \A s \in Requests \ {r} : req'[s] = req[s]
    BY DEF CommitUpdate, Inv, ProjectShape
  <1>4. \A x \in Projects : /\ Live(x)' => Live(x)
                            /\ x # req[r].p => project'[x] = project[x]
                            /\ Live(x) => project'[req[r].p] = req[r].row \/ project' = project
    BY <1>1 DEF UpdateRow, Live, Exists, Inv, ProjectShape
  <1>5. ASSUME NEW x \in ToBeFree' PROVE x \in ToBeFree
    <2>1. /\ x \in FindByUserID /\ x \in Projects
          /\ \/ project'[x].plan = "free"
             \/ \E s \in Requests : /\ req'[s] # Idle /\ req'[s].op = "update"
                                    /\ req'[s].row.plan = "free" /\ req'[s].p = x
      BY <1>2, <1>4 DEF ToBeFree, FreeProjects, BecomingFree, SavingFree, FindByUserID
    <2>2. CASE \E s \in Requests : /\ req'[s] # Idle /\ req'[s].op = "update"
                                   /\ req'[s].row.plan = "free" /\ req'[s].p = x
      BY <1>3, <2>1, <2>2, ToBeFreeIs
    <2>3. CASE project'[x].plan = "free"
      <3>1. CASE project'[x] = project[x]
        BY <2>1, <2>3, <3>1, ToBeFreeIs
      <3>2. CASE x = req[r].p /\ project'[x] = req[r].row
        BY <1>3, <2>1, <2>3, <3>2, ToBeFreeIs
      <3>3. Live(x)
        BY <2>1 DEF FindByUserID
      <3> QED
        BY <1>4, <2>1, <3>1, <3>2, <3>3
    <2> QED
      BY <2>1, <2>2, <2>3
  <1>6. CreatingFree' \subseteq CreatingFree
    BY <1>3 DEF CreatingFree, Creating
  <1> QED
    BY <1>5, <1>6, FewerFree

\* A deleted project counts no more.
LEMMA CommitDeleteFree ==
  ASSUME Inv, FreeOvershoot, NEW r \in Requests, CommitDelete(r)
  PROVE  FreeOvershoot'
  <1>1. /\ project' = UpdateRow(req[r].p, [project[req[r].p] EXCEPT !.deleted = TRUE])
        /\ member' = [member EXCEPT ![req[r].p] = "removed"]
        /\ req[r] \in [op : {"volumes", "delete"}, p : Projects]
    BY DEF CommitDelete, Inv, ProjectHeld, DeleteHeld
  <1>2. \A x \in FindByUserID' : x \in FindByUserID /\ project'[x] = project[x]
    BY <1>1 DEF FindByUserID, UpdateRow, Live, Exists, Inv, ProjectShape
  <1>3. req'[r] = [req[r] EXCEPT !.op = "cleanup"] /\ \A s \in Requests \ {r} : req'[s] = req[s]
    BY DEF CommitDelete, Inv, ProjectShape
  <1>4. req'[r].op = "cleanup"
    BY <1>1, <1>3
  <1>5. ASSUME NEW x \in ToBeFree' PROVE x \in ToBeFree
    <2>1. /\ x \in FindByUserID'
          /\ \/ project'[x].plan = "free"
             \/ \E s \in Requests : /\ req'[s] # Idle /\ req'[s].op = "update"
                                    /\ req'[s].row.plan = "free" /\ req'[s].p = x
      BY DEF ToBeFree, FreeProjects, BecomingFree, SavingFree
    <2>2. x \in FindByUserID /\ project'[x] = project[x]
      BY <1>2, <2>1
    <2>3. ASSUME NEW s \in Requests, req'[s] # Idle, req'[s].op = "update" PROVE req'[s] = req[s]
      BY <1>3, <1>4, <2>3
    <2> QED
      BY <2>1, <2>2, <2>3, ToBeFreeIs
  <1>6. CreatingFree' \subseteq CreatingFree
    BY <1>3, <1>4 DEF CreatingFree, Creating
  <1> QED
    BY <1>5, <1>6, FewerFree

LEMMA StepFree == Inv /\ FreeOvershoot /\ [Next]_pvars => FreeOvershoot'
  <1> SUFFICES ASSUME Inv, FreeOvershoot, [Next]_pvars PROVE FreeOvershoot'
    OBVIOUS
  <1>1. ASSUME NEW r \in Requests, CreateProject(r) PROVE FreeOvershoot'
    BY <1>1, CreateFree
  <1>2. ASSUME NEW r \in Requests, CommitCreate(r) PROVE FreeOvershoot'
    BY <1>2, CommitCreateFree
  <1>3. ASSUME NEW r \in Requests, UpdateProject(r) PROVE FreeOvershoot'
    BY <1>3, UpdateFree
  <1>4. ASSUME NEW r \in Requests, CommitUpdate(r) PROVE FreeOvershoot'
    BY <1>4, CommitUpdateFree
  <1>5. ASSUME NEW r \in Requests, CommitDelete(r) PROVE FreeOvershoot'
    BY <1>5, CommitDeleteFree
  <1>6. ASSUME NEW r \in Requests, QuietRequest(r) PROVE FreeOvershoot'
    BY <1>6, QuietSteps, QuietFree
  <1>7. CASE UNCHANGED pvars
    <2>1. PICK r \in Requests : TRUE
      BY TransactionsAssumption
    <2> QED
      BY <1>7, <2>1, QuietFree DEF pvars
  <1> QED
    BY <1>1, <1>2, <1>3, <1>4, <1>5, <1>6, <1>7 DEF Next, RequestStep, QuietRequest

\* The old projects have no plan; at least one request gives the bound room.
LEMMA InitFree == Init => FreeOvershoot
  <1> SUFFICES ASSUME Init PROVE FreeOvershoot
    OBVIOUS
  <1>1. FreeProjects = {} /\ BecomingFree = {} /\ CreatingFree = {}
    BY DEF Init, FreeProjects, FindByUserID, BecomingFree, SavingFree, CreatingFree, Creating, Live, Exists
  <1>2. Cardinality(Requests) # 0
    BY TransactionsAssumption, FS_EmptySet
  <1> QED
    BY <1>1, <1>2, FS_EmptySet, FreeFinite DEF FreeOvershoot

\* The quotas of an account are exceeded by less than the number of requests that overlap,
\* and a Free project has the fixed resources: however conversions to Free, creations and
\* updates that write a Free plan back over a converted one interleave
\* (ValidateMaxProjectsPerUser, ValidateFreePlanLimit, ValidateFreeResources).
THEOREM QuotasHoldAlways == Spec => []QuotasHold
  <1>1. Init => Inv /\ FreeOvershoot
    BY InitInv, InitFree
  <1>2. Inv /\ FreeOvershoot /\ [Next]_pvars => (Inv /\ FreeOvershoot)'
    BY StepInv, StepFree
  <1>3. Spec => []FreeOvershoot
    BY <1>1, <1>2, PTL DEF Spec
  <1> QED
    BY <1>3, QuotaOvershootHolds, FreeIsFixedHolds, PTL DEF QuotasHold

-----------------------------------------------------------------------------
(* The sum of the capacities of volumes. *)

\* The sum of the capacities, as TotalOf computes it, is such a fold.
CapOf(S) == [v \in S |-> v.cap]

LEMMA TotalIsSum ==
  ASSUME NEW S, IsFiniteSet(S), \A v \in S : v.cap \in Nat
  PROVE  CapOf(S) \in [S -> Nat] /\ \E f : IsSum(f, CapOf(S), S) /\ TotalOf(S) = f[S]
  <1> DEFINE Folds(f) == f = [s \in SUBSET S |-> IF s = {} THEN 0 ELSE LET x == CHOOSE x \in s : TRUE IN x.cap + f[s \ {x}]]
             F == CHOOSE f : Folds(f)
  <1>1. \A f : IsSum(f, CapOf(S), S) <=> Folds(f)
    <2> SUFFICES ASSUME NEW f
                 PROVE  \A s \in SUBSET S : s # {} => LET x == CHOOSE x \in s : TRUE IN
                          CapOf(S)[x] + f[s \ {x}] = x.cap + f[s \ {x}]
      BY DEF IsSum
    <2> QED
      BY DEF CapOf
  <1>2. CapOf(S) \in [S -> Nat]
    BY DEF CapOf
  <1>3. PICK g : Folds(g)
    <2> HIDE DEF Folds
    <2> QED
      BY <1>1, <1>2, SumExists
  <1>4. Folds(F)
    <2> HIDE DEF Folds
    <2> QED
      BY <1>3
  <1>5. TotalOf(S) = F[S]
    BY DEF TotalOf, MapThenSumSet, MapThenFoldSet
  <1> HIDE DEF F, Folds
  <1> QED
    BY <1>1, <1>2, <1>4, <1>5

LEMMA TotalOfSubset ==
  ASSUME NEW S, IsFiniteSet(S), \A v \in S : v.cap \in Nat, NEW T \in SUBSET S
  PROVE  TotalOf(T) \in Nat /\ TotalOf(S) \in Nat /\ TotalOf(T) <= TotalOf(S)
  <1>1. PICK f : IsSum(f, CapOf(S), S) /\ TotalOf(S) = f[S]
    BY TotalIsSum
  <1>2. IsFiniteSet(T) /\ \A v \in T : v.cap \in Nat
    BY FS_Subset
  <1>3. PICK g : IsSum(g, CapOf(T), T) /\ TotalOf(T) = g[T]
    BY <1>2, TotalIsSum
  <1>4. \A v \in T : CapOf(T)[v] = CapOf(S)[v]
    BY DEF CapOf
  <1>5. CapOf(T) \in [T -> Nat] /\ CapOf(S) \in [S -> Nat]
    BY <1>2 DEF CapOf
  <1>6. g[T] = f[T]
    BY <1>1, <1>3, <1>4, <1>5, SumUnique
  <1>7. f[T] <= f[S] /\ f[T] \in Nat /\ f[S] \in Nat
    BY <1>1, <1>5, SumMonotone, SumIsNat
  <1> QED
    BY <1>1, <1>3, <1>6, <1>7

LEMMA TotalOfMore ==
  ASSUME NEW S, IsFiniteSet(S), \A v \in S : v.cap \in Nat, NEW u, u \notin S, u.cap \in Nat
  PROVE  TotalOf(S \cup {u}) = TotalOf(S) + u.cap
  <1> DEFINE R == S \cup {u}
  <1>1. IsFiniteSet(R) /\ \A v \in R : v.cap \in Nat
    BY FS_AddElement
  <1>2. S \in SUBSET R /\ R \in SUBSET R /\ u \in R /\ R \ {u} = S
    OBVIOUS
  <1> HIDE DEF R
  <1>3. PICK f : IsSum(f, CapOf(R), R) /\ TotalOf(R) = f[R]
    BY <1>1, TotalIsSum
  <1>4. PICK g : IsSum(g, CapOf(S), S) /\ TotalOf(S) = g[S]
    BY TotalIsSum
  <1>5. \A v \in S : CapOf(S)[v] = CapOf(R)[v]
    BY <1>2 DEF CapOf
  <1>6. CapOf(S) \in [S -> Nat] /\ CapOf(R) \in [R -> Nat] /\ CapOf(R)[u] = u.cap
    BY <1>1, <1>2 DEF CapOf
  <1>7. g[S] = f[S]
    BY <1>1, <1>2, <1>3, <1>4, <1>5, <1>6, SumUnique
  <1>8. f[R] = CapOf(R)[u] + f[S] /\ f[S] \in Nat
    BY <1>1, <1>2, <1>3, <1>6, SumRemove, SumIsNat
  <1>9. TotalOf(R) = TotalOf(S) + u.cap
    BY <1>3, <1>4, <1>6, <1>7, <1>8
  <1> QED
    BY <1>9 DEF R

-----------------------------------------------------------------------------
(* The volumes of a project and its disk limit. *)

\* A sum within a limit that was accepted; it does not wrap, not even with one more volume.
Fits(n) == \E disk \in Disks : n <= disk

\* The sum that CreateVolume has read under the lock is no less than the present one, and
\* the limit is that of the row.
TotalHeld(q) ==
  /\ q.p \in Projects /\ q.name \in VolumeNames /\ q.cap \in Nat /\ q.total \in Nat /\ Fits(q.total)
  /\ q.disk = project[q.p].disk /\ TotalOf(VolumesOf(q.p)) <= q.total

SumsInv ==
  /\ IsFiniteSet(volumes) /\ volumes \subseteq Volumes
  /\ \A p \in Projects : Fits(TotalOf(VolumesOf(p)))
  /\ \A r \in Requests : req[r] # Idle /\ req[r].op = "volume" => TotalHeld(req[r])

LEMMA FitsFacts ==
  /\ \A n \in Nat : Fits(n) => n < W /\ n % W = n /\ \A cap \in MinCapacity .. MaxCapacity : (n + cap) % W = n + cap
  /\ Fits(0)
  <1>1. \A disk \in Disks : disk \in Nat /\ disk < W /\ disk + MaxCapacity < W
    BY ProjectsAssumption, TransactionsAssumption, NoWrapAssumption
  <1>2. ASSUME NEW n \in Nat, n < W PROVE n % W = n
    BY <1>2, TransactionsAssumption
  <1>3. ASSUME NEW n \in Nat, Fits(n), NEW cap \in MinCapacity .. MaxCapacity
        PROVE  n + cap \in Nat /\ n + cap < W
    BY <1>1, <1>3, ProjectsAssumption, TransactionsAssumption DEF Fits
  <1>4. ASSUME NEW n \in Nat, Fits(n) PROVE n < W
    BY <1>1, <1>4, TransactionsAssumption DEF Fits
  <1>5. Fits(0)
    BY <1>1, ProjectsAssumption DEF Fits
  <1> QED
    BY <1>2, <1>3, <1>4, <1>5

\* The volumes of a project are finitely many, with natural capacities.
LEMMA VolumesFinite ==
  ASSUME SumsInv, NEW p
  PROVE  IsFiniteSet(VolumesOf(p)) /\ \A v \in VolumesOf(p) : v.cap \in Nat /\ v.project = p
  <1>1. VolumesOf(p) \in SUBSET volumes
    BY DEF VolumesOf
  <1>2. \A v \in Volumes : v.cap \in Nat
    BY ProjectsAssumption DEF Volumes
  <1> QED
    BY <1>1, <1>2, FS_Subset DEF SumsInv, VolumesOf

\* Fewer volumes have no larger sum.
LEMMA FewerVolumes ==
  ASSUME SumsInv, volumes' \subseteq volumes, NEW p \in Projects
  PROVE  /\ TotalOf(VolumesOf(p)') <= TotalOf(VolumesOf(p))
         /\ TotalOf(VolumesOf(p)') \in Nat /\ TotalOf(VolumesOf(p)) \in Nat
         /\ Fits(TotalOf(VolumesOf(p)'))
  <1>1. VolumesOf(p)' \in SUBSET VolumesOf(p)
    BY DEF VolumesOf
  <1>2. /\ TotalOf(VolumesOf(p)') <= TotalOf(VolumesOf(p))
        /\ TotalOf(VolumesOf(p)') \in Nat /\ TotalOf(VolumesOf(p)) \in Nat
    BY <1>1, VolumesFinite, TotalOfSubset
  <1>3. PICK disk \in Disks : TotalOf(VolumesOf(p)) <= disk
    BY DEF SumsInv, Fits
  <1>4. disk \in Nat
    BY ProjectsAssumption
  <1> QED
    BY <1>2, <1>3, <1>4 DEF Fits

\* Steps that add no volume, lock no project and change no locked one.
LEMMA KeepSums ==
  ASSUME Inv, SumsInv, volumes' \subseteq volumes,
         \A s \in Requests : req'[s] # Idle /\ req'[s].op = "volume" => req'[s] = req[s],
         \A p \in Projects : Live(p) /\ lock[p] # Idle => project'[p].disk = project[p].disk
  PROVE  SumsInv'
  <1>1. IsFiniteSet(volumes') /\ volumes' \subseteq Volumes
    BY FS_Subset DEF SumsInv
  <1>2. \A p \in Projects : Fits(TotalOf(VolumesOf(p)))'
    BY FewerVolumes DEF Fits
  <1>3. ASSUME NEW s \in Requests, req'[s] # Idle, req'[s].op = "volume"
        PROVE  TotalHeld(req[s])'
    <2>1. req'[s] = req[s] /\ TotalHeld(req[s]) /\ VolumeHeld(s, req[s])
      BY <1>3 DEF SumsInv, Inv, ProjectHeld
    <2>2. project'[req[s].p].disk = project[req[s].p].disk
      BY <2>1, TransactionsAssumption DEF VolumeHeld
    <2>3. TotalOf(VolumesOf(req[s].p)') <= req[s].total
      <3>1. /\ TotalOf(VolumesOf(req[s].p)') <= TotalOf(VolumesOf(req[s].p))
            /\ TotalOf(VolumesOf(req[s].p)') \in Nat /\ TotalOf(VolumesOf(req[s].p)) \in Nat
        BY <2>1, FewerVolumes DEF TotalHeld
      <3> QED
        BY <2>1, <3>1 DEF TotalHeld
    <2>4. VolumesOf(req[s].p)' = {v \in volumes' : v.project = req[s].p}
      BY <2>1 DEF VolumesOf
    <2> QED
      BY <2>1, <2>2, <2>3, <2>4 DEF TotalHeld, Fits, VolumesOf
  <1> QED
    BY <1>1, <1>2, <1>3 DEF SumsInv

\* All steps but those of CreateVolume are such steps: a row is saved only while nobody
\* holds it.
LEMMA QuietSums ==
  ASSUME Inv, SumsInv, NEW r \in Requests, RequestStep(r), ~ AddVolume(r), ~ CommitVolume(r)
  PROVE  volumes' \subseteq volumes /\ SumsInv'
  <1>1. volumes' \subseteq volumes
    BY DEF RequestStep, CreateProject, CommitCreate, UpdateProject, CommitUpdate, DeleteProject,
           DeleteVolumesByProjectID, CommitDelete, TriggerCleanup, RemoveVolume, Rollback, rows
  <1>2. ASSUME NEW s \in Requests, req'[s] # Idle, req'[s].op = "volume"
        PROVE  req'[s] = req[s]
    <2>1. CASE s # r
      <3>1. CASE CreateProject(r) \/ UpdateProject(r) \/ DeleteProject(r)
        BY <2>1, <3>1 DEF Inv, ProjectShape, CreateProject, UpdateProject, DeleteProject
      <3>2. CASE DeleteVolumesByProjectID(r) \/ CommitDelete(r)
        BY <2>1, <3>2 DEF Inv, ProjectShape, DeleteVolumesByProjectID, CommitDelete
      <3>3. CASE CommitCreate(r) \/ CommitUpdate(r) \/ TriggerCleanup(r) \/ Rollback(r)
        BY <2>1, <3>3 DEF Inv, ProjectShape, CommitCreate, CommitUpdate, TriggerCleanup, Rollback
      <3>4. CASE RemoveVolume(r)
        BY <3>4 DEF RemoveVolume
      <3> QED
        BY <3>1, <3>2, <3>3, <3>4 DEF RequestStep
    <2>2. CASE s = r /\ ~ RemoveVolume(r)
      <3>1. CASE CreateProject(r) \/ UpdateProject(r) \/ DeleteProject(r)
        <4>1. req'[r].op \in {"create", "update", "volumes"}
          <5>1. CASE CreateProject(r)
            BY <5>1 DEF Inv, ProjectShape, CreateProject
          <5>2. CASE UpdateProject(r)
            BY <5>2 DEF Inv, ProjectShape, UpdateProject
          <5>3. CASE DeleteProject(r)
            BY <5>3 DEF Inv, ProjectShape, DeleteProject
          <5> QED
            BY <3>1, <5>1, <5>2, <5>3
        <4> QED
          BY <1>2, <2>2, <4>1
      <3>2. CASE DeleteVolumesByProjectID(r) \/ CommitDelete(r)
        <4>1. DeleteHeld(req[r]) /\ req' \in {[req EXCEPT ![r].op = op] : op \in {"delete", "cleanup"}}
          BY <3>2 DEF Inv, ProjectHeld, DeleteVolumesByProjectID, CommitDelete
        <4>2. req'[r].op \in {"delete", "cleanup"}
          BY <4>1 DEF Inv, ProjectShape, DeleteHeld
        <4> QED
          BY <1>2, <2>2, <4>2
      <3>3. CASE CommitCreate(r) \/ CommitUpdate(r) \/ TriggerCleanup(r) \/ Rollback(r)
        BY <1>2, <2>2, <3>3 DEF Inv, ProjectShape, CommitCreate, CommitUpdate, TriggerCleanup, Rollback
      <3> QED
        BY <2>2, <3>1, <3>2, <3>3 DEF RequestStep
    <2>3. CASE RemoveVolume(r)
      BY <2>3 DEF RemoveVolume
    <2> QED
      BY <2>1, <2>2, <2>3
  <1>3. ASSUME NEW p \in Projects, Live(p), lock[p] # Idle
        PROVE  project'[p] = project[p]
    <2>1. CASE CommitCreate(r)
      BY <1>3, <2>1 DEF CommitCreate, Live, Inv, ProjectShape
    <2>2. ASSUME NEW q, NEW row, project' = UpdateRow(q, row), lock[q] = Idle PROVE project'[p] = project[p]
      BY <1>3, <2>2 DEF UpdateRow, Inv, ProjectShape
    <2>3. CASE CommitUpdate(r) \/ CommitDelete(r)
      BY <2>2, <2>3 DEF CommitUpdate, CommitDelete
    <2> QED
      BY <2>1, <2>3 DEF RequestStep, CreateProject, UpdateProject, DeleteProject,
           DeleteVolumesByProjectID, TriggerCleanup, RemoveVolume, Rollback, rows
  <1> QED
    BY <1>1, <1>2, <1>3, KeepSums

\* Under the lock, the sum that is read is the present one: it does not wrap.
LEMMA AddVolumeSums ==
  ASSUME Inv, SumsInv, NEW r \in Requests, AddVolume(r)
  PROVE  SumsInv'
  <1>1. PICK p \in WithVolumes, name \in VolumeNames, cap \in Capacities :
          /\ FindByIDForUpdate(r, p)
          /\ req' = [req EXCEPT ![r] =
               [op |-> "volume", p |-> p, disk |-> project[p].disk, total |-> GetTotalCapacityByProjectID(p),
                names |-> {v.name : v \in VolumesOf(p)}, name |-> name, cap |-> cap]]
    BY DEF AddVolume
  <1> DEFINE q == [op |-> "volume", p |-> p, disk |-> project[p].disk, total |-> GetTotalCapacityByProjectID(p),
                   names |-> {v.name : v \in VolumesOf(p)}, name |-> name, cap |-> cap]
  <1>2. p \in Projects /\ cap \in Nat
    BY ProjectsAssumption DEF Projects
  <1>3. UNCHANGED <<project, volumes>>
    BY DEF AddVolume, rows
  <1>4. TotalOf(VolumesOf(p)) \in Nat /\ Fits(TotalOf(VolumesOf(p)))
    BY <1>2, VolumesFinite, TotalOfSubset DEF SumsInv
  <1>5. GetTotalCapacityByProjectID(p) = TotalOf(VolumesOf(p))
    BY <1>4, FitsFacts DEF GetTotalCapacityByProjectID
  <1>6. q.p = p /\ q.name \in VolumeNames /\ q.cap = cap /\ q.disk = project[p].disk /\ q.total = TotalOf(VolumesOf(p))
    BY <1>5
  <1>7. req' = [req EXCEPT ![r] = q]
    BY <1>1
  <1> HIDE DEF q
  <1>8. req'[r] = q /\ \A s \in Requests \ {r} : req'[s] = req[s]
    BY <1>7 DEF Inv, ProjectShape
  <1>9. TotalHeld(q)
    BY <1>2, <1>4, <1>6 DEF TotalHeld
  <1>10. \A x : VolumesOf(x)' = VolumesOf(x)
    BY <1>3 DEF VolumesOf
  <1>11. ASSUME NEW s \in Requests, req'[s] # Idle, req'[s].op = "volume"
         PROVE  TotalHeld(req[s])'
    <2>1. TotalHeld(req'[s])
      BY <1>8, <1>9, <1>11 DEF SumsInv
    <2> QED
      BY <1>3, <1>10, <2>1 DEF TotalHeld, Fits, VolumesOf
  <1> QED
    BY <1>3, <1>11 DEF SumsInv, VolumesOf, Fits

\* The new volume is within the limit of the row that is locked.
LEMMA CommitVolumeSums ==
  ASSUME Inv, SumsInv, NEW r \in Requests, CommitVolume(r)
  PROVE  /\ SumsInv'
         /\ \E p \in Projects : /\ TotalOf(VolumesOf(p)') <= project[p].disk
                                /\ \A x \in Projects \ {p} : VolumesOf(x)' = VolumesOf(x)
  <1>a. PICK p, cap, name : p = req[r].p /\ cap = req[r].cap /\ name = req[r].name
    OBVIOUS
  <1> DEFINE new == [project |-> p, name |-> name, cap |-> cap]
  <1>1. VolumeHeld(r, req[r]) /\ TotalHeld(req[r])
    BY DEF Inv, SumsInv, ProjectHeld, CommitVolume
  <1>2. /\ name \notin req[r].names /\ cap \in MinCapacity .. MaxCapacity
        /\ (req[r].total + cap) % W <= req[r].disk
    BY <1>a, <1>1, ProjectsAssumption DEF CommitVolume, ExistsByName, NewVolume, WithinDiskLimit, TotalHeld
  <1>3. /\ p \in Projects /\ lock[p] = r /\ Live(p) /\ req[r].disk = project[p].disk
        /\ \A v \in volumes : v.project = p => v.name # name
    BY <1>a, <1>1, <1>2 DEF VolumeHeld, TotalHeld
  <1>4. project[p].disk \in Disks /\ project[p].disk \in Nat
    BY <1>3, ProjectsAssumption DEF Inv, ProjectShape, Live, Exists, Rows
  <1>5. req[r].total \in Nat /\ Fits(req[r].total) /\ TotalOf(VolumesOf(p)) <= req[r].total
    BY <1>a, <1>1 DEF TotalHeld
  <1>6. req[r].total + cap <= project[p].disk
    BY <1>2, <1>3, <1>5, FitsFacts
  <1>7. /\ volumes' = volumes \cup {new} /\ UNCHANGED project
        /\ req' = [req EXCEPT ![r] = Idle]
        /\ new.project = p /\ new.name = name /\ new.cap = cap
    BY <1>a DEF CommitVolume
  <1>8. new \in Volumes /\ cap \in Nat
    BY <1>a, <1>1, <1>2, ProjectsAssumption DEF TotalHeld, Volumes
  <1>9. req'[r] = Idle /\ \A s \in Requests \ {r} : req'[s] = req[s]
    BY <1>7 DEF Inv, ProjectShape
  <1> HIDE DEF new
  <1>10. /\ VolumesOf(p)' = VolumesOf(p) \cup {new} /\ new \notin VolumesOf(p)
         /\ \A x \in Projects \ {p} : VolumesOf(x)' = VolumesOf(x)
    BY <1>3, <1>7 DEF VolumesOf
  <1>11. TotalOf(VolumesOf(p)') = TotalOf(VolumesOf(p)) + cap
    BY <1>7, <1>8, <1>10, VolumesFinite, TotalOfMore
  <1>12. TotalOf(VolumesOf(p)) \in Nat
    BY <1>3, VolumesFinite, TotalOfSubset
  <1>13. TotalOf(VolumesOf(p)') <= project[p].disk
    BY <1>4, <1>5, <1>6, <1>8, <1>11, <1>12
  <1>14. IsFiniteSet(volumes') /\ volumes' \subseteq Volumes
    BY <1>7, <1>8, FS_AddElement DEF SumsInv
  <1>15. \A x \in Projects : Fits(TotalOf(VolumesOf(x)'))
    BY <1>4, <1>10, <1>13 DEF SumsInv, Fits
  <1>16. ASSUME NEW s \in Requests, req'[s] # Idle, req'[s].op = "volume"
         PROVE  TotalHeld(req[s])'
    <2>1. PICK q : q = req[s] /\ q = req'[s]
      BY <1>9, <1>16
    <2>2. s # r /\ TotalHeld(q) /\ VolumeHeld(s, q)
      BY <1>9, <1>16, <2>1 DEF SumsInv, Inv, ProjectHeld
    <2>3. q.p \in Projects \ {p}
      BY <1>3, <2>2 DEF VolumeHeld
    <2>4. VolumesOf(q.p)' = VolumesOf(q.p)
      BY <1>10, <2>3
    <2>5. TotalHeld(q)'
      BY <1>7, <2>2, <2>4 DEF TotalHeld, Fits
    <2> QED
      BY <2>1, <2>5
  <1>17. SumsInv'
    <2>1. \A x \in Projects : Fits(TotalOf(VolumesOf(x)))'
      BY <1>15 DEF Fits
    <2> QED
      BY <1>14, <1>16, <2>1 DEF SumsInv
  <1> QED
    BY <1>3, <1>10, <1>13, <1>17

\* A project starts without volumes, and the sum of none is 0.
LEMMA InitSums == Init => SumsInv
  <1> SUFFICES ASSUME Init PROVE SumsInv
    OBVIOUS
  <1>1. volumes = {} /\ IsFiniteSet(volumes)
    BY FS_EmptySet DEF Init
  <1>2. \A p : VolumesOf(p) = {}
    BY <1>1 DEF VolumesOf
  <1>3. TotalOf({}) = 0
    <2>1. PICK f : IsSum(f, CapOf({}), {}) /\ TotalOf({}) = f[{}]
      BY <1>1, TotalIsSum
    <2>2. CapOf({}) \in [{} -> Nat]
      BY DEF CapOf
    <2> QED
      BY <2>1, <2>2, SumStep
  <1> QED
    BY <1>1, <1>2, <1>3, FitsFacts DEF Init, SumsInv

LEMMA StepSums == Inv /\ SumsInv /\ [Next]_pvars => SumsInv'
  <1> SUFFICES ASSUME Inv, SumsInv, [Next]_pvars PROVE SumsInv'
    OBVIOUS
  <1>1. ASSUME NEW r \in Requests, RequestStep(r) PROVE SumsInv'
    BY <1>1, QuietSums, AddVolumeSums, CommitVolumeSums
  <1>2. CASE UNCHANGED pvars
    BY <1>2, KeepSums DEF pvars
  <1> QED
    BY <1>1, <1>2 DEF Next

\* The volumes of a project grow only up to its disk limit of that moment, although the sum
\* is added in 32 bits, and no two have one name: the row of the project, which CreateVolume
\* holds from the reads to the insert, stands for both.
THEOREM VolumesFitHolds == Spec => VolumesFit
  <1> DEFINE Grows(p) == TotalOf(VolumesOf(p)') > TotalOf(VolumesOf(p)) => TotalOf(VolumesOf(p)') <= project[p].disk
  <1>1. ASSUME Inv, SumsInv, [Next]_pvars, NEW p \in Projects PROVE Grows(p)
    <2>1. TotalOf(VolumesOf(p)) \in Nat
      BY <1>1, VolumesFinite, TotalOfSubset
    <2>2. ASSUME volumes' \subseteq volumes PROVE Grows(p)
      BY <1>1, <2>2, FewerVolumes
    <2>3. ASSUME NEW r \in Requests, CommitVolume(r) PROVE Grows(p)
      <3>1. PICK q \in Projects : /\ TotalOf(VolumesOf(q)') <= project[q].disk
                                  /\ \A x \in Projects \ {q} : VolumesOf(x)' = VolumesOf(x)
        BY <1>1, <2>3, CommitVolumeSums
      <3>2. CASE p = q
        BY <3>1, <3>2
      <3>3. CASE p # q
        <4>1. VolumesOf(p)' = VolumesOf(p)
          BY <3>1, <3>3
        <4> QED
          BY <2>1, <4>1
      <3> QED
        BY <3>2, <3>3
    <2>4. ASSUME NEW r \in Requests, AddVolume(r) PROVE volumes' \subseteq volumes
      BY <2>4 DEF AddVolume, rows
    <2>5. UNCHANGED pvars => volumes' \subseteq volumes
      BY DEF pvars
    <2> HIDE DEF Grows
    <2> QED
      BY <1>1, <2>2, <2>3, <2>4, <2>5, QuietSums DEF Next
  <1>2. Inv' => \A p \in Projects : \A v, w \in {v \in volumes' : v.project = p} : v.name = w.name => v = w
    BY DEF Inv, NamesDiffer
  <1>3. Inv /\ SumsInv /\ Inv' /\ [Next]_pvars =>
          \A p \in Projects : LET after == {v \in volumes' : v.project = p} IN
            /\ TotalOf(after) > TotalOf(VolumesOf(p)) => TotalOf(after) <= project[p].disk
            /\ \A v, w \in after : v.name = w.name => v = w
    BY <1>1, <1>2 DEF VolumesOf
  <1> QED
    BY InitInv, StepInv, InitSums, StepSums, <1>3, PTL DEF Spec, VolumesFit

-----------------------------------------------------------------------------
(* Type correctness. *)

\* What ProjectShape leaves out: who holds a range of VOLUMES, and what each request is about to do.
StepsOK ==
  /\ gap \in [Projects -> Requests \cup {Idle}]
  /\ req \in [Requests -> Steps \cup {Idle}]

LEMMA NextStep ==
  ASSUME StepsOK, NEW r \in Requests, NEW q \in Steps \cup {Idle}, req' = [req EXCEPT ![r] = q]
  PROVE  req' \in [Requests -> Steps \cup {Idle}]
  BY DEF StepsOK

LEMMA RequestSteps ==
  ASSUME Inv, SumsInv, StepsOK, NEW r \in Requests, RequestStep(r)
  PROVE  StepsOK'
  <1> USE DEF StepsOK
  <1>1. gap' \in [Projects -> Requests \cup {Idle}]
    <2>1. ASSUME req[r] # Idle, req[r].op \in {"volumes", "delete"} PROVE req[r].p \in Projects
      BY <2>1 DEF Inv, ProjectHeld, DeleteHeld
    <2>2. CASE DeleteVolumesByProjectID(r) \/ CommitDelete(r)
      BY <2>1, <2>2 DEF DeleteVolumesByProjectID, CommitDelete
    <2>3. CASE Rollback(r)
      BY <2>3 DEF Rollback
    <2> QED
      BY <2>2, <2>3 DEF RequestStep, CreateProject, CommitCreate, UpdateProject, CommitUpdate, DeleteProject,
           TriggerCleanup, AddVolume, CommitVolume, RemoveVolume
  <1>2. CASE CommitCreate(r) \/ CommitUpdate(r) \/ TriggerCleanup(r) \/ CommitVolume(r) \/ Rollback(r)
    <2>1. req' = [req EXCEPT ![r] = Idle]
      BY <1>2 DEF CommitCreate, CommitUpdate, TriggerCleanup, CommitVolume, Rollback
    <2> QED
      BY <1>1, <2>1, NextStep
  <1>3. CASE RemoveVolume(r)
    BY <1>1, <1>3 DEF RemoveVolume
  <1>4. CASE CreateProject(r)
    <2>1. PICK plan \in Plans, disk \in Disks :
            req' = [req EXCEPT ![r] = [op |-> "create", plan |-> plan, disk |-> disk]]
      BY <1>4 DEF CreateProject
    <2>2. [op |-> "create", plan |-> plan, disk |-> disk] \in Steps
      BY DEF Steps
    <2> QED
      BY <1>1, <2>1, <2>2, NextStep
  <1>5. CASE UpdateProject(r)
    <2>1. PICK p \in Projects, plan \in Plans \cup {Keep}, disk \in Disks \cup {Keep} :
            /\ Live(p)
            /\ req' = [req EXCEPT ![r] =
                 [op |-> "update", p |-> p, row |-> SetResourceLimits(SetPlan(project[p], plan), disk),
                  member |-> member[p]]]
      BY <1>5 DEF UpdateProject
    <2>2. SetResourceLimits(SetPlan(project[p], plan), disk) \in Rows
      BY <2>1 DEF Inv, ProjectShape, Live, Exists, SetResourceLimits, SetPlan, Rows
    <2>3. member[p] \in {"none", "active", "removed"}
      BY DEF Inv, ProjectShape
    <2>4. [op |-> "update", p |-> p, row |-> SetResourceLimits(SetPlan(project[p], plan), disk),
           member |-> member[p]] \in Steps
      BY <2>2, <2>3 DEF Steps
    <2> QED
      BY <1>1, <2>1, <2>4, NextStep
  <1>6. CASE DeleteProject(r)
    <2>1. PICK p \in Projects : req' = [req EXCEPT ![r] = [op |-> "volumes", p |-> p]]
      BY <1>6 DEF DeleteProject
    <2>2. [op |-> "volumes", p |-> p] \in Steps
      BY DEF Steps
    <2> QED
      BY <1>1, <2>1, <2>2, NextStep
  <1>7. CASE DeleteVolumesByProjectID(r) \/ CommitDelete(r)
    <2>1. req[r] \in [op : {"volumes", "delete"}, p : Projects]
      BY <1>7 DEF DeleteVolumesByProjectID, CommitDelete, Inv, ProjectHeld, DeleteHeld
    <2>2. PICK op \in {"delete", "cleanup"} : req' = [req EXCEPT ![r].op = op]
      BY <1>7 DEF DeleteVolumesByProjectID, CommitDelete
    <2>3. PICK q : q = [req[r] EXCEPT !.op = op]
      OBVIOUS
    <2>4. q \in [op : {"volumes", "delete", "cleanup"}, p : Projects]
      BY <2>1, <2>3
    <2>5. q \in Steps
      BY <2>4 DEF Steps
    <2>6. req' = [req EXCEPT ![r] = q]
      BY <2>2, <2>3
    <2> QED
      BY <1>1, <2>5, <2>6, NextStep
  <1>8. CASE AddVolume(r)
    <2>1. PICK p \in WithVolumes, name \in VolumeNames, cap \in Capacities :
            /\ Live(p)
            /\ req' = [req EXCEPT ![r] =
                 [op |-> "volume", p |-> p, disk |-> project[p].disk, total |-> GetTotalCapacityByProjectID(p),
                  names |-> {v.name : v \in VolumesOf(p)}, name |-> name, cap |-> cap]]
      BY <1>8 DEF AddVolume, FindByIDForUpdate
    <2>2. p \in Projects /\ cap \in 0 .. W - 1
      BY ProjectsAssumption DEF Projects
    <2>3. project[p].disk \in Disks
      BY <2>1, <2>2 DEF Inv, ProjectShape, Live, Exists, Rows
    <2>4. GetTotalCapacityByProjectID(p) \in 0 .. W - 1
      <3>1. TotalOf(VolumesOf(p)) \in Nat
        BY VolumesFinite, TotalOfSubset
      <3>2. PICK n \in Nat : n = TotalOf(VolumesOf(p))
        BY <3>1
      <3>3. n % W \in 0 .. W - 1
        BY TransactionsAssumption
      <3> QED
        BY <3>2, <3>3 DEF GetTotalCapacityByProjectID
    <2>5. {v.name : v \in VolumesOf(p)} \in SUBSET VolumeNames
      BY DEF SumsInv, VolumesOf, Volumes
    <2>6. PICK total, names, disk : /\ total = GetTotalCapacityByProjectID(p)
                                    /\ names = {v.name : v \in VolumesOf(p)} /\ disk = project[p].disk
      OBVIOUS
    <2>7. [op |-> "volume", p |-> p, disk |-> disk, total |-> total, names |-> names, name |-> name, cap |-> cap]
            \in Steps
      BY <2>2, <2>3, <2>4, <2>5, <2>6 DEF Steps
    <2> QED
      BY <1>1, <2>1, <2>6, <2>7, NextStep
  <1> QED
    BY <1>2, <1>3, <1>4, <1>5, <1>6, <1>7, <1>8 DEF RequestStep

\* Rows, locks and requests of Projects keep their shapes, whatever the bounds.
THEOREM ProjectsTypeCorrect == Spec => []ProjectsTypeOK
  <1>1. Init => StepsOK
    BY DEF Init, StepsOK
  <1>2. Inv /\ SumsInv /\ StepsOK /\ [Next]_pvars => StepsOK'
    <2>1. UNCHANGED pvars /\ StepsOK => StepsOK'
      BY DEF pvars, StepsOK
    <2> QED
      BY <2>1, RequestSteps DEF Next
  <1>3. Inv /\ SumsInv /\ StepsOK => ProjectsTypeOK
    BY DEF Inv, ProjectShape, SumsInv, StepsOK, ProjectsTypeOK
  <1> QED
    BY InitInv, StepInv, InitSums, StepSums, <1>1, <1>2, <1>3, PTL DEF Spec

-----------------------------------------------------------------------------
(***************************************************************************)
(* What edits of containers and node ports do to the rows of NETWORKS, for *)
(* any containers, projects, ports, FQDNs and requests.                    *)
(***************************************************************************)

-----------------------------------------------------------------------------
(* What the requests hold. *)

NodeOps == {"trigger", "event", "query", "result"}

\* The variables are functions on rows, containers, projects, names and requests.
NetworkShape ==
  /\ net \in [NetworkIds -> NetworkRows \cup {NoRow}]
  /\ rowLock \in [Containers -> Requests \cup {Idle}]
  /\ portLock \in [ProjectIds -> Requests \cup {Idle}]
  /\ nameLock \in [Names -> Requests \cup {Idle}]
  /\ nreq = [r \in Requests |-> nreq[r]]

\* What an edit wants; only adding and changing a network name a port or an FQDN.
EditForm(q) ==
  /\ q.c \in Containers /\ q.port \in Ports \cup {Keep} /\ q.fqdn \in Names \cup {Nil}
  /\ q.target \in NetworkIds \cup {Nil} /\ q.locked \in BOOLEAN
  /\ q.op = "add" => q.target = Nil /\ q.port # Keep
  /\ q.op = "update" => q.target # Nil
  /\ q.op \notin {"add", "update"} => q.port = Keep /\ q.fqdn = Nil
  /\ DOMAIN q.seen \subseteq NetworkIds
\* The snapshot of an edit is out of date, but not in the container and FQDN of a row.
SeenRows(q) ==
  \A i \in DOMAIN q.seen : /\ q.seen[i] \in NetworkRows /\ NetworkExists(i)
                           /\ q.seen[i].c = q.c /\ net[i].c = q.c /\ q.seen[i].fqdn = net[i].fqdn
\* The check of the FQDN stays true while its lock is held.
LocksHeld(r, q) ==
  /\ rowLock[q.c] = r /\ q.c \notin gone
  /\ q.port # Keep => portLock[ProjectOf[q.c]] = r
  /\ q.fqdn # Nil => nameLock[q.fqdn] = r /\ ~ CheckFQDNExistsForProject(q.c, q.fqdn, Self(q))
  /\ q.target # Nil => q.target \in DOMAIN q.seen
  /\ q.op = "add" => DOMAIN q.seen = {}
NodeForm(q) ==
  /\ q.c \in Containers
  /\ q.target \in NetworkIds /\ NetworkExists(q.target) /\ net[q.target].c = q.c
  /\ q.op \in {"event", "query"} => q.event \in Events
  /\ q.op = "result" => q.result.ip \in Events \cup {Empty} /\ q.result.expires \in Events \cup {Empty}

NetworkHeld(r) ==
  nreq[r] # Idle =>
    /\ nreq[r].op \in Edits \cup NodeOps
    /\ nreq[r].op \in Edits => EditForm(nreq[r]) /\ SeenRows(nreq[r])
    /\ nreq[r].op \in Edits /\ nreq[r].locked => LocksHeld(r, nreq[r])
    /\ nreq[r].op \in NodeOps => NodeForm(nreq[r])

EditFormInv == NetworkShape /\ (\A r \in Requests : NetworkHeld(r)) /\ FQDNExclusive

LEMMA InitEditForm == NetworksInit => EditFormInv
  BY DEF NetworksInit, EditFormInv, NetworkShape, NetworkHeld, FQDNExclusive, NetworkExists, ProjectIds, NetworkIds

-----------------------------------------------------------------------------
(* NetworkSteps that write rows. *)

\* No row goes, changes its container or FQDN, or comes to life again.
NetworkRowsStay ==
  \A i \in NetworkIds : NetworkExists(i) =>
    /\ net'[i] # NoRow /\ net'[i].c = net[i].c /\ net'[i].fqdn = net[i].fqdn
    /\ net'[i].live => net[i].live

\* What request s holds survives a step of another one: its locks stay, and no row is added
\* with an FQDN that it has locked.
LEMMA OthersHeld ==
  ASSUME EditFormInv, NEW s \in Requests, nreq'[s] = nreq[s], NetworkRowsStay,
         \A i \in NetworkIds : ~ NetworkExists(i) /\ net'[i] # NoRow /\ net'[i].fqdn \in Names
                                 => nameLock[net'[i].fqdn] # s,
         \A c \in Containers : rowLock[c] = s => rowLock'[c] = s /\ (c \notin gone => c \notin gone'),
         \A p \in ProjectIds : portLock[p] = s => portLock'[p] = s,
         \A f \in Names : nameLock[f] = s => nameLock'[f] = s
  PROVE  NetworkHeld(s)'
  <1> SUFFICES ASSUME nreq[s] # Idle PROVE NetworkHeld(s)'
    BY DEF NetworkHeld
  <1>1. PICK q : q = nreq[s] /\ q = nreq'[s]
    OBVIOUS
  <1>2. /\ q.op \in Edits \cup NodeOps
        /\ q.op \in Edits => EditForm(q) /\ SeenRows(q)
        /\ q.op \in Edits /\ q.locked => LocksHeld(s, q)
        /\ q.op \in NodeOps => NodeForm(q)
    BY <1>1 DEF EditFormInv, NetworkHeld
  <1>3. q.op \in Edits => EditForm(q)' /\ SeenRows(q)'
    BY <1>2 DEF EditForm, SeenRows, NetworkRowsStay, NetworkExists
  <1>4. q.op \in NodeOps => NodeForm(q)'
    BY <1>2 DEF NodeForm, NetworkRowsStay, NetworkExists
  <1>5. ASSUME q.op \in Edits, q.locked PROVE LocksHeld(s, q)'
    <2>1. LocksHeld(s, q) /\ EditForm(q)
      BY <1>2, <1>5
    <2>2. ProjectOf[q.c] \in ProjectIds
      BY <2>1 DEF EditForm, ProjectIds
    <2>3. ASSUME q.fqdn # Nil PROVE ~ CheckFQDNExistsForProject(q.c, q.fqdn, Self(q))'
      <3>1. q.fqdn \in Names /\ nameLock[q.fqdn] = s
        BY <2>1, <2>3 DEF EditForm, LocksHeld
      <3>2. ASSUME NEW i \in NetworkIds \ Self(q), net'[i] # NoRow, net'[i].fqdn = q.fqdn
            PROVE  ProjectOf[net'[i].c] = ProjectOf[q.c] /\ ~ net'[i].live
        <4>1. NetworkExists(i) /\ net[i].fqdn = q.fqdn
          BY <3>1, <3>2 DEF NetworkRowsStay, NetworkExists
        <4>2. ProjectOf[net[i].c] = ProjectOf[q.c] /\ ~ net[i].live
          BY <2>1, <2>3, <4>1 DEF LocksHeld, CheckFQDNExistsForProject, ProjectOfRow
        <4> QED
          BY <4>1, <4>2 DEF NetworkRowsStay
      <3>3. ASSUME CheckFQDNExistsForProject(q.c, q.fqdn, Self(q))' PROVE FALSE
        <4>1. PICK i \in NetworkIds \ Self(q) :
                /\ net'[i] # NoRow /\ net'[i].fqdn = q.fqdn
                /\ ProjectOf[net'[i].c] = ProjectOf[q.c] => net'[i].live
          BY <3>3 DEF CheckFQDNExistsForProject, NetworkExists, ProjectOfRow, Self
        <4> QED
          BY <3>2, <4>1
      <3> QED
        BY <3>3
    <2> QED
      BY <2>1, <2>2, <2>3 DEF LocksHeld, EditForm
  <1> QED
    BY <1>1, <1>2, <1>3, <1>4, <1>5 DEF NetworkHeld

\* The same for a step that leaves the rows, and the locks of s, alone.
LEMMA OthersHeldStill ==
  ASSUME EditFormInv, NEW s \in Requests, nreq'[s] = nreq[s], UNCHANGED <<net, gone>>,
         \A c \in Containers : rowLock[c] = s => rowLock'[c] = s,
         \A p \in ProjectIds : portLock[p] = s => portLock'[p] = s,
         \A f \in Names : nameLock[f] = s => nameLock'[f] = s
  PROVE  NetworkHeld(s)'
  BY OthersHeld DEF NetworkRowsStay, NetworkExists

\* FQDNs of the rows stay exclusive when no row is added.
LEMMA SameNames ==
  ASSUME EditFormInv, NetworkRowsStay, \A i \in NetworkIds : ~ NetworkExists(i) => net'[i] = NoRow
  PROVE  FQDNExclusive'
  BY DEF EditFormInv, NetworkRowsStay, FQDNExclusive, NetworkExists, ProjectOfRow, LiveNetwork

-----------------------------------------------------------------------------
(* Edits. *)

EditStart(r) == AddNetwork(r) \/ UpdateNetwork(r) \/ DeleteNetwork(r) \/ DropContainer(r) \/ EditOther(r)

\* An edit starts with a snapshot that is up to date, and no lock.
LEMMA EditStartIs ==
  ASSUME EditFormInv, NEW r \in Requests, EditStart(r)
  PROVE  \E q : /\ q.op \in Edits /\ EditForm(q) /\ ~ q.locked /\ SeenRows(q)
                /\ DOMAIN q.seen = NetworksOf(q.c) /\ \A i \in NetworksOf(q.c) : q.seen[i] = net[i]
                /\ nreq[r] = Idle /\ nreq' = [nreq EXCEPT ![r] = q] /\ Overlaps(q.c, OtherRequests(q.c))
                /\ q.c \notin gone /\ UNCHANGED <<net, gone, locks, tekton>>
  <1>1. PICK op \in Edits, c \in Containers, target \in NetworkIds \cup {Nil}, port \in Ports \cup {Keep},
             fqdn \in Names \cup {Nil} :
          /\ Begin(r, op, c, target, port, fqdn)
          /\ op = "add" => target = Nil /\ port # Keep
          /\ op = "update" => target # Nil
          /\ op \notin {"add", "update"} => port = Keep /\ fqdn = Nil
    <2>1. \A i \in NetworkIds : LiveNetwork(i) => net[i].c \in Containers /\ i # Nil
      BY NetworksAssumption DEF EditFormInv, NetworkShape, LiveNetwork, NetworkExists, NetworkRows
    <2>2. CASE AddNetwork(r)
      BY <2>2, NetworksAssumption DEF AddNetwork, Edits
    <2>3. CASE UpdateNetwork(r)
      BY <2>1, <2>3 DEF UpdateNetwork, Edits
    <2>4. CASE DeleteNetwork(r)
      BY <2>1, <2>4 DEF DeleteNetwork, Edits
    <2>5. CASE DropContainer(r)
      BY <2>5 DEF DropContainer, Edits
    <2>6. CASE EditOther(r)
      BY <2>6 DEF EditOther, Edits
    <2> QED
      BY <2>2, <2>3, <2>4, <2>5, <2>6 DEF EditStart
  <1> DEFINE q == [op |-> op, locked |-> FALSE, c |-> c, target |-> target, port |-> port, fqdn |-> fqdn,
                   seen |-> [i \in NetworksOf(c) |-> net[i]]]
  <1>2. /\ nreq[r] = Idle /\ c \notin gone /\ nreq' = [nreq EXCEPT ![r] = q]
        /\ Overlaps(c, OtherRequests(c)) /\ UNCHANGED <<net, gone, locks, tekton>>
    BY <1>1 DEF Begin
  <1>3. q.c = c /\ q.op = op /\ ~ q.locked /\ q.seen = [i \in NetworksOf(c) |-> net[i]]
    OBVIOUS
  <1>4. EditForm(q)
    BY <1>1 DEF EditForm, NetworksOf
  <1>5. SeenRows(q)
    BY DEF SeenRows, NetworksOf, LiveNetwork, NetworkExists, EditFormInv, NetworkShape
  <1> HIDE DEF q
  <1> QED
    BY <1>2, <1>3, <1>4, <1>5

LEMMA EditStartForm ==
  ASSUME EditFormInv, NEW r \in Requests, EditStart(r)
  PROVE  EditFormInv'
  <1>1. PICK q : /\ q.op \in Edits /\ EditForm(q) /\ ~ q.locked /\ SeenRows(q)
                 /\ nreq' = [nreq EXCEPT ![r] = q] /\ UNCHANGED <<net, gone, locks, tekton>>
    BY EditStartIs
  <1>2. nreq'[r] = q /\ \A s \in Requests \ {r} : nreq'[s] = nreq[s]
    BY <1>1 DEF EditFormInv, NetworkShape
  <1>3. UNCHANGED <<net, gone, rowLock, portLock, nameLock>>
    BY <1>1 DEF locks
  <1>4. EditForm(q)' /\ SeenRows(q)'
    BY <1>1, <1>3 DEF EditForm, SeenRows, NetworkExists
  <1>5. NetworkHeld(r)'
    BY <1>1, <1>2, <1>4 DEF NetworkHeld, Edits, NodeOps
  <1>6. \A s \in Requests : NetworkHeld(s)'
    BY <1>2, <1>3, <1>5, OthersHeldStill
  <1>7. NetworkShape'
    BY <1>1, <1>3 DEF EditFormInv, NetworkShape
  <1> QED
    BY <1>3, <1>6, <1>7 DEF EditFormInv, FQDNExclusive, NetworkExists, ProjectOfRow, LiveNetwork

\* The locks are taken together with the checks, and the FQDN is free then.
LEMMA LockForm ==
  ASSUME EditFormInv, NEW r \in Requests, LockAndCheck(r)
  PROVE  EditFormInv'
  <1>1. PICK q : q = nreq[r]
    OBVIOUS
  <1>2. /\ q # Idle /\ q.op \in Edits /\ EditForm(q) /\ SeenRows(q) /\ ~ q.locked
        /\ rowLock[q.c] = Idle /\ q.c \notin gone /\ rowLock' = [rowLock EXCEPT ![q.c] = r]
        /\ q.port # Keep => portLock[ProjectOf[q.c]] = Idle
        /\ q.fqdn # Nil => nameLock[q.fqdn] = Idle /\ ~ CheckFQDNExistsForProject(q.c, q.fqdn, Self(q))
        /\ q.op = "add" => MaxNetworksPerContainer(Cardinality(DOMAIN q.seen))
        /\ q.target # Nil => q.target \in DOMAIN q.seen
        /\ portLock' = IF q.port = Keep THEN portLock ELSE [portLock EXCEPT ![ProjectOf[q.c]] = r]
        /\ nameLock' = IF q.fqdn = Nil THEN nameLock ELSE [nameLock EXCEPT ![q.fqdn] = r]
        /\ UNCHANGED <<net, gone, tekton, overlapped>>
    BY <1>1 DEF EditFormInv, NetworkHeld, LockAndCheck, Editing
  <1>3. nreq' = [nreq EXCEPT ![r] = [q EXCEPT !.locked = TRUE]]
    BY <1>1 DEF LockAndCheck
  <1>4. PICK l : l = [q EXCEPT !.locked = TRUE]
    OBVIOUS
  <1>5. /\ l.op = q.op /\ l.c = q.c /\ l.target = q.target /\ l.port = q.port /\ l.fqdn = q.fqdn /\ l.seen = q.seen
        /\ Self(l) = Self(q)
    BY <1>4 DEF Self
  <1>6. nreq'[r] = l /\ \A s \in Requests \ {r} : nreq'[s] = nreq[s]
    BY <1>3, <1>4 DEF EditFormInv, NetworkShape
  <1>7. q.op = "add" => DOMAIN q.seen = {}
    <2>1. IsFiniteSet(NetworkIds)
      BY FS_Interval, NetworksAssumption DEF NetworkIds
    <2>2. IsFiniteSet(DOMAIN q.seen)
      BY <1>2, <2>1, FS_Subset DEF EditForm
    <2> QED
      BY <1>2, <2>2, FS_CardinalityType, FS_EmptySet DEF MaxNetworksPerContainer
  <1>8. /\ q.c \in Containers /\ ProjectOf[q.c] \in ProjectIds /\ q.port \in Ports \cup {Keep}
        /\ q.fqdn \in Names \cup {Nil}
    BY <1>2 DEF EditForm, ProjectIds
  <1>9. /\ rowLock' \in [Containers -> Requests \cup {Idle}] /\ rowLock'[q.c] = r
        /\ portLock' \in [ProjectIds -> Requests \cup {Idle}]
        /\ q.port # Keep => portLock'[ProjectOf[q.c]] = r
        /\ nameLock' \in [Names -> Requests \cup {Idle}] /\ (q.fqdn # Nil => nameLock'[q.fqdn] = r)
    BY <1>2, <1>8, NetworksAssumption DEF EditFormInv, NetworkShape
  <1>10. ASSUME NEW s \in Requests \ {r} PROVE NetworkHeld(s)'
    <2>1. \A c \in Containers : rowLock[c] = s => rowLock'[c] = s
      BY <1>2, <1>8, TransactionsAssumption DEF EditFormInv, NetworkShape
    <2>2. \A p \in ProjectIds : portLock[p] = s => portLock'[p] = s
      BY <1>2, <1>8, TransactionsAssumption DEF EditFormInv, NetworkShape
    <2>3. \A f \in Names : nameLock[f] = s => nameLock'[f] = s
      BY <1>2, <1>8, TransactionsAssumption, NetworksAssumption DEF EditFormInv, NetworkShape
    <2> QED
      BY <1>2, <1>6, <2>1, <2>2, <2>3, OthersHeldStill
  <1>11. EditForm(l)' /\ SeenRows(l)'
    <2>1. l.locked \in BOOLEAN
      BY <1>2, <1>4 DEF EditForm
    <2> QED
      BY <1>2, <1>5, <2>1 DEF EditForm, SeenRows, NetworkExists
  <1>12. LocksHeld(r, l)'
    <2>1. q.fqdn # Nil => ~ CheckFQDNExistsForProject(q.c, q.fqdn, Self(q))'
      BY <1>2 DEF CheckFQDNExistsForProject, NetworkExists, ProjectOfRow, Self
    <2>2. l.fqdn # Nil => ~ CheckFQDNExistsForProject(l.c, l.fqdn, Self(l))'
      BY <1>5, <2>1 DEF CheckFQDNExistsForProject, Self
    <2> QED
      BY <1>2, <1>5, <1>7, <1>9, <2>2 DEF LocksHeld
  <1>13. NetworkHeld(r)'
    BY <1>2, <1>5, <1>6, <1>11, <1>12 DEF NetworkHeld, Edits, NodeOps
  <1>14. NetworkShape'
    BY <1>2, <1>3, <1>9 DEF EditFormInv, NetworkShape
  <1> QED
    BY <1>2, <1>10, <1>13, <1>14 DEF EditFormInv, FQDNExclusive, NetworkExists, ProjectOfRow, LiveNetwork

\* What Save makes of the rows, from the networks that the edit keeps.
LEMMA SaveIs ==
  ASSUME EditFormInv, NEW r \in Requests, Save(r), NEW q, q = nreq[r]
  PROVE  /\ q # Idle /\ q.op \in Edits /\ q.locked /\ EditForm(q) /\ SeenRows(q) /\ LocksHeld(r, q)
         /\ \A i \in NetworkIds : NetworkExists(i) =>
              /\ net'[i] \in NetworkRows /\ net'[i] # NoRow
              /\ net'[i].c = net[i].c /\ net'[i].fqdn = net[i].fqdn
              /\ net'[i].event = net[i].event /\ net'[i].expires = net[i].expires
              /\ net'[i].live = (net[i].live /\ i \notin Removed(q))
              /\ net'[i].ip = IF i \in DOMAIN Kept(q) THEN q.seen[i].ip ELSE net[i].ip
              /\ net'[i].port = IF i \in DOMAIN Kept(q)
                                THEN IF q.op = "update" /\ i = q.target THEN PortAfter(q) ELSE q.seen[i].port
                                ELSE net[i].port
         /\ \A i \in NetworkIds : ~ NetworkExists(i) /\ net'[i] # NoRow => net'[i] \in Added(q)
         /\ \A i, j \in NetworkIds : ~ NetworkExists(i) /\ ~ NetworkExists(j) /\ net'[i] # NoRow /\ net'[j] # NoRow
              => i = j
         /\ \A row \in Added(q) : row \in NetworkRows /\ MayInsert(r, row)
         /\ Added(q) # {} => \E i \in NetworkIds : ~ NetworkExists(i) /\ net'[i] # NoRow
         /\ DOMAIN net' = NetworkIds
  <1>1. /\ q # Idle /\ q.op \in Edits /\ q.locked /\ EditForm(q) /\ SeenRows(q) /\ LocksHeld(r, q)
    BY DEF EditFormInv, NetworkHeld, Save, Editing
  <1>2. /\ \A row \in Added(q) : MayInsert(r, row)
        /\ \/ Added(q) = {} /\ net' = SaveNetworks(q)
           \/ \E row \in Added(q), i \in NetworkIds : /\ IsNextId(i)
                                                      /\ net' = [SaveNetworks(q) EXCEPT ![i] = row]
    BY DEF Save
  <1>3. DOMAIN Kept(q) \subseteq DOMAIN q.seen
    BY DEF Kept
  <1>4. Replaces(q) => q.op = "update" /\ q.target \in DOMAIN q.seen
    BY <1>1 DEF Replaces, EditForm, LocksHeld
  <1>5. q.op = "update" /\ q.target \in DOMAIN q.seen => PortAfter(q) \in Ports
    BY <1>1 DEF PortAfter, EditForm, SeenRows, NetworkRows
  <1>6. ASSUME NEW i \in DOMAIN Kept(q)
        PROVE  /\ Kept(q)[i].fqdn = net[i].fqdn /\ Kept(q)[i].ip = q.seen[i].ip
               /\ Kept(q)[i].port = IF q.op = "update" /\ i = q.target THEN PortAfter(q) ELSE q.seen[i].port
               /\ Kept(q)[i].ip \in Events \cup {Nil, Empty} /\ Kept(q)[i].port \in Ports
    <2>1. /\ q.seen[i] \in NetworkRows /\ q.seen[i].fqdn = net[i].fqdn
          /\ i \notin IF q.op = "remove" \/ Replaces(q) THEN {q.target} ELSE {}
      BY <1>1, <1>3, <1>6 DEF SeenRows, Kept
    <2>2. CASE q.op = "update" /\ i = q.target
      <3>1. Kept(q)[i] = [q.seen[i] EXCEPT !.port = PortAfter(q), !.fqdn = IF q.fqdn = Nil THEN @ ELSE q.fqdn]
        BY <1>6, <2>2 DEF Kept
      <3>2. q.fqdn = q.seen[i].fqdn
        BY <2>1, <2>2 DEF Replaces, FQDNChanged
      <3> QED
        BY <1>3, <1>5, <1>6, <2>1, <2>2, <3>1, <3>2 DEF NetworkRows
    <2>3. CASE ~ (q.op = "update" /\ i = q.target)
      <3>1. Kept(q)[i] = q.seen[i]
        BY <1>6, <2>3 DEF Kept
      <3> QED
        BY <2>1, <2>3, <3>1 DEF NetworkRows
    <2> QED
      BY <2>2, <2>3
  <1>7. \A row \in Added(q) : row \in NetworkRows
    <2>1. q.c \in Containers /\ q.fqdn \in Names \cup {Nil} /\ (q.op = "add" => q.port \in Ports)
      BY <1>1 DEF EditForm
    <2>2. Replaces(q) => PortAfter(q) \in Ports
      BY <1>4, <1>5
    <2>3. \A c \in Containers, port \in Ports, fqdn \in Names \cup {Nil} : NewNetwork(c, port, fqdn) \in NetworkRows
      BY DEF NewNetwork, NetworkRows
    <2> QED
      BY <2>1, <2>2, <2>3 DEF Added
  <1>8. ASSUME NEW i \in NetworkIds, NetworkExists(i)
        PROVE  LET row == SaveNetworks(q)[i] IN
              /\ row \in NetworkRows
              /\ row.c = net[i].c /\ row.fqdn = net[i].fqdn
              /\ row.event = net[i].event /\ row.expires = net[i].expires
              /\ row.live = (net[i].live /\ i \notin Removed(q))
              /\ row.ip = IF i \in DOMAIN Kept(q) THEN q.seen[i].ip ELSE net[i].ip
              /\ row.port = IF i \in DOMAIN Kept(q)
                                THEN IF q.op = "update" /\ i = q.target THEN PortAfter(q) ELSE q.seen[i].port
                                ELSE net[i].port
    <2>1. net[i] \in NetworkRows
      BY <1>8 DEF EditFormInv, NetworkShape, NetworkExists
    <2> DEFINE kept == [net[i] EXCEPT !.port = Kept(q)[i].port, !.fqdn = Kept(q)[i].fqdn, !.ip = Kept(q)[i].ip]
               saved == IF i \in DOMAIN Kept(q) THEN kept ELSE net[i]
    <2>2. SaveNetworks(q)[i] = IF i \in Removed(q) THEN [saved EXCEPT !.live = FALSE] ELSE saved
      BY <1>8 DEF SaveNetworks
    <2>3. /\ saved \in NetworkRows /\ saved.c = net[i].c /\ saved.fqdn = net[i].fqdn
          /\ saved.event = net[i].event /\ saved.expires = net[i].expires /\ saved.live = net[i].live
          /\ saved.ip = IF i \in DOMAIN Kept(q) THEN q.seen[i].ip ELSE net[i].ip
          /\ saved.port = IF i \in DOMAIN Kept(q)
                                THEN IF q.op = "update" /\ i = q.target THEN PortAfter(q) ELSE q.seen[i].port
                                ELSE net[i].port
      <3>1. CASE i \in DOMAIN Kept(q)
        <4>1. saved = kept
          BY <3>1
        <4>2. /\ kept \in NetworkRows /\ kept.c = net[i].c /\ kept.fqdn = net[i].fqdn
              /\ kept.event = net[i].event /\ kept.expires = net[i].expires /\ kept.live = net[i].live
              /\ kept.ip = Kept(q)[i].ip /\ kept.port = Kept(q)[i].port
          BY <1>6, <2>1, <3>1 DEF NetworkRows
        <4> HIDE DEF saved, kept
        <4> QED
          BY <1>6, <3>1, <4>1, <4>2
      <3>2. CASE i \notin DOMAIN Kept(q)
        BY <2>1, <3>2
      <3> QED
        BY <3>1, <3>2
    <2> HIDE DEF saved
    <2>4. /\ [saved EXCEPT !.live = FALSE] \in NetworkRows
          /\ \A row : row = [saved EXCEPT !.live = FALSE] =>
               /\ row.c = saved.c /\ row.fqdn = saved.fqdn /\ row.event = saved.event /\ row.live = FALSE
               /\ row.expires = saved.expires /\ row.ip = saved.ip /\ row.port = saved.port
      BY <2>3 DEF NetworkRows
    <2>5. net[i].live \in BOOLEAN
      BY <2>1 DEF NetworkRows
    <2>6. CASE i \in Removed(q)
      <3>1. SaveNetworks(q)[i] = [saved EXCEPT !.live = FALSE]
        BY <2>2, <2>6
      <3> QED
        BY <2>3, <2>4, <2>6, <3>1
    <2>7. CASE i \notin Removed(q)
      <3>1. SaveNetworks(q)[i] = saved
        BY <2>2, <2>7
      <3> QED
        BY <2>3, <2>5, <2>7, <3>1
    <2> QED
      BY <2>6, <2>7
  <1>9. \A i \in NetworkIds : ~ NetworkExists(i) => SaveNetworks(q)[i] = NoRow
    BY DEF SaveNetworks
  <1>10. \/ Added(q) = {} /\ net' = SaveNetworks(q)
         \/ \E row \in Added(q), k \in NetworkIds : ~ NetworkExists(k) /\ net' = [SaveNetworks(q) EXCEPT ![k] = row]
    BY <1>2 DEF IsNextId
  <1>11. DOMAIN SaveNetworks(q) = NetworkIds /\ SaveNetworks(q) = [i \in NetworkIds |-> SaveNetworks(q)[i]]
    BY DEF SaveNetworks
  <1>12. CASE Added(q) = {} /\ net' = SaveNetworks(q)
    BY <1>1, <1>8, <1>9, <1>11, <1>12, NoNetworkAssumption
  <1>13. ASSUME NEW row \in Added(q), NEW k \in NetworkIds, ~ NetworkExists(k),
                net' = [SaveNetworks(q) EXCEPT ![k] = row]
         PROVE  /\ net'[k] = row /\ row # NoRow /\ DOMAIN net' = NetworkIds
                /\ \A i \in NetworkIds \ {k} : net'[i] = SaveNetworks(q)[i]
    BY <1>7, <1>11, <1>13, NoNetworkAssumption
  <1> QED
    BY <1>1, <1>2, <1>7, <1>8, <1>9, <1>10, <1>12, <1>13, NoNetworkAssumption

\* A step that ends request r gives its locks back, and no others.
LEMMA UnlockedIs ==
  ASSUME EditFormInv, NEW r \in Requests, Unlocked(r)
  PROVE  /\ rowLock' \in [Containers -> Requests \cup {Idle}]
         /\ portLock' \in [ProjectIds -> Requests \cup {Idle}]
         /\ nameLock' \in [Names -> Requests \cup {Idle}]
         /\ \A s \in Requests \ {r} :
              /\ \A c \in Containers : rowLock[c] = s <=> rowLock'[c] = s
              /\ \A p \in ProjectIds : portLock[p] = s <=> portLock'[p] = s
              /\ \A f \in Names : nameLock[f] = s <=> nameLock'[f] = s
  BY TransactionsAssumption DEF Unlocked, EditFormInv, NetworkShape

\* The row that Save adds has an FQDN that the edit has checked and locked.
LEMMA SaveForm ==
  ASSUME EditFormInv, NEW r \in Requests, Save(r)
  PROVE  EditFormInv'
  <1>1. PICK q : q = nreq[r]
    OBVIOUS
  <1>2. /\ q \in {nreq[r]} /\ q.op \in Edits /\ EditForm(q) /\ SeenRows(q) /\ LocksHeld(r, q)
        /\ \A i \in NetworkIds : NetworkExists(i) =>
              /\ net'[i] \in NetworkRows /\ net'[i] # NoRow
              /\ net'[i].c = net[i].c /\ net'[i].fqdn = net[i].fqdn
              /\ net'[i].live = (net[i].live /\ i \notin Removed(q))
        /\ \A i \in NetworkIds : ~ NetworkExists(i) /\ net'[i] # NoRow => net'[i] \in Added(q)
        /\ \A i, j \in NetworkIds : ~ NetworkExists(i) /\ ~ NetworkExists(j) /\ net'[i] # NoRow /\ net'[j] # NoRow
              => i = j
        /\ \A row \in Added(q) : row \in NetworkRows
        /\ DOMAIN net' = NetworkIds
    BY <1>1, SaveIs
  <1>3. /\ nreq' = [nreq EXCEPT ![r] = Idle] /\ Unlocked(r)
        /\ gone' = gone \/ gone' = gone \cup {q.c}
    BY <1>1 DEF Save
  <1>4. nreq'[r] = Idle /\ \A s \in Requests \ {r} : nreq'[s] = nreq[s]
    BY <1>3 DEF EditFormInv, NetworkShape
  <1>5. \A row \in Added(q) : row.c = q.c /\ row.fqdn = q.fqdn
    BY DEF Added, NewNetwork
  <1>6. NetworkRowsStay
    BY <1>2 DEF NetworkRowsStay
  <1>7. ASSUME NEW s \in Requests \ {r} PROVE NetworkHeld(s)'
    <2>1. ASSUME NEW i \in NetworkIds, ~ NetworkExists(i), net'[i] # NoRow, net'[i].fqdn \in Names
          PROVE  nameLock[net'[i].fqdn] # s
      <3>1. net'[i].fqdn = q.fqdn /\ q.fqdn # Nil
        BY <1>2, <1>5, <2>1, NetworksAssumption
      <3> QED
        BY <1>2, <3>1 DEF LocksHeld
    <2>2. \A c \in Containers : rowLock[c] = s => rowLock'[c] = s /\ (c \notin gone => c \notin gone')
      BY <1>2, <1>3, UnlockedIs DEF LocksHeld
    <2> QED
      BY <1>3, <1>4, <1>6, <2>1, <2>2, OthersHeld, UnlockedIs
  <1>8. NetworkHeld(r)'
    BY <1>4 DEF NetworkHeld
  <1>9. FQDNExclusive'
    <2> SUFFICES ASSUME NEW i \in NetworkIds, NEW j \in NetworkIds, i # j, net'[i] # NoRow, net'[j] # NoRow,
                        net'[i].fqdn # Nil, net'[i].fqdn = net'[j].fqdn
                 PROVE  /\ ProjectOf[net'[i].c] = ProjectOf[net'[j].c]
                        /\ ~ (net'[i].live /\ net'[j].live)
      BY DEF FQDNExclusive, NetworkExists, LiveNetwork, ProjectOfRow
    <2>1. ASSUME NEW m \in NetworkIds, NEW o \in NetworkIds, ~ NetworkExists(m), NetworkExists(o), net'[m] # NoRow,
                 net'[m].fqdn # Nil, net'[m].fqdn = net'[o].fqdn
          PROVE  ProjectOf[net'[m].c] = ProjectOf[net'[o].c] /\ ~ net'[o].live
      <3>1. net'[m] \in Added(q) /\ net'[m].c = q.c /\ net'[m].fqdn = q.fqdn /\ q.fqdn # Nil
        BY <1>2, <1>5, <2>1
      <3>2. o \notin Self(q)
        <4>1. CASE q.op = "add"
          BY <1>2, <4>1 DEF EditForm, Self
        <4>2. CASE Replaces(q)
          <5>1. q.target \in DOMAIN q.seen /\ q.target # Nil
            BY <1>2, <4>2 DEF Replaces, EditForm, LocksHeld
          <5>2. net[q.target].fqdn # q.fqdn
            BY <1>2, <4>2, <5>1 DEF SeenRows, Replaces, FQDNChanged
          <5> QED
            BY <1>2, <2>1, <3>1, <5>1, <5>2 DEF Self
        <4> QED
          BY <3>1, <4>1, <4>2 DEF Added
      <3>3. NetworkExists(o) /\ net[o].fqdn = q.fqdn
        BY <1>2, <2>1, <3>1
      <3>4. ~ CheckFQDNExistsForProject(q.c, q.fqdn, Self(q))
        BY <1>2, <3>1 DEF LocksHeld
      <3>5. ProjectOf[net[o].c] = ProjectOf[q.c] /\ ~ net[o].live
        BY <3>2, <3>3, <3>4 DEF CheckFQDNExistsForProject, ProjectOfRow
      <3> QED
        BY <1>2, <2>1, <3>1, <3>5
    <2>2. CASE NetworkExists(i) /\ NetworkExists(j)
      <3>1. net[i].fqdn # Nil /\ net[i].fqdn = net[j].fqdn
        BY <1>2, <2>2
      <3>2. ProjectOf[net[i].c] = ProjectOf[net[j].c] /\ ~ (net[i].live /\ net[j].live)
        BY <2>2, <3>1 DEF EditFormInv, FQDNExclusive, LiveNetwork, ProjectOfRow
      <3> QED
        BY <1>2, <2>2, <3>2
    <2>3. CASE NetworkExists(i) /\ ~ NetworkExists(j)
      BY <2>1, <2>3
    <2>4. CASE ~ NetworkExists(i) /\ NetworkExists(j)
      BY <2>1, <2>4
    <2>5. CASE ~ NetworkExists(i) /\ ~ NetworkExists(j)
      BY <1>2, <2>5
    <2> QED
      BY <2>2, <2>3, <2>4, <2>5
  <1>10. NetworkShape'
    <2>1. \A i \in NetworkIds : net'[i] \in NetworkRows \cup {NoRow}
      BY <1>2 DEF NetworkExists
    <2>2. net' \in [NetworkIds -> NetworkRows \cup {NoRow}]
      <3>1. net' = [i \in NetworkIds |-> net'[i]]
        <4>1. CASE net' = SaveNetworks(q)
          BY <4>1 DEF SaveNetworks
        <4>2. CASE \E row, i : net' = [SaveNetworks(q) EXCEPT ![i] = row]
          BY <4>2 DEF SaveNetworks
        <4> QED
          BY <1>1, <4>1, <4>2 DEF Save
      <3> QED
        BY <2>1, <3>1
    <2>3. nreq' = [s \in Requests |-> nreq'[s]]
      BY <1>3 DEF EditFormInv, NetworkShape
    <2> QED
      BY <1>3, <2>2, <2>3, UnlockedIs DEF NetworkShape
  <1> QED
    BY <1>7, <1>8, <1>9, <1>10 DEF EditFormInv

\* A request that gives up.
LEMMA AbortForm ==
  ASSUME EditFormInv, NEW r \in Requests, AbortEdit(r)
  PROVE  EditFormInv'
  <1>1. /\ nreq' = [nreq EXCEPT ![r] = Idle] /\ Unlocked(r) /\ UNCHANGED <<net, gone>>
    BY DEF AbortEdit
  <1>2. nreq'[r] = Idle /\ \A s \in Requests \ {r} : nreq'[s] = nreq[s]
    BY <1>1 DEF EditFormInv, NetworkShape
  <1>3. \A s \in Requests \ {r} : NetworkHeld(s)'
    BY <1>1, <1>2, OthersHeldStill, UnlockedIs
  <1>4. NetworkHeld(r)'
    BY <1>2 DEF NetworkHeld
  <1>5. NetworkShape'
    BY <1>1, UnlockedIs DEF EditFormInv, NetworkShape
  <1> QED
    BY <1>1, <1>3, <1>4, <1>5 DEF EditFormInv, FQDNExclusive, NetworkExists, ProjectOfRow, LiveNetwork

-----------------------------------------------------------------------------
(* Node ports. *)

\* A step of a node port that writes no row: the request goes on with another form.
NodeMove(r) ==
  \E q : /\ q # Idle => q.op \in NodeOps /\ NodeForm(q)
         /\ nreq' = [nreq EXCEPT ![r] = q] /\ UNCHANGED <<net, gone, locks>>

\* One that writes its event or its result into the row.
RowWrite(r) == UpdateNetworkTektonEventID(r) \/ UpdateNetworkNodePortResult(r)

LEMMA NodeMoves ==
  ASSUME EditFormInv, NEW r \in Requests,
         CreateNodePort(r) \/ TriggerNodePortCreation(r) \/ GetNodePort(r) \/ GetPipelineRunResult(r)
  PROVE  NodeMove(r)
  <1>1. CASE CreateNodePort(r)
    <2>1. PICK i \in NetworkIds : /\ LiveNetwork(i)
                                  /\ nreq' = [nreq EXCEPT ![r] = [op |-> "trigger", c |-> net[i].c, target |-> i]]
      BY <1>1 DEF CreateNodePort
    <2>2. net[i].c \in Containers /\ NetworkExists(i)
      BY <2>1 DEF EditFormInv, NetworkShape, LiveNetwork, NetworkExists, NetworkRows
    <2>3. UNCHANGED <<net, gone, locks>>
      BY <1>1 DEF CreateNodePort
    <2> QED
      BY <2>1, <2>2, <2>3 DEF NodeMove, NodeForm, NodeOps
  <1>2. CASE GetNodePort(r)
    <2>1. PICK i \in NetworkIds :
            /\ LiveNetwork(i) /\ net[i].event # Nil
            /\ nreq' = [nreq EXCEPT ![r] = [op |-> "query", c |-> net[i].c, target |-> i, event |-> net[i].event]]
      BY <1>2 DEF GetNodePort
    <2>2. net[i].c \in Containers /\ NetworkExists(i) /\ net[i].event \in Events
      BY <2>1 DEF EditFormInv, NetworkShape, LiveNetwork, NetworkExists, NetworkRows
    <2>3. UNCHANGED <<net, gone, locks>>
      BY <1>2 DEF GetNodePort
    <2> QED
      BY <2>1, <2>2, <2>3 DEF NodeMove, NodeForm, NodeOps
  <1>3. CASE TriggerNodePortCreation(r)
    <2>1. PICK q : q = nreq[r]
      OBVIOUS
    <2>2. q.op \in NodeOps /\ NodeForm(q)
      BY <1>3, <2>1 DEF EditFormInv, NetworkHeld, TriggerNodePortCreation, NodeOps
    <2>3. PICK e \in Events : nreq' = [nreq EXCEPT ![r] = [op |-> "event", c |-> q.c, target |-> q.target, event |-> e]]
      BY <1>3, <2>1 DEF TriggerNodePortCreation
    <2>4. UNCHANGED <<net, gone, locks>>
      BY <1>3 DEF TriggerNodePortCreation
    <2> QED
      BY <2>2, <2>3, <2>4 DEF NodeMove, NodeForm, NodeOps
  <1>4. CASE GetPipelineRunResult(r)
    <2>1. PICK q : q = nreq[r]
      OBVIOUS
    <2>2. q.op \in NodeOps /\ NodeForm(q) /\ q.event \in Events
      BY <1>4, <2>1 DEF EditFormInv, NetworkHeld, GetPipelineRunResult, NodeOps, NodeForm
    <2>3. nreq' = [nreq EXCEPT ![r] =
             IF pipeline[q.event] \in {"succeeded", "failed"}
             THEN [op |-> "result", c |-> q.c, target |-> q.target, result |-> ResultOf(q.event)]
             ELSE Idle]
      BY <1>4, <2>1 DEF GetPipelineRunResult
    <2>4. UNCHANGED <<net, gone, locks>>
      BY <1>4 DEF GetPipelineRunResult
    <2>5. /\ ResultOf(q.event).ip \in Events \cup {Empty} /\ ResultOf(q.event).expires \in Events \cup {Empty}
      BY <2>2 DEF ResultOf
    <2>6. CASE pipeline[q.event] \in {"succeeded", "failed"}
      <3>1. PICK m : m = [op |-> "result", c |-> q.c, target |-> q.target, result |-> ResultOf(q.event)]
        OBVIOUS
      <3>2. m.op = "result" /\ m.c = q.c /\ m.target = q.target /\ m.result = ResultOf(q.event)
        BY <3>1
      <3>3. m.op \in NodeOps /\ NodeForm(m)
        BY <2>2, <2>5, <3>2 DEF NodeForm, NodeOps
      <3>4. nreq' = [nreq EXCEPT ![r] = m]
        BY <2>3, <2>6, <3>1
      <3> QED
        BY <2>4, <3>3, <3>4 DEF NodeMove
    <2>7. CASE pipeline[q.event] \notin {"succeeded", "failed"}
      BY <2>3, <2>4, <2>7 DEF NodeMove
    <2> QED
      BY <2>6, <2>7
  <1> QED
    BY <1>1, <1>2, <1>3, <1>4

LEMMA NodeMoveForm ==
  ASSUME EditFormInv, NEW r \in Requests, NodeMove(r)
  PROVE  EditFormInv'
  <1>1. PICK q : /\ q # Idle => q.op \in NodeOps /\ NodeForm(q)
                 /\ nreq' = [nreq EXCEPT ![r] = q] /\ UNCHANGED <<net, gone, locks>>
    BY DEF NodeMove
  <1>2. nreq'[r] = q /\ \A s \in Requests \ {r} : nreq'[s] = nreq[s]
    BY <1>1 DEF EditFormInv, NetworkShape
  <1>3. UNCHANGED <<net, gone, rowLock, portLock, nameLock>>
    BY <1>1 DEF locks
  <1>4. q # Idle => NodeForm(q)'
    BY <1>1, <1>3 DEF NodeForm, NetworkExists
  <1>5. NetworkHeld(r)'
    BY <1>1, <1>2, <1>4 DEF NetworkHeld, Edits, NodeOps
  <1>6. \A s \in Requests : NetworkHeld(s)'
    BY <1>2, <1>3, <1>5, OthersHeldStill
  <1>7. NetworkShape'
    BY <1>1, <1>3 DEF EditFormInv, NetworkShape
  <1> QED
    BY <1>3, <1>6, <1>7 DEF EditFormInv, FQDNExclusive, NetworkExists, ProjectOfRow, LiveNetwork

\* Only event, address and time of the target's row change.
LEMMA RowWriteIs ==
  ASSUME EditFormInv, NEW r \in Requests, RowWrite(r), NEW q, q = nreq[r]
  PROVE  /\ q.op \in NodeOps /\ NodeForm(q)
         /\ nreq' = [nreq EXCEPT ![r] = Idle]
         /\ UNCHANGED <<gone, rowLock, portLock, nameLock, overlapped>>
         /\ net' \in [NetworkIds -> NetworkRows \cup {NoRow}]
         /\ \A i \in NetworkIds \ {q.target} : net'[i] = net[i]
         /\ net'[q.target] \in NetworkRows /\ net'[q.target].c = net[q.target].c
         /\ net'[q.target].fqdn = net[q.target].fqdn /\ net'[q.target].port = net[q.target].port
         /\ net'[q.target].live = net[q.target].live
         /\ q.op = "event" => /\ net'[q.target].event = q.event /\ net'[q.target].ip = Nil
                              /\ net'[q.target].expires = Nil
         /\ q.op # "event" => /\ q.op = "result" /\ net'[q.target].event = net[q.target].event
                              /\ net'[q.target].ip = q.result.ip
                              /\ net'[q.target].expires = q.result.expires
  <1>1. q.op \in {"event", "result"} /\ NodeForm(q)
    BY DEF EditFormInv, NetworkHeld, RowWrite, UpdateNetworkTektonEventID, UpdateNetworkNodePortResult, NodeOps
  <1>2. /\ nreq' = [nreq EXCEPT ![r] = Idle]
        /\ UNCHANGED <<gone, rowLock, portLock, nameLock, overlapped>>
    BY DEF RowWrite, UpdateNetworkTektonEventID, UpdateNetworkNodePortResult, locks
  <1>3. net[q.target] \in NetworkRows /\ q.target \in NetworkIds
    BY <1>1 DEF EditFormInv, NetworkShape, NodeForm, NetworkExists
  <1>4. CASE UpdateNetworkTektonEventID(r)
    <2>1. PICK row : row = WithEvent(net[q.target], q.event)
      OBVIOUS
    <2>2. /\ row \in NetworkRows /\ row.c = net[q.target].c /\ row.fqdn = net[q.target].fqdn
          /\ row.port = net[q.target].port /\ row.live = net[q.target].live
          /\ row.event = q.event /\ row.ip = Nil /\ row.expires = Nil
      BY <1>1, <1>3, <1>4, <2>1 DEF NodeForm, WithEvent, NetworkRows, UpdateNetworkTektonEventID
    <2>3. net' = [net EXCEPT ![q.target] = row] /\ q.op = "event"
      BY <1>4, <2>1 DEF UpdateNetworkTektonEventID
    <2> QED
      BY <1>1, <1>2, <1>3, <2>2, <2>3 DEF EditFormInv, NetworkShape, NodeOps
  <1>5. CASE UpdateNetworkNodePortResult(r)
    <2>1. PICK row : row = [net[q.target] EXCEPT !.ip = q.result.ip, !.expires = q.result.expires]
      OBVIOUS
    <2>2. /\ row \in NetworkRows /\ row.c = net[q.target].c /\ row.fqdn = net[q.target].fqdn
          /\ row.port = net[q.target].port /\ row.live = net[q.target].live
          /\ row.event = net[q.target].event /\ row.ip = q.result.ip /\ row.expires = q.result.expires
      BY <1>1, <1>3, <1>5, <2>1 DEF NodeForm, NetworkRows, UpdateNetworkNodePortResult
    <2>3. net' = [net EXCEPT ![q.target] = row] /\ q.op = "result"
      BY <1>5, <2>1 DEF UpdateNetworkNodePortResult
    <2> QED
      BY <1>1, <1>2, <1>3, <2>2, <2>3 DEF EditFormInv, NetworkShape, NodeOps
  <1> QED
    BY <1>4, <1>5 DEF RowWrite

LEMMA RowWriteForm ==
  ASSUME EditFormInv, NEW r \in Requests, RowWrite(r)
  PROVE  EditFormInv'
  <1>1. PICK q : q = nreq[r]
    OBVIOUS
  <1>2. /\ NodeForm(q) /\ nreq' = [nreq EXCEPT ![r] = Idle]
        /\ UNCHANGED <<gone, rowLock, portLock, nameLock>>
        /\ net' \in [NetworkIds -> NetworkRows \cup {NoRow}]
        /\ \A i \in NetworkIds \ {q.target} : net'[i] = net[i]
        /\ net'[q.target] \in NetworkRows /\ net'[q.target].c = net[q.target].c
        /\ net'[q.target].fqdn = net[q.target].fqdn /\ net'[q.target].live = net[q.target].live
    BY <1>1, RowWriteIs
  <1>3. nreq'[r] = Idle /\ \A s \in Requests \ {r} : nreq'[s] = nreq[s]
    BY <1>2 DEF EditFormInv, NetworkShape
  <1>4. NetworkRowsStay /\ \A i \in NetworkIds : ~ NetworkExists(i) => net'[i] = NoRow
    BY <1>2, NoNetworkAssumption DEF NetworkRowsStay, NodeForm, NetworkExists
  <1>5. \A s \in Requests \ {r} : NetworkHeld(s)'
    BY <1>2, <1>3, <1>4, OthersHeld
  <1>6. NetworkHeld(r)'
    BY <1>3 DEF NetworkHeld
  <1>7. NetworkShape'
    BY <1>2 DEF EditFormInv, NetworkShape
  <1> QED
    BY <1>4, <1>5, <1>6, <1>7, SameNames DEF EditFormInv

\* A step of none of the tables.
LEMMA QuietForm ==
  ASSUME EditFormInv, UNCHANGED <<net, gone, locks, nreq>>
  PROVE  EditFormInv'
  <1>1. UNCHANGED <<net, gone, nreq, rowLock, portLock, nameLock>>
    BY DEF locks
  <1>2. \A s \in Requests : NetworkHeld(s)'
    BY <1>1, OthersHeldStill
  <1> QED
    BY <1>1, <1>2 DEF EditFormInv, NetworkShape, FQDNExclusive, NetworkExists, ProjectOfRow, LiveNetwork

\* The steps, as the proofs distinguish them.
QuietStep == UNCHANGED <<net, gone, locks, nreq, overlapped>>
Moves(r) == CreateNodePort(r) \/ TriggerNodePortCreation(r) \/ GetNodePort(r) \/ GetPipelineRunResult(r)

LEMMA NetworkSteps ==
  ASSUME [NetworksNext]_nvars
  PROVE  \/ \E r \in Requests : EditStart(r) \/ LockAndCheck(r) \/ Save(r) \/ AbortEdit(r) \/ Moves(r) \/ RowWrite(r)
         \/ QuietStep
  <1>1. CASE \E r \in Requests : EditStep(r) \/ NodePortStep(r) \/ AbortEdit(r)
    BY <1>1 DEF EditStep, NodePortStep, EditStart, Moves, RowWrite
  <1>2. CASE \E e \in Events : PipelineRuns(e) \/ Expires(e)
    BY <1>2 DEF PipelineRuns, Expires, QuietStep
  <1>3. CASE UNCHANGED nvars
    BY <1>3 DEF nvars, QuietStep, locks
  <1> QED
    BY <1>1, <1>2, <1>3 DEF NetworksNext

LEMMA EditFormStep == EditFormInv /\ [NetworksNext]_nvars => EditFormInv'
  <1> SUFFICES ASSUME EditFormInv, [NetworksNext]_nvars PROVE EditFormInv'
    OBVIOUS
  <1>1. ASSUME NEW r \in Requests, Moves(r) PROVE EditFormInv'
    BY <1>1, NodeMoves, NodeMoveForm DEF Moves
  <1>2. CASE QuietStep
    BY <1>2, QuietForm DEF QuietStep
  <1> QED
    BY <1>1, <1>2, NetworkSteps, EditStartForm, LockForm, SaveForm, AbortForm, RowWriteForm

\* An FQDN belongs to one project and there to one live network.
THEOREM FQDNExclusiveHolds == NetworksSpec => []FQDNExclusive
  <1>1. EditFormInv => FQDNExclusive
    BY DEF EditFormInv
  <1> QED
    BY InitEditForm, EditFormStep, <1>1, PTL DEF NetworksSpec

-----------------------------------------------------------------------------
(* Containers whose requests never came too close to each other. *)

\* Until requests overlap, an edit is alone with its container, and so is whoever creates a
\* node port but for the polls.
Exclusive ==
  \A r, s \in Requests :
    (r # s /\ nreq[r] # Idle /\ nreq[s] # Idle /\ nreq[r].c = nreq[s].c /\ nreq[r].c \notin overlapped)
      => /\ nreq[r].op \notin Edits
         /\ nreq[r].op \in {"trigger", "event"} => nreq[s].op \in {"query", "result"}
\* Then the snapshot of the edit is what the table holds.
Current ==
  \A r \in Requests, c \in Containers :
    (nreq[r] # Idle /\ nreq[r].op \in Edits /\ nreq[r].c = c /\ c \notin overlapped)
      => DOMAIN nreq[r].seen = NetworksOf(c) /\ \A i \in NetworksOf(c) : nreq[r].seen[i] = net[i]
LiveNotGone == \A i \in NetworkIds : LiveNetwork(i) => net[i].c \notin gone
AtMostOne == \A c \in Containers \ overlapped : \A i, j \in NetworksOf(c) : i = j

EditAloneInv == Exclusive /\ Current /\ LiveNotGone /\ AtMostOne

LEMMA InitAlone == NetworksInit => EditAloneInv
  BY DEF NetworksInit, EditAloneInv, Exclusive, Current, LiveNotGone, AtMostOne, NetworksOf, LiveNetwork, NetworkExists,
         NetworkIds

\* What a node port's step makes of its request.
MoveTo(r, q) ==
  \/ /\ nreq[r] = Idle /\ q.op = "trigger" /\ q.target \in NetworkIds
     /\ LiveNetwork(q.target) /\ q.c = net[q.target].c /\ MayCreateNodePort(net[q.target])
     /\ Overlaps(q.c, OtherRequests(q.c))
  \/ /\ nreq[r] = Idle /\ q.op = "query" /\ q.target \in NetworkIds
     /\ LiveNetwork(q.target) /\ q.c = net[q.target].c /\ q.event = net[q.target].event
     /\ q.event # Nil /\ ~ IsActive(net[q.target])
     /\ Overlaps(q.c, Editing(q.c))
  \/ /\ nreq[r] # Idle /\ nreq[r].op = "trigger" /\ q.op = "event"
     /\ q.c = nreq[r].c /\ q.target = nreq[r].target /\ UNCHANGED overlapped
  \/ /\ nreq[r] # Idle /\ nreq[r].op = "query" /\ q.op = "result"
     /\ q.c = nreq[r].c /\ q.target = nreq[r].target /\ q.result = ResultOf(nreq[r].event)
     /\ UNCHANGED overlapped
  \/ nreq[r] # Idle /\ q = Idle /\ UNCHANGED overlapped

LEMMA MoveIs ==
  ASSUME EditFormInv, NEW r \in Requests, Moves(r)
  PROVE  \E q : nreq' = [nreq EXCEPT ![r] = q] /\ MoveTo(r, q) /\ UNCHANGED <<net, gone, locks>>
  <1>0. UNCHANGED <<net, gone, locks>>
    BY DEF Moves, CreateNodePort, TriggerNodePortCreation, GetNodePort, GetPipelineRunResult
  <1>1. CASE CreateNodePort(r)
    <2>1. PICK i, q :
            /\ i \in NetworkIds
            /\ LiveNetwork(i) /\ MayCreateNodePort(net[i])
            /\ q = [op |-> "trigger", c |-> net[i].c, target |-> i]
            /\ nreq' = [nreq EXCEPT ![r] = q] /\ Overlaps(net[i].c, OtherRequests(net[i].c))
      BY <1>1 DEF CreateNodePort
    <2>2. q.op = "trigger" /\ q.c = net[i].c /\ q.target = i
      BY <2>1
    <2>3. nreq[r] = Idle
      BY <1>1 DEF CreateNodePort
    <2>4. MoveTo(r, q)
      BY <2>1, <2>2, <2>3 DEF MoveTo
    <2> QED
      BY <1>0, <2>1, <2>4
  <1>2. CASE GetNodePort(r)
    <2>1. PICK i, q :
            /\ i \in NetworkIds
            /\ LiveNetwork(i) /\ net[i].event # Nil /\ ~ IsActive(net[i])
            /\ q = [op |-> "query", c |-> net[i].c, target |-> i, event |-> net[i].event]
            /\ nreq' = [nreq EXCEPT ![r] = q] /\ Overlaps(net[i].c, Editing(net[i].c))
      BY <1>2 DEF GetNodePort
    <2>2. q.op = "query" /\ q.c = net[i].c /\ q.target = i /\ q.event = net[i].event
      BY <2>1
    <2>3. nreq[r] = Idle
      BY <1>2 DEF GetNodePort
    <2>4. MoveTo(r, q)
      BY <2>1, <2>2, <2>3 DEF MoveTo
    <2> QED
      BY <1>0, <2>1, <2>4
  <1>3. CASE TriggerNodePortCreation(r)
    <2>1. PICK e, q :
            /\ q = [op |-> "event", c |-> nreq[r].c, target |-> nreq[r].target, event |-> e]
            /\ nreq' = [nreq EXCEPT ![r] = q]
      BY <1>3 DEF TriggerNodePortCreation
    <2>2. q.op = "event" /\ q.c = nreq[r].c /\ q.target = nreq[r].target
      BY <2>1
    <2>3. MoveTo(r, q)
      BY <1>3, <2>1, <2>2 DEF MoveTo, TriggerNodePortCreation
    <2> QED
      BY <1>0, <2>1, <2>3
  <1>4. CASE GetPipelineRunResult(r)
    <2>1. PICK q : /\ q = IF pipeline[nreq[r].event] \in {"succeeded", "failed"}
                          THEN [op |-> "result", c |-> nreq[r].c, target |-> nreq[r].target,
                                result |-> ResultOf(nreq[r].event)]
                          ELSE Idle
                   /\ nreq' = [nreq EXCEPT ![r] = q]
      BY <1>4 DEF GetPipelineRunResult
    <2>2. \/ q = Idle
          \/ /\ q.op = "result" /\ q.c = nreq[r].c /\ q.target = nreq[r].target
             /\ q.result = ResultOf(nreq[r].event)
      BY <2>1
    <2>3. MoveTo(r, q)
      BY <1>4, <2>1, <2>2 DEF MoveTo, GetPipelineRunResult
    <2> QED
      BY <1>0, <2>1, <2>3
  <1> QED
    BY <1>1, <1>2, <1>3, <1>4 DEF Moves

\* Save leaves the rows of other containers alone.
LEMMA SaveOthers ==
  ASSUME EditFormInv, NEW r \in Requests, Save(r), NEW q, q = nreq[r],
         NEW i \in NetworkIds, NetworkExists(i), net[i].c # q.c
  PROVE  net'[i] = net[i]
  <1>1. SeenRows(q)
    BY SaveIs
  <1>2. i \notin DOMAIN Kept(q) /\ i \notin Removed(q)
    BY <1>1 DEF SeenRows, Kept, Removed, NetworksOf
  <1>3. SaveNetworks(q)[i] = net[i]
    BY <1>2 DEF SaveNetworks
  <1>4. \/ net' = SaveNetworks(q)
        \/ \E row, k : ~ NetworkExists(k) /\ net' = [SaveNetworks(q) EXCEPT ![k] = row]
    BY DEF Save, IsNextId
  <1> QED
    BY <1>3, <1>4 DEF SaveNetworks

\* A step that starts no request, and leaves the rows of edited containers alone.
LEMMA AloneStays ==
  ASSUME EditFormInv, EditAloneInv, overlapped \subseteq overlapped',
         \A r \in Requests : \/ nreq'[r] = Idle
                             \/ nreq[r] # Idle /\ nreq'[r].c = nreq[r].c
                                /\ \/ nreq'[r].op = nreq[r].op /\ nreq'[r].seen = nreq[r].seen
                                   \/ nreq[r].op = "trigger" /\ nreq'[r].op = "event"
                                   \/ nreq[r].op = "query" /\ nreq'[r].op = "result",
         \A r \in Requests, c \in Containers, i \in NetworkIds :
           (nreq'[r] # Idle /\ nreq'[r].op \in Edits /\ nreq'[r].c = c /\ c \notin overlapped) =>
             /\ (net'[i] # NoRow /\ net'[i].live /\ net'[i].c = c) <=> i \in NetworksOf(c)
             /\ i \in NetworksOf(c) => net'[i] = net[i]
  PROVE  Exclusive' /\ Current'
  <1>1. Exclusive'
    BY DEF EditAloneInv, Exclusive, Edits
  <1>2. ASSUME NEW r \in Requests, NEW c \in Containers,
               nreq'[r] # Idle, nreq'[r].op \in Edits, nreq'[r].c = c, c \notin overlapped'
        PROVE  DOMAIN nreq'[r].seen = NetworksOf(c)' /\ \A i \in NetworksOf(c)' : nreq'[r].seen[i] = net'[i]
    <2>1. /\ nreq[r] # Idle /\ nreq'[r].c = nreq[r].c /\ nreq'[r].op = nreq[r].op /\ nreq'[r].seen = nreq[r].seen
      BY <1>2 DEF Edits
    <2>2. DOMAIN nreq[r].seen = NetworksOf(c) /\ \A i \in NetworksOf(c) : nreq[r].seen[i] = net[i]
      BY <1>2, <2>1 DEF EditAloneInv, Current
    <2>3. \A i \in NetworkIds : /\ (net'[i] # NoRow /\ net'[i].live /\ net'[i].c = c) <=> i \in NetworksOf(c)
                                /\ i \in NetworksOf(c) => net'[i] = net[i]
      BY <1>2
    <2>4. NetworksOf(c)' = NetworksOf(c) /\ NetworksOf(c) \subseteq NetworkIds
      BY <2>3 DEF NetworksOf, LiveNetwork, NetworkExists
    <2> QED
      BY <2>1, <2>2, <2>3, <2>4
  <1>3. Current'
    BY <1>2 DEF Current
  <1> QED
    BY <1>1, <1>3

LEMMA SameAlone ==
  ASSUME EditFormInv, EditAloneInv, NetworkRowsStay, \A i \in NetworkIds : ~ NetworkExists(i) => net'[i] = NoRow,
         UNCHANGED gone, overlapped \subseteq overlapped'
  PROVE  LiveNotGone' /\ AtMostOne'
  <1>1. \A i \in NetworkIds : LiveNetwork(i)' => LiveNetwork(i) /\ net'[i].c = net[i].c
    BY DEF NetworkRowsStay, LiveNetwork, NetworkExists
  <1>2. LiveNotGone'
    BY <1>1 DEF EditAloneInv, LiveNotGone
  <1>3. \A c \in Containers : NetworksOf(c)' \subseteq NetworksOf(c)
    BY <1>1 DEF NetworksOf
  <1> QED
    BY <1>2, <1>3 DEF EditAloneInv, AtMostOne

\* A request that starts when no other one is too close; "close" is what it must not meet.
LEMMA StartAlone ==
  ASSUME EditFormInv, EditAloneInv, UNCHANGED <<net, gone>>, NEW r \in Requests, NEW q, NEW close,
         nreq[r] = Idle, nreq' = [nreq EXCEPT ![r] = q], q.c \in Containers, Overlaps(q.c, close),
         \A s \in Requests : nreq[s] # Idle /\ nreq[s].c = q.c /\ s \notin close =>
           /\ nreq[s].op \notin Edits /\ q.op \notin Edits
           /\ nreq[s].op \in {"trigger", "event"} => q.op \in {"query", "result"}
           /\ q.op \in {"trigger", "event"} => nreq[s].op \in {"query", "result"},
         q.op \in Edits => DOMAIN q.seen = NetworksOf(q.c) /\ \A i \in NetworksOf(q.c) : q.seen[i] = net[i]
  PROVE  EditAloneInv'
  <1>1. nreq'[r] = q /\ \A s \in Requests \ {r} : nreq'[s] = nreq[s]
    BY DEF EditFormInv, NetworkShape
  <1>2. /\ overlapped \subseteq overlapped'
        /\ q.c \notin overlapped' => close = {}
    BY DEF Overlaps
  <1>3. Exclusive'
    BY <1>1, <1>2 DEF EditAloneInv, Exclusive
  <1>4. \A c \in Containers : NetworksOf(c)' = NetworksOf(c)
    BY DEF NetworksOf, LiveNetwork, NetworkExists
  <1>5. Current'
    BY <1>1, <1>2, <1>4 DEF EditAloneInv, Current
  <1>6. NetworkRowsStay /\ \A i \in NetworkIds : ~ NetworkExists(i) => net'[i] = NoRow
    BY DEF NetworkRowsStay, NetworkExists
  <1> QED
    BY <1>2, <1>3, <1>5, <1>6, SameAlone DEF EditAloneInv

LEMMA EditStartAlone ==
  ASSUME EditFormInv, EditAloneInv, NEW r \in Requests, EditStart(r)
  PROVE  EditAloneInv'
  <1>1. PICK q : /\ EditForm(q) /\ DOMAIN q.seen = NetworksOf(q.c) /\ \A i \in NetworksOf(q.c) : q.seen[i] = net[i]
                 /\ nreq[r] = Idle /\ nreq' = [nreq EXCEPT ![r] = q] /\ Overlaps(q.c, OtherRequests(q.c))
                 /\ UNCHANGED <<net, gone>>
    BY EditStartIs
  <1>2. q.c \in Containers
    BY <1>1 DEF EditForm
  <1>3. \A s \in Requests : nreq[s] # Idle /\ nreq[s].c = q.c => s \in OtherRequests(q.c)
    BY DEF OtherRequests
  <1> QED
    BY <1>1, <1>2, <1>3, StartAlone

LEMMA LockAlone ==
  ASSUME EditFormInv, EditAloneInv, NEW r \in Requests, LockAndCheck(r)
  PROVE  EditAloneInv'
  <1>1. UNCHANGED <<net, gone, overlapped>> /\ nreq[r] # Idle
    BY DEF LockAndCheck
  <1>2. PICK q : q = nreq[r]
    OBVIOUS
  <1>3. PICK l : l = [q EXCEPT !.locked = TRUE]
    OBVIOUS
  <1>4. l.op = q.op /\ l.c = q.c /\ l.seen = q.seen
    BY <1>3
  <1>5. nreq'[r] = l /\ \A s \in Requests \ {r} : nreq'[s] = nreq[s]
    BY <1>2, <1>3 DEF EditFormInv, NetworkShape, LockAndCheck
  <1>6. \A s \in Requests : \/ nreq'[s] = Idle
                            \/ nreq[s] # Idle /\ nreq'[s].c = nreq[s].c
                               /\ nreq'[s].op = nreq[s].op /\ nreq'[s].seen = nreq[s].seen
    BY <1>1, <1>2, <1>4, <1>5
  <1>7. \A c \in Containers, i \in NetworkIds :
          (net'[i] # NoRow /\ net'[i].live /\ net'[i].c = c) <=> i \in NetworksOf(c)
    BY <1>1 DEF NetworksOf, LiveNetwork, NetworkExists
  <1>8. Exclusive' /\ Current'
    BY <1>1, <1>6, <1>7, AloneStays
  <1>9. NetworkRowsStay /\ \A i \in NetworkIds : ~ NetworkExists(i) => net'[i] = NoRow
    BY <1>1 DEF NetworkRowsStay, NetworkExists
  <1> QED
    BY <1>1, <1>8, <1>9, SameAlone DEF EditAloneInv

\* A request that ends, and writes rows of a container of which no edit is under way but
\* its own.
LEMMA EndAlone ==
  ASSUME EditFormInv, EditAloneInv, NEW r \in Requests, nreq[r] # Idle, nreq' = [nreq EXCEPT ![r] = Idle],
         UNCHANGED overlapped, nreq[r].c \in Containers,
         \A i \in NetworkIds : /\ NetworkExists(i) /\ net[i].c # nreq[r].c => net'[i] = net[i]
                               /\ NetworkExists(i) => net'[i] # NoRow /\ net'[i].c = net[i].c
                               /\ ~ NetworkExists(i) /\ net'[i] # NoRow => net'[i].c = nreq[r].c
  PROVE  Exclusive' /\ Current'
  <1>1. nreq'[r] = Idle /\ \A s \in Requests \ {r} : nreq'[s] = nreq[s]
    BY DEF EditFormInv, NetworkShape
  <1>2. \A s \in Requests : \/ nreq'[s] = Idle
                            \/ nreq[s] # Idle /\ nreq'[s].c = nreq[s].c
                               /\ nreq'[s].op = nreq[s].op /\ nreq'[s].seen = nreq[s].seen
    BY <1>1
  <1>3. ASSUME NEW s \in Requests, NEW c \in Containers, NEW i \in NetworkIds,
               nreq'[s] # Idle, nreq'[s].op \in Edits, nreq'[s].c = c, c \notin overlapped
        PROVE  /\ (net'[i] # NoRow /\ net'[i].live /\ net'[i].c = c) <=> i \in NetworksOf(c)
               /\ i \in NetworksOf(c) => net'[i] = net[i]
    <2>1. s # r /\ nreq[s] # Idle /\ nreq[s].op \in Edits /\ nreq[s].c = c
      BY <1>1, <1>3
    <2>2. nreq[r].c # c
      BY <1>3, <2>1 DEF EditAloneInv, Exclusive
    <2>3. (NetworkExists(i) /\ net[i].c = c) => net'[i] = net[i]
      BY <2>2
    <2>4. (~ NetworkExists(i) /\ net'[i] # NoRow) => net'[i].c # c
      BY <2>2
    <2> QED
      BY <2>3, <2>4 DEF NetworksOf, LiveNetwork, NetworkExists
  <1> QED
    BY <1>2, <1>3, AloneStays

LEMMA AbortAlone ==
  ASSUME EditFormInv, EditAloneInv, NEW r \in Requests, AbortEdit(r)
  PROVE  EditAloneInv'
  <1>1. nreq[r] # Idle /\ nreq' = [nreq EXCEPT ![r] = Idle] /\ UNCHANGED <<net, gone, overlapped>>
    BY DEF AbortEdit
  <1>2. nreq[r].c \in Containers
    BY <1>1 DEF EditFormInv, NetworkHeld, EditForm, NodeForm
  <1>3. Exclusive' /\ Current'
    BY <1>1, <1>2, EndAlone DEF NetworkExists
  <1>4. NetworkRowsStay /\ \A i \in NetworkIds : ~ NetworkExists(i) => net'[i] = NoRow
    BY <1>1 DEF NetworkRowsStay, NetworkExists
  <1> QED
    BY <1>1, <1>3, <1>4, SameAlone DEF EditAloneInv

LEMMA RowWriteAlone ==
  ASSUME EditFormInv, EditAloneInv, NEW r \in Requests, RowWrite(r)
  PROVE  EditAloneInv'
  <1>1. PICK q : q = nreq[r]
    OBVIOUS
  <1>2. /\ NodeForm(q) /\ nreq' = [nreq EXCEPT ![r] = Idle] /\ UNCHANGED <<gone, overlapped>>
        /\ \A i \in NetworkIds \ {q.target} : net'[i] = net[i]
        /\ net'[q.target] \in NetworkRows /\ net'[q.target].c = net[q.target].c
        /\ net'[q.target].fqdn = net[q.target].fqdn /\ net'[q.target].live = net[q.target].live
    BY <1>1, RowWriteIs
  <1>3. nreq[r] # Idle
    BY DEF RowWrite, UpdateNetworkTektonEventID, UpdateNetworkNodePortResult
  <1>4. NetworkRowsStay /\ \A i \in NetworkIds : ~ NetworkExists(i) => net'[i] = NoRow
    BY <1>2, NoNetworkAssumption DEF NetworkRowsStay, NodeForm, NetworkExists
  <1>5. q.c \in Containers /\ q.target \in NetworkIds /\ NetworkExists(q.target) /\ net[q.target].c = q.c
    BY <1>2 DEF NodeForm
  <1>6. \A i \in NetworkIds : NetworkExists(i) /\ net[i].c # q.c => net'[i] = net[i]
    BY <1>2, <1>5
  <1>7. Exclusive' /\ Current'
    <2>1. \A i \in NetworkIds : /\ NetworkExists(i) /\ net[i].c # nreq[r].c => net'[i] = net[i]
                                /\ NetworkExists(i) => net'[i] # NoRow /\ net'[i].c = net[i].c
                                /\ ~ NetworkExists(i) /\ net'[i] # NoRow => net'[i].c = nreq[r].c
      BY <1>1, <1>4, <1>6 DEF NetworkRowsStay
    <2>2. nreq[r].c \in Containers
      BY <1>1, <1>5
    <2> QED
      BY <1>2, <1>3, <2>1, <2>2, EndAlone
  <1> QED
    BY <1>2, <1>4, <1>7, SameAlone DEF EditAloneInv

LEMMA MoveAlone ==
  ASSUME EditFormInv, EditAloneInv, NEW r \in Requests, Moves(r)
  PROVE  EditAloneInv'
  <1>1. PICK q : nreq' = [nreq EXCEPT ![r] = q] /\ MoveTo(r, q) /\ UNCHANGED <<net, gone>>
    BY MoveIs
  <1>2. nreq'[r] = q /\ \A s \in Requests \ {r} : nreq'[s] = nreq[s]
    BY <1>1 DEF EditFormInv, NetworkShape
  <1>3. \A i \in NetworkIds : LiveNetwork(i) => net[i].c \in Containers
    BY DEF EditFormInv, NetworkShape, LiveNetwork, NetworkExists, NetworkRows
  <1>4. \A s \in Requests : nreq[s] # Idle => nreq[s].op \in Edits \cup NodeOps
    BY DEF EditFormInv, NetworkHeld
  <1>5. ASSUME nreq[r] = Idle, q.op = "trigger", q.target \in NetworkIds, LiveNetwork(q.target),
               q.c = net[q.target].c, Overlaps(q.c, OtherRequests(q.c))
        PROVE  EditAloneInv'
    <2>1. \A s \in Requests : nreq[s] # Idle /\ nreq[s].c = q.c => s \in OtherRequests(q.c)
      BY DEF OtherRequests
    <2>2. q.op \notin Edits
      BY <1>5 DEF Edits
    <2> QED
      BY <1>1, <1>3, <1>5, <2>1, <2>2, StartAlone
  <1>6. ASSUME nreq[r] = Idle, q.op = "query", q.target \in NetworkIds, LiveNetwork(q.target),
               q.c = net[q.target].c, Overlaps(q.c, Editing(q.c))
        PROVE  EditAloneInv'
    <2>1. \A s \in Requests : nreq[s] # Idle /\ nreq[s].c = q.c /\ s \notin Editing(q.c) => nreq[s].op \notin Edits
      BY DEF Editing
    <2>2. q.op \notin Edits /\ q.op \in {"query", "result"} /\ q.op \notin {"trigger", "event"}
      BY <1>6 DEF Edits
    <2> QED
      BY <1>1, <1>3, <1>6, <2>1, <2>2, StartAlone
  <1>7. ASSUME nreq[r] # Idle, UNCHANGED overlapped,
               \/ q = Idle
               \/ /\ q.c = nreq[r].c
                  /\ \/ nreq[r].op = "trigger" /\ q.op = "event"
                     \/ nreq[r].op = "query" /\ q.op = "result"
        PROVE  EditAloneInv'
    <2>1. \A s \in Requests : \/ nreq'[s] = Idle
                              \/ nreq[s] # Idle /\ nreq'[s].c = nreq[s].c
                                 /\ \/ nreq'[s].op = nreq[s].op /\ nreq'[s].seen = nreq[s].seen
                                    \/ nreq[s].op = "trigger" /\ nreq'[s].op = "event"
                                    \/ nreq[s].op = "query" /\ nreq'[s].op = "result"
      BY <1>2, <1>7
    <2>2. \A c \in Containers, i \in NetworkIds :
            (net'[i] # NoRow /\ net'[i].live /\ net'[i].c = c) <=> i \in NetworksOf(c)
      BY <1>1 DEF NetworksOf, LiveNetwork, NetworkExists
    <2>3. Exclusive' /\ Current'
      BY <1>1, <1>7, <2>1, <2>2, AloneStays
    <2>4. NetworkRowsStay /\ \A i \in NetworkIds : ~ NetworkExists(i) => net'[i] = NoRow
      BY <1>1 DEF NetworkRowsStay, NetworkExists
    <2> QED
      BY <1>1, <1>7, <2>3, <2>4, SameAlone DEF EditAloneInv
  <1> QED
    BY <1>1, <1>5, <1>6, <1>7 DEF MoveTo

\* An edit saves what nobody has changed since it read it: of a network it replaces, the old
\* row goes.
LEMMA SaveAlone ==
  ASSUME EditFormInv, EditAloneInv, NEW r \in Requests, Save(r)
  PROVE  EditAloneInv'
  <1>1. PICK q : q = nreq[r]
    OBVIOUS
  <1>2. /\ q # Idle /\ q.op \in Edits /\ EditForm(q) /\ SeenRows(q) /\ LocksHeld(r, q)
        /\ \A i \in NetworkIds : NetworkExists(i) =>
              /\ net'[i] # NoRow /\ net'[i].c = net[i].c
              /\ net'[i].live = (net[i].live /\ i \notin Removed(q))
        /\ \A i \in NetworkIds : ~ NetworkExists(i) /\ net'[i] # NoRow => net'[i] \in Added(q)
        /\ \A i, j \in NetworkIds : ~ NetworkExists(i) /\ ~ NetworkExists(j) /\ net'[i] # NoRow /\ net'[j] # NoRow
              => i = j
    BY <1>1, SaveIs
  <1>3. /\ nreq' = [nreq EXCEPT ![r] = Idle] /\ UNCHANGED overlapped
        /\ gone' = IF q.op = "drop" THEN gone \cup {q.c} ELSE gone
    BY <1>1 DEF Save
  <1>4. \A row \in Added(q) : row.c = q.c /\ q.op # "drop"
    BY DEF Added, NewNetwork, Replaces
  <1>5. q.c \in Containers /\ q.c \notin gone
    BY <1>2 DEF EditForm, LocksHeld
  <1>6. \A i \in NetworkIds : NetworkExists(i) /\ net[i].c # q.c => net'[i] = net[i]
    BY <1>1, SaveOthers
  <1>7. Exclusive' /\ Current'
    BY <1>1, <1>2, <1>3, <1>4, <1>5, <1>6, EndAlone
  <1>8. \A i \in NetworkIds : NetworkExists(i) /\ net'[i].live => LiveNetwork(i) /\ i \notin Removed(q)
    BY <1>2 DEF LiveNetwork
  <1>9. LiveNotGone'
    <2> SUFFICES ASSUME NEW i \in NetworkIds, net'[i] # NoRow, net'[i].live PROVE net'[i].c \notin gone'
      BY DEF LiveNotGone, LiveNetwork, NetworkExists
    <2>1. CASE NetworkExists(i)
      <3>1. LiveNetwork(i) /\ i \notin Removed(q) /\ net'[i].c = net[i].c /\ net[i].c \notin gone
        BY <1>2, <1>8, <2>1 DEF EditAloneInv, LiveNotGone
      <3>2. q.op = "drop" => net[i].c # q.c
        BY <3>1 DEF Removed, NetworksOf
      <3> QED
        BY <1>3, <3>1, <3>2
    <2>2. CASE ~ NetworkExists(i)
      BY <1>2, <1>3, <1>4, <1>5, <2>2
    <2> QED
      BY <2>1, <2>2
  <1>10. AtMostOne'
    <2> SUFFICES ASSUME NEW c \in Containers, c \notin overlapped, NEW i \in NetworkIds, NEW j \in NetworkIds,
                        net'[i] # NoRow, net'[i].live, net'[i].c = c, net'[j] # NoRow, net'[j].live, net'[j].c = c
                 PROVE  i = j
      BY <1>3 DEF AtMostOne, NetworksOf, LiveNetwork, NetworkExists
    <2>1. \A k \in NetworkIds : NetworkExists(k) /\ net'[k].live /\ net'[k].c = c
                                  => k \in NetworksOf(c) /\ k \notin Removed(q)
      BY <1>2, <1>8 DEF NetworksOf
    <2>2. ASSUME NEW m \in NetworkIds, NEW o \in NetworkIds, net'[m] # NoRow, ~ NetworkExists(m), net'[m].c = c,
                 NetworkExists(o), net'[o].live, net'[o].c = c
          PROVE  FALSE
      <3>1. net'[m] \in Added(q) /\ c = q.c
        BY <1>2, <1>4, <2>2
      <3>2. DOMAIN q.seen = NetworksOf(q.c)
        BY <1>1, <1>2, <3>1 DEF EditAloneInv, Current
      <3>3. o \in NetworksOf(q.c) /\ o \notin Removed(q)
        BY <2>1, <2>2, <3>1
      <3>4. q.op # "add"
        BY <1>2, <3>2, <3>3 DEF LocksHeld
      <3>5. Replaces(q)
        BY <3>1, <3>4 DEF Added
      <3>6. q.op = "update" /\ q.target \in DOMAIN q.seen
        BY <1>2, <3>5 DEF Replaces, EditForm, LocksHeld
      <3>7. o = q.target
        BY <1>5, <2>2, <3>1, <3>2, <3>3, <3>6 DEF EditAloneInv, AtMostOne
      <3>8. q.target \notin DOMAIN Kept(q)
        BY <3>5 DEF Kept
      <3> QED
        BY <3>3, <3>6, <3>7, <3>8 DEF Removed
    <2>3. CASE NetworkExists(i) /\ NetworkExists(j)
      BY <2>1, <2>3 DEF EditAloneInv, AtMostOne
    <2> QED
      BY <1>2, <2>2, <2>3
  <1> QED
    BY <1>7, <1>9, <1>10 DEF EditAloneInv

LEMMA AloneStep == EditFormInv /\ EditAloneInv /\ [NetworksNext]_nvars => EditAloneInv'
  <1> SUFFICES ASSUME EditFormInv, EditAloneInv, [NetworksNext]_nvars PROVE EditAloneInv'
    OBVIOUS
  <1>1. CASE QuietStep
    BY <1>1 DEF QuietStep, EditAloneInv, Exclusive, Current, LiveNotGone, AtMostOne, NetworksOf, LiveNetwork, NetworkExists
  <1> QED
    BY <1>1, NetworkSteps, EditStartAlone, LockAlone, SaveAlone, AbortAlone, MoveAlone, RowWriteAlone

-----------------------------------------------------------------------------
(* Internal ports. *)

\* While an edit holds the lock of the port that it has checked, the port stays free in the
\* project, but for the row that the edit is about.
PortChecked ==
  \A r \in Requests, i \in NetworkIds :
    (/\ nreq[r] # Idle /\ nreq[r].op \in Edits /\ nreq[r].locked /\ nreq[r].port # Keep
     /\ LiveNetwork(i) /\ i # nreq[r].target /\ ProjectOfRow(i) = ProjectOf[nreq[r].c]
     /\ Apart(ProjectOf[nreq[r].c]))
      => net[i].port # nreq[r].port

PortInv == PortChecked /\ PortsUnique

LEMMA InitPort == NetworksInit => PortInv
  BY DEF NetworksInit, PortInv, PortChecked, PortsUnique, LiveNetwork, NetworkExists

\* A step that locks nothing and brings no port.
LEMMA PortStays ==
  ASSUME PortInv, overlapped \subseteq overlapped',
         \A i \in NetworkIds : net'[i] # NoRow /\ net'[i].live =>
           LiveNetwork(i) /\ net'[i].c = net[i].c /\ net'[i].port = net[i].port,
         \A r \in Requests : nreq'[r] # Idle /\ nreq'[r].op \in Edits /\ nreq'[r].locked => nreq'[r] = nreq[r]
  PROVE  PortInv'
  <1>1. PortChecked'
    <2> SUFFICES ASSUME NEW r \in Requests, NEW i \in NetworkIds,
                        nreq'[r] # Idle, nreq'[r].op \in Edits, nreq'[r].locked, nreq'[r].port # Keep,
                        net'[i] # NoRow, net'[i].live, i # nreq'[r].target,
                        ProjectOf[net'[i].c] = ProjectOf[nreq'[r].c],
                        \A c \in overlapped' : ProjectOf[c] # ProjectOf[nreq'[r].c]
                 PROVE  net'[i].port # nreq'[r].port
      BY DEF PortChecked, LiveNetwork, NetworkExists, ProjectOfRow, Apart
    <2>1. nreq'[r] = nreq[r] /\ LiveNetwork(i) /\ net'[i].c = net[i].c /\ net'[i].port = net[i].port
      OBVIOUS
    <2> QED
      BY <2>1 DEF PortInv, PortChecked, ProjectOfRow, Apart
  <1>2. PortsUnique'
    <2> SUFFICES ASSUME NEW i \in NetworkIds, NEW j \in NetworkIds, i # j, net'[i] # NoRow, net'[i].live,
                        net'[j] # NoRow, net'[j].live, ProjectOf[net'[i].c] = ProjectOf[net'[j].c],
                        \A c \in overlapped' : ProjectOf[c] # ProjectOf[net'[i].c]
                 PROVE  net'[i].port # net'[j].port
      BY DEF PortsUnique, LiveNetwork, NetworkExists, ProjectOfRow, Apart
    <2> QED
      BY DEF PortInv, PortsUnique, ProjectOfRow, Apart
  <1> QED
    BY <1>1, <1>2 DEF PortInv

\* The check: no other live network of the project has the port.
LEMMA LockPort ==
  ASSUME EditFormInv, EditAloneInv, PortInv, NEW r \in Requests, LockAndCheck(r)
  PROVE  PortInv'
  <1>1. PICK q : q = nreq[r]
    OBVIOUS
  <1>2. /\ q # Idle /\ q.op \in Edits /\ EditForm(q) /\ UNCHANGED <<net, overlapped>>
        /\ q.port # Keep => ~ CheckInternalPortExistsInProject(q.c, q.port, Self(q))
    BY <1>1 DEF EditFormInv, NetworkHeld, LockAndCheck, Editing
  <1>3. PICK l : l = [q EXCEPT !.locked = TRUE]
    OBVIOUS
  <1>4. l.c = q.c /\ l.target = q.target /\ l.port = q.port
    BY <1>3
  <1>5. nreq'[r] = l /\ \A s \in Requests \ {r} : nreq'[s] = nreq[s]
    BY <1>1, <1>3 DEF EditFormInv, NetworkShape, LockAndCheck
  <1>6. ASSUME NEW i \in NetworkIds, LiveNetwork(i), i # q.target, ProjectOfRow(i) = ProjectOf[q.c], q.port # Keep
        PROVE  net[i].port # q.port
    <2>1. i \notin Self(q) /\ net[i].c \notin gone
      BY <1>6 DEF Self, EditAloneInv, LiveNotGone
    <2> QED
      BY <1>2, <1>6, <2>1 DEF CheckInternalPortExistsInProject
  <1>7. PortChecked'
    <2> SUFFICES ASSUME NEW s \in Requests, NEW i \in NetworkIds,
                        nreq'[s] # Idle, nreq'[s].op \in Edits, nreq'[s].locked, nreq'[s].port # Keep,
                        LiveNetwork(i), i # nreq'[s].target, ProjectOfRow(i) = ProjectOf[nreq'[s].c],
                        Apart(ProjectOf[nreq'[s].c])
                 PROVE  net[i].port # nreq'[s].port
      BY <1>2 DEF PortChecked, LiveNetwork, NetworkExists, ProjectOfRow, Apart
    <2>1. CASE s = r
      BY <1>4, <1>5, <1>6, <2>1
    <2>2. CASE s # r
      BY <1>5, <2>2 DEF PortInv, PortChecked
    <2> QED
      BY <2>1, <2>2
  <1> QED
    BY <1>2, <1>7 DEF PortInv, PortsUnique, LiveNetwork, NetworkExists, ProjectOfRow, Apart

\* The port of the row that Save changes or adds is the checked one, or the one that the
\* network had before; nobody else has locked the ports of the project when a row is added.
LEMMA SavePort ==
  ASSUME EditFormInv, EditAloneInv, PortInv, NEW r \in Requests, Save(r)
  PROVE  PortInv'
  <1>1. PICK q : q = nreq[r]
    OBVIOUS
  <1>2. /\ q # Idle /\ q.op \in Edits /\ q.locked /\ EditForm(q) /\ SeenRows(q) /\ LocksHeld(r, q)
        /\ \A i \in NetworkIds : NetworkExists(i) =>
              /\ net'[i] # NoRow /\ net'[i].c = net[i].c
              /\ net'[i].live = (net[i].live /\ i \notin Removed(q))
              /\ net'[i].port = IF i \in DOMAIN Kept(q)
                                THEN IF q.op = "update" /\ i = q.target THEN PortAfter(q) ELSE q.seen[i].port
                                ELSE net[i].port
        /\ \A i \in NetworkIds : ~ NetworkExists(i) /\ net'[i] # NoRow => net'[i] \in Added(q)
        /\ \A i, j \in NetworkIds : ~ NetworkExists(i) /\ ~ NetworkExists(j) /\ net'[i] # NoRow /\ net'[j] # NoRow
              => i = j
        /\ \A row \in Added(q) : MayInsert(r, row)
    BY <1>1, SaveIs
  <1>3. nreq' = [nreq EXCEPT ![r] = Idle] /\ UNCHANGED overlapped
    BY <1>1 DEF Save
  <1>4. nreq'[r] = Idle /\ \A s \in Requests \ {r} : nreq'[s] = nreq[s]
    BY <1>3 DEF EditFormInv, NetworkShape
  <1>5. \A row \in Added(q) : /\ row.c = q.c
                              /\ row.port = IF q.port = Keep THEN q.seen[q.target].port ELSE q.port
                              /\ q.op = "add" \/ Replaces(q)
    BY <1>2 DEF Added, NewNetwork, PortAfter, EditForm
  <1>6. Replaces(q) => /\ q.op = "update" /\ q.target \in DOMAIN q.seen
                       /\ q.target \in Removed(q) /\ q.target \notin DOMAIN Kept(q)
    BY <1>2 DEF Replaces, EditForm, LocksHeld, Removed, Kept
  <1>7. q.op = "update" => q.target \in DOMAIN q.seen
    BY <1>2 DEF EditForm, LocksHeld
  <1>8. ASSUME q.c \notin overlapped
        PROVE  DOMAIN q.seen = NetworksOf(q.c) /\ \A i \in NetworksOf(q.c) : q.seen[i] = net[i]
    BY <1>1, <1>2, <1>8 DEF EditAloneInv, Current, EditForm
  <1>9. ASSUME NEW i \in NetworkIds, NetworkExists(i), net[i].c # q.c \/ q.c \notin overlapped
        PROVE  \/ net'[i].port = net[i].port
               \/ q.op = "update" /\ i = q.target /\ q.port # Keep /\ net'[i].port = q.port /\ net[i].c = q.c
    <2>1. CASE i \notin DOMAIN Kept(q)
      BY <1>2, <1>9, <2>1
    <2>2. CASE i \in DOMAIN Kept(q)
      <3>1. i \in DOMAIN q.seen /\ net[i].c = q.c
        BY <1>2, <2>2 DEF Kept, SeenRows
      <3>2. q.seen[i].port = net[i].port
        BY <1>8, <1>9, <3>1
      <3> QED
        BY <1>2, <1>9, <2>2, <3>1, <3>2 DEF PortAfter
    <2> QED
      BY <2>1, <2>2
  <1>10. \A i \in NetworkIds : NetworkExists(i) /\ net'[i].live => LiveNetwork(i) /\ i \notin Removed(q)
    BY <1>2 DEF LiveNetwork
  <1>11. \A p : Apart(p) /\ p = ProjectOf[q.c] => q.c \notin overlapped
    BY DEF Apart
  <1>12. PortChecked'
    <2> SUFFICES ASSUME NEW s \in Requests, NEW i \in NetworkIds,
                        nreq'[s] # Idle, nreq'[s].op \in Edits, nreq'[s].locked, nreq'[s].port # Keep,
                        net'[i] # NoRow, net'[i].live, i # nreq'[s].target,
                        ProjectOf[net'[i].c] = ProjectOf[nreq'[s].c],
                        Apart(ProjectOf[nreq'[s].c])
                 PROVE  net'[i].port # nreq'[s].port
      BY <1>3 DEF PortChecked, LiveNetwork, NetworkExists, ProjectOfRow, Apart
    <2>1. s # r /\ nreq'[s] = nreq[s]
      BY <1>4
    <2>2. PICK t : t = nreq[s]
      OBVIOUS
    <2>3. portLock[ProjectOf[t.c]] = s
      BY <2>1, <2>2 DEF EditFormInv, NetworkHeld, LocksHeld
    <2>4. ProjectOf[q.c] = ProjectOf[t.c] => q.port = Keep /\ Added(q) = {}
      <3>1. portLock[ProjectOf[t.c]] # Idle /\ portLock[ProjectOf[t.c]] # r
        BY <2>1, <2>3, TransactionsAssumption
      <3> QED
        BY <1>2, <1>5, <3>1 DEF LocksHeld, MayInsert
    <2>5. CASE NetworkExists(i)
      <3>1. LiveNetwork(i) /\ net'[i].c = net[i].c
        BY <1>2, <1>10, <2>5
      <3>2. net[i].port # t.port
        BY <2>1, <2>2, <2>5, <3>1 DEF PortInv, PortChecked, ProjectOfRow
      <3>3. net'[i].port = net[i].port
        <4>1. net[i].c = q.c => q.c \notin overlapped
          BY <2>1, <3>1, <1>11
        <4>2. \/ net'[i].port = net[i].port
              \/ net[i].c = q.c /\ q.port # Keep
          BY <1>9, <2>5, <4>1
        <4> QED
          BY <2>1, <2>2, <2>4, <3>1, <4>2
      <3> QED
        BY <2>1, <2>2, <3>2, <3>3
    <2>6. CASE ~ NetworkExists(i)
      BY <1>2, <1>5, <2>1, <2>2, <2>4, <2>6
    <2> QED
      BY <2>5, <2>6
  <1>13. PortsUnique'
    <2> SUFFICES ASSUME NEW i \in NetworkIds, NEW j \in NetworkIds, i # j, net'[i] # NoRow, net'[i].live,
                        net'[j] # NoRow, net'[j].live, ProjectOf[net'[i].c] = ProjectOf[net'[j].c],
                        Apart(ProjectOf[net'[i].c])
                 PROVE  net'[i].port # net'[j].port
      BY <1>3 DEF PortsUnique, LiveNetwork, NetworkExists, ProjectOfRow, Apart
    <2>1. \A k \in NetworkIds : NetworkExists(k) /\ net'[k].live => LiveNetwork(k) /\ k \notin Removed(q) /\ net'[k].c = net[k].c
      BY <1>2, <1>10
    <2>2. ASSUME NEW k \in NetworkIds, LiveNetwork(k), k # q.target, ProjectOf[net[k].c] = ProjectOf[q.c],
                 Apart(ProjectOf[q.c]), q.port # Keep
          PROVE  net[k].port # q.port
      BY <1>1, <1>2, <2>2 DEF PortInv, PortChecked, ProjectOfRow
    <2>3. CASE NetworkExists(i) /\ NetworkExists(j)
      <3>1. /\ LiveNetwork(i) /\ net'[i].c = net[i].c /\ LiveNetwork(j) /\ net'[j].c = net[j].c
            /\ ProjectOf[net[i].c] = ProjectOf[net[j].c] /\ Apart(ProjectOf[net[i].c])
        BY <2>1, <2>3
      <3>2. net[i].port # net[j].port
        BY <3>1 DEF PortInv, PortsUnique, ProjectOfRow
      <3>3. \/ net'[i].port = net[i].port
            \/ i = q.target /\ q.port # Keep /\ net'[i].port = q.port /\ net[i].c = q.c
        BY <1>9, <1>11, <2>3, <3>1
      <3>4. \/ net'[j].port = net[j].port
            \/ j = q.target /\ q.port # Keep /\ net'[j].port = q.port /\ net[j].c = q.c
        BY <1>9, <1>11, <2>3, <3>1
      <3> QED
        BY <2>2, <3>1, <3>2, <3>3, <3>4
    <2>4. ASSUME NEW m \in NetworkIds, NEW o \in NetworkIds, ~ NetworkExists(m), net'[m] # NoRow,
                 NetworkExists(o), net'[o].live, ProjectOf[net'[m].c] = ProjectOf[net'[o].c],
                 Apart(ProjectOf[net'[m].c])
          PROVE  net'[m].port # net'[o].port
      <3>1. /\ net'[m].c = q.c
            /\ net'[m].port = IF q.port = Keep THEN q.seen[q.target].port ELSE q.port
        BY <1>2, <1>5, <2>4
      <3>2. /\ LiveNetwork(o) /\ o \notin Removed(q) /\ net'[o].c = net[o].c
            /\ ProjectOf[net[o].c] = ProjectOf[q.c] /\ Apart(ProjectOf[q.c])
        BY <2>1, <2>4, <1>2, <1>5
      <3>3. q.c \notin overlapped
        BY <1>11, <3>2
      <3>4. net'[m] \in Added(q)
        BY <1>2, <2>4
      <3>5. q.op = "add" \/ Replaces(q)
        BY <1>5, <3>4
      <3>6. o # q.target
        <4>1. CASE q.op = "add"
          BY <1>2, <4>1, NetworksAssumption DEF EditForm
        <4>2. CASE Replaces(q)
          BY <1>6, <3>2, <4>2
        <4> QED
          BY <3>5, <4>1, <4>2
      <3>7. net'[o].port = net[o].port
        BY <1>9, <2>4, <3>3, <3>6
      <3>8. CASE q.port # Keep
        BY <2>2, <3>1, <3>2, <3>6, <3>7, <3>8
      <3>9. CASE q.port = Keep
        <4>1. Replaces(q)
          BY <1>2, <3>5, <3>9 DEF EditForm
        <4>2. q.target \in NetworksOf(q.c) /\ q.seen[q.target] = net[q.target]
          BY <1>6, <1>8, <3>3, <4>1
        <4>3. net[q.target].port # net[o].port
          BY <3>2, <3>6, <4>2 DEF PortInv, PortsUnique, NetworksOf, ProjectOfRow
        <4> QED
          BY <3>1, <3>7, <3>9, <4>2, <4>3
      <3> QED
        BY <3>8, <3>9
    <2>5. CASE NetworkExists(i) /\ ~ NetworkExists(j)
      BY <2>4, <2>5
    <2>6. CASE ~ NetworkExists(i) /\ NetworkExists(j)
      BY <2>4, <2>6
    <2>7. CASE ~ NetworkExists(i) /\ ~ NetworkExists(j)
      BY <1>2, <2>7
    <2> QED
      BY <2>3, <2>5, <2>6, <2>7
  <1> QED
    BY <1>12, <1>13 DEF PortInv

-----------------------------------------------------------------------------
(* Addresses of node ports. *)

\* The address of a row is there with the time it expires, and is of the event of the row.
RowSound(row) ==
  /\ row.ip = Nil <=> row.expires = Nil
  /\ row.event = Nil => row.ip = Nil
  /\ row.ip \in {Nil, Empty, row.event}
\* A node port is created where none is being created, and a poll is about the row's event.
Asks(q) ==
  (LiveNetwork(q.target) /\ q.c \notin overlapped) =>
    /\ q.op \in {"trigger", "event"} => net[q.target].event = Nil \/ net[q.target].ip # Nil
    /\ q.op = "query" => q.event = net[q.target].event
    /\ q.op = "result" => net[q.target].event # Nil /\ q.result.ip \in {Empty, net[q.target].event}
\* No poll, and no other creation, is under way while a node port is created.
Lone ==
  \A r, s \in Requests :
    (r # s /\ nreq[r] # Idle /\ nreq[s] # Idle /\ nreq[r].op \in {"trigger", "event"} /\ nreq[s].op \in NodeOps
       /\ nreq[r].target = nreq[s].target)
      => nreq[r].c \in overlapped \/ ~ LiveNetwork(nreq[r].target)

AddressInv ==
  /\ \A i \in NetworkIds : LiveNetwork(i) /\ net[i].c \notin overlapped => RowSound(net[i])
  /\ \A r \in Requests : nreq[r] # Idle /\ nreq[r].op \in NodeOps => Asks(nreq[r])
  /\ Lone

LEMMA InitAddress == NetworksInit => AddressInv
  BY DEF NetworksInit, AddressInv, Lone, LiveNetwork, NetworkExists

\* A step after which the rows of node ports under way are as before.
LEMMA AddressStays ==
  ASSUME EditFormInv, AddressInv, overlapped \subseteq overlapped',
         \A i \in NetworkIds : net'[i] # NoRow /\ net'[i].live /\ net'[i].c \notin overlapped' => RowSound(net'[i]),
         \A r \in Requests : nreq'[r] # Idle /\ nreq'[r].op \in NodeOps =>
           nreq[r] # Idle /\ nreq'[r] = nreq[r],
         \A r \in Requests : (nreq'[r] # Idle /\ nreq'[r].op \in NodeOps /\ nreq[r].c \notin overlapped)
           => net'[nreq[r].target] = net[nreq[r].target]
  PROVE  AddressInv'
  <1>1. ASSUME NEW r \in Requests, nreq'[r] # Idle, nreq'[r].op \in NodeOps PROVE (Asks(nreq[r]))'
    <2>1. PICK q : q = nreq[r] /\ q = nreq'[r]
      BY <1>1
    <2>2. Asks(q)
      BY <1>1, <2>1 DEF AddressInv
    <2>3. q.c \notin overlapped => net'[q.target] = net[q.target]
      BY <1>1, <2>1
    <2>4. Asks(q)'
      BY <2>2, <2>3 DEF Asks, LiveNetwork, NetworkExists
    <2> QED
      BY <2>1, <2>4 DEF Asks, LiveNetwork, NetworkExists
  <1>2. Lone'
    <2> SUFFICES ASSUME NEW r \in Requests, NEW s \in Requests, r # s, nreq'[r] # Idle, nreq'[s] # Idle,
                        nreq'[r].op \in {"trigger", "event"}, nreq'[s].op \in NodeOps,
                        nreq'[r].target = nreq'[s].target, nreq'[r].c \notin overlapped',
                        net'[nreq'[r].target] # NoRow, net'[nreq'[r].target].live
                 PROVE  FALSE
      BY DEF Lone, LiveNetwork, NetworkExists
    <2>1. nreq'[r].op \in NodeOps
      BY DEF NodeOps
    <2>2. nreq[r] # Idle /\ nreq'[r] = nreq[r] /\ nreq[s] # Idle /\ nreq'[s] = nreq[s]
      BY <2>1
    <2>3. net'[nreq[r].target] = net[nreq[r].target]
      BY <2>1, <2>2
    <2> QED
      BY <2>2, <2>3 DEF AddressInv, Lone, LiveNetwork, NetworkExists
  <1> QED
    BY <1>1, <1>2 DEF AddressInv, RowSound, LiveNetwork, NetworkExists

\* NetworkSteps of edits that write no row.
LEMMA StillAddress ==
  ASSUME EditFormInv, AddressInv, UNCHANGED net, overlapped \subseteq overlapped',
         \A r \in Requests : nreq'[r] # Idle /\ nreq'[r].op \in NodeOps =>
           nreq[r] # Idle /\ nreq'[r] = nreq[r]
  PROVE  AddressInv'
  <1>1. \A i \in NetworkIds : net'[i] # NoRow /\ net'[i].live /\ net'[i].c \notin overlapped' => RowSound(net'[i])
    BY DEF AddressInv, LiveNetwork, NetworkExists
  <1> QED
    BY <1>1, AddressStays

LEMMA EditStartAddress ==
  ASSUME EditFormInv, AddressInv, NEW r \in Requests, EditStart(r)
  PROVE  AddressInv'
  <1>1. PICK q : /\ q.op \in Edits /\ nreq' = [nreq EXCEPT ![r] = q] /\ UNCHANGED net
                 /\ Overlaps(q.c, OtherRequests(q.c))
    BY EditStartIs
  <1>2. nreq'[r].op \notin NodeOps /\ \A s \in Requests \ {r} : nreq'[s] = nreq[s]
    BY <1>1 DEF EditFormInv, NetworkShape, Edits, NodeOps
  <1>3. overlapped \subseteq overlapped'
    BY <1>1 DEF Overlaps
  <1> QED
    BY <1>1, <1>2, <1>3, StillAddress

LEMMA LockAddress ==
  ASSUME EditFormInv, AddressInv, NEW r \in Requests, LockAndCheck(r)
  PROVE  AddressInv'
  <1>1. PICK q : q = nreq[r]
    OBVIOUS
  <1>2. q.op \in Edits /\ UNCHANGED <<net, overlapped>>
    BY <1>1 DEF LockAndCheck, Editing
  <1>3. PICK l : l = [q EXCEPT !.locked = TRUE]
    OBVIOUS
  <1>4. l.op = q.op
    BY <1>3
  <1>5. nreq'[r] = l /\ \A s \in Requests \ {r} : nreq'[s] = nreq[s]
    BY <1>1, <1>3 DEF EditFormInv, NetworkShape, LockAndCheck
  <1>6. nreq'[r].op \notin NodeOps
    BY <1>2, <1>4, <1>5 DEF Edits, NodeOps
  <1> QED
    BY <1>2, <1>5, <1>6, StillAddress

\* An edit writes back the address that its snapshot has: it is still the row's.
LEMMA SaveAddress ==
  ASSUME EditFormInv, EditAloneInv, AddressInv, NEW r \in Requests, Save(r)
  PROVE  AddressInv'
  <1>1. PICK q : q = nreq[r]
    OBVIOUS
  <1>2. /\ q # Idle /\ q.op \in Edits /\ EditForm(q) /\ SeenRows(q)
        /\ \A i \in NetworkIds : NetworkExists(i) =>
              /\ net'[i] # NoRow /\ net'[i].c = net[i].c
              /\ net'[i].event = net[i].event /\ net'[i].expires = net[i].expires
              /\ net'[i].live = (net[i].live /\ i \notin Removed(q))
              /\ net'[i].ip = IF i \in DOMAIN Kept(q) THEN q.seen[i].ip ELSE net[i].ip
        /\ \A i \in NetworkIds : ~ NetworkExists(i) /\ net'[i] # NoRow => net'[i] \in Added(q)
    BY <1>1, SaveIs
  <1>3. nreq' = [nreq EXCEPT ![r] = Idle] /\ UNCHANGED overlapped
    BY <1>1 DEF Save
  <1>4. nreq'[r] = Idle /\ \A s \in Requests \ {r} : nreq'[s] = nreq[s]
    BY <1>3 DEF EditFormInv, NetworkShape
  <1>5. ASSUME NEW i \in NetworkIds, net'[i] # NoRow, net'[i].live, net'[i].c \notin overlapped
        PROVE  RowSound(net'[i])
    <2>1. CASE NetworkExists(i)
      <3>1. LiveNetwork(i) /\ net[i].c \notin overlapped
        BY <1>2, <1>5, <2>1 DEF LiveNetwork
      <3>2. net'[i].ip = net[i].ip
        <4>1. CASE i \in DOMAIN Kept(q)
          <5>1. net[i].c = q.c
            BY <1>2, <4>1 DEF Kept, SeenRows
          <5>2. i \in NetworksOf(q.c)
            BY <3>1, <5>1 DEF NetworksOf
          <5>3. q.seen[i] = net[i]
            BY <1>1, <1>2, <3>1, <5>1, <5>2 DEF EditAloneInv, Current, EditForm
          <5> QED
            BY <1>2, <2>1, <4>1, <5>3
        <4>2. CASE i \notin DOMAIN Kept(q)
          BY <1>2, <2>1, <4>2
        <4> QED
          BY <4>1, <4>2
      <3>3. RowSound(net[i])
        BY <3>1 DEF AddressInv
      <3> QED
        BY <1>2, <2>1, <3>2, <3>3 DEF RowSound
    <2>2. CASE ~ NetworkExists(i)
      <3>1. net'[i] \in Added(q)
        BY <1>2, <1>5, <2>2
      <3>2. net'[i].ip = Nil /\ net'[i].event = Nil /\ net'[i].expires = Nil
        BY <3>1 DEF Added, NewNetwork
      <3> QED
        BY <3>2 DEF RowSound
    <2> QED
      BY <2>1, <2>2
  <1>6. ASSUME NEW s \in Requests, nreq'[s] # Idle, nreq'[s].op \in NodeOps, nreq[s].c \notin overlapped
        PROVE  net'[nreq[s].target] = net[nreq[s].target]
    <2>1. s # r /\ nreq[s] # Idle /\ nreq[s].op \in NodeOps
      BY <1>4, <1>6
    <2>2. nreq[s].c # q.c
      BY <1>1, <1>2, <1>6, <2>1 DEF EditAloneInv, Exclusive
    <2>3. PICK t : t = nreq[s]
      OBVIOUS
    <2>4. NodeForm(t)
      BY <2>1, <2>3 DEF EditFormInv, NetworkHeld
    <2>5. t.target \in NetworkIds /\ NetworkExists(t.target) /\ net[t.target].c # q.c
      BY <2>2, <2>3, <2>4 DEF NodeForm
    <2>6. net'[t.target] = net[t.target]
      BY <1>1, <2>5, SaveOthers
    <2> QED
      BY <2>3, <2>6
  <1> QED
    BY <1>3, <1>4, <1>5, <1>6, AddressStays

LEMMA AbortAddress ==
  ASSUME EditFormInv, AddressInv, NEW r \in Requests, AbortEdit(r)
  PROVE  AddressInv'
  <1>1. nreq'[r] = Idle /\ \A s \in Requests \ {r} : nreq'[s] = nreq[s]
    BY DEF EditFormInv, NetworkShape, AbortEdit
  <1>2. UNCHANGED <<net, overlapped>>
    BY DEF AbortEdit
  <1> QED
    BY <1>1, <1>2, StillAddress

\* A node port is created when the last one has its result; a poll starts when it has none.
LEMMA MoveAddress ==
  ASSUME EditFormInv, AddressInv, NEW r \in Requests, Moves(r)
  PROVE  AddressInv'
  <1>1. PICK q : nreq' = [nreq EXCEPT ![r] = q] /\ MoveTo(r, q) /\ UNCHANGED net
    BY MoveIs
  <1>2. nreq'[r] = q /\ \A s \in Requests \ {r} : nreq'[s] = nreq[s]
    BY <1>1 DEF EditFormInv, NetworkShape
  <1>3. overlapped \subseteq overlapped'
    BY <1>1 DEF MoveTo, Overlaps
  <1>4. ASSUME NEW i \in NetworkIds, LiveNetwork(i), net[i].c \notin overlapped' PROVE RowSound(net[i])
    BY <1>3, <1>4 DEF AddressInv
  <1>5. \A s \in Requests : nreq[s] # Idle /\ nreq[s].op \in NodeOps =>
          /\ nreq[s].target \in NetworkIds /\ NetworkExists(nreq[s].target)
          /\ net[nreq[s].target].c = nreq[s].c
    BY DEF EditFormInv, NetworkHeld, NodeForm
  <1>6. ASSUME q # Idle, q.op \in NodeOps PROVE Asks(q)'
    <2> SUFFICES ASSUME LiveNetwork(q.target), q.c \notin overlapped'
                 PROVE  /\ q.op \in {"trigger", "event"} => net[q.target].event = Nil \/ net[q.target].ip # Nil
                        /\ q.op = "query" => q.event = net[q.target].event
                        /\ q.op = "result" => /\ net[q.target].event # Nil
                                              /\ q.result.ip \in {Empty, net[q.target].event}
      BY <1>1 DEF Asks, LiveNetwork, NetworkExists
    <2>1. CASE nreq[r] = Idle /\ q.op = "trigger"
      <3>1. /\ q.target \in NetworkIds /\ q.c = net[q.target].c /\ MayCreateNodePort(net[q.target])
        BY <1>1, <2>1 DEF MoveTo
      <3>2. RowSound(net[q.target])
        BY <1>4, <3>1
      <3> QED
        BY <2>1, <3>1, <3>2 DEF MayCreateNodePort, RowSound
    <2>2. CASE nreq[r] = Idle /\ q.op = "query"
      BY <1>1, <2>2 DEF MoveTo
    <2>3. CASE nreq[r] # Idle
      <3>1. PICK t : t = nreq[r]
        OBVIOUS
      <3>2. /\ \/ t.op = "trigger" /\ q.op = "event"
               \/ t.op = "query" /\ q.op = "result" /\ q.result = ResultOf(t.event)
            /\ q.c = t.c /\ q.target = t.target /\ UNCHANGED overlapped
        BY <1>1, <1>6, <2>3, <3>1 DEF MoveTo
      <3>3. Asks(t) /\ NodeForm(t) /\ t.op \in NodeOps
        BY <2>3, <3>1, <3>2 DEF AddressInv, NodeOps, EditFormInv, NetworkHeld
      <3>4. CASE q.op = "event"
        BY <3>2, <3>3, <3>4 DEF Asks
      <3>5. CASE q.op = "result"
        <4>1. t.op = "query" /\ q.result = ResultOf(t.event) /\ t.event \in Events
          BY <3>2, <3>3, <3>5 DEF NodeForm
        <4>2. t.event = net[q.target].event
          BY <3>2, <3>3, <4>1 DEF Asks
        <4>3. q.result.ip \in {Empty, t.event}
          BY <4>1 DEF ResultOf
        <4> QED
          BY <3>5, <4>1, <4>2, <4>3, NetworksAssumption
      <3> QED
        BY <3>2, <3>4, <3>5
    <2> QED
      BY <1>1, <1>6, <2>1, <2>2, <2>3 DEF MoveTo
  <1>7. ASSUME NEW s \in Requests, nreq'[s] # Idle, nreq'[s].op \in NodeOps PROVE (Asks(nreq[s]))'
    <2>1. CASE s = r
      BY <1>2, <1>6, <1>7, <2>1 DEF Asks, LiveNetwork, NetworkExists
    <2>2. CASE s # r
      <3>1. PICK t : t = nreq[s] /\ t = nreq'[s]
        BY <1>2, <2>2
      <3>2. Asks(t)
        BY <1>7, <3>1 DEF AddressInv
      <3>3. Asks(t)'
        BY <1>1, <1>3, <3>2 DEF Asks, LiveNetwork, NetworkExists
      <3> QED
        BY <3>1, <3>3 DEF Asks, LiveNetwork, NetworkExists
    <2> QED
      BY <2>1, <2>2
  <1>8. Lone'
    <2> SUFFICES ASSUME NEW s \in Requests, NEW t \in Requests, s # t, nreq'[s] # Idle, nreq'[t] # Idle,
                        nreq'[s].op \in {"trigger", "event"}, nreq'[t].op \in NodeOps,
                        nreq'[s].target = nreq'[t].target, nreq'[s].c \notin overlapped',
                        LiveNetwork(nreq'[s].target)
                 PROVE  FALSE
      BY <1>1 DEF Lone, LiveNetwork, NetworkExists
    <2>1. CASE nreq[r] = Idle /\ q.op = "trigger"
      <3>1. /\ q.target \in NetworkIds /\ q.c = net[q.target].c /\ Overlaps(q.c, OtherRequests(q.c))
        BY <1>1, <2>1 DEF MoveTo
      <3>2. \A m \in Requests : nreq[m] # Idle /\ nreq[m].c = q.c => q.c \in overlapped'
        BY <3>1 DEF Overlaps, OtherRequests
      <3>3. CASE s = r
        <4>1. nreq[t] # Idle /\ nreq[t].op \in NodeOps /\ nreq[t].target = q.target
          BY <1>2, <3>3
        <4> QED
          BY <1>2, <1>5, <3>1, <3>2, <3>3, <4>1
      <3>4. CASE t = r
        <4>1. nreq[s] # Idle /\ nreq[s].op \in NodeOps /\ nreq[s].target = q.target /\ nreq[s].c \notin overlapped'
          BY <1>2, <3>4 DEF NodeOps
        <4> QED
          BY <1>5, <3>1, <3>2, <4>1
      <3> QED
        BY <1>2, <1>3, <3>3, <3>4 DEF AddressInv, Lone
    <2>2. CASE nreq[r] = Idle /\ q.op = "query"
      <3>1. /\ q.target \in NetworkIds /\ q.c = net[q.target].c /\ net[q.target].event # Nil
            /\ ~ IsActive(net[q.target])
        BY <1>1, <2>2 DEF MoveTo
      <3>2. CASE t = r
        <4>1. nreq[s] # Idle /\ nreq[s].op \in {"trigger", "event"} /\ nreq[s].op \in NodeOps
              /\ nreq[s].target = q.target /\ nreq[s].c \notin overlapped'
          BY <1>2, <3>2 DEF NodeOps
        <4>2. PICK m : m = nreq[s]
          OBVIOUS
        <4>3. Asks(m) /\ LiveNetwork(m.target) /\ m.c \notin overlapped /\ m.op \in {"trigger", "event"}
          BY <1>2, <1>3, <4>1, <4>2, <3>2 DEF AddressInv
        <4>4. net[q.target].ip # Nil
          BY <3>1, <4>1, <4>2, <4>3 DEF Asks
        <4>5. RowSound(net[q.target])
          BY <1>4, <1>5, <3>1, <4>1, <4>2, <4>3
        <4> QED
          BY <3>1, <4>4, <4>5 DEF IsActive, RowSound
      <3>3. CASE s = r
        BY <1>2, <2>2, <3>3
      <3> QED
        BY <1>2, <1>3, <3>2, <3>3 DEF AddressInv, Lone
    <2>3. CASE nreq[r] # Idle
      <3>1. q # Idle => /\ q.c = nreq[r].c /\ q.target = nreq[r].target /\ nreq[r].op \in NodeOps
                        /\ q.op \in {"trigger", "event"} => nreq[r].op \in {"trigger", "event"}
        BY <1>1, <2>3 DEF MoveTo, NodeOps
      <3>2. \A m \in {s, t} : /\ nreq[m] # Idle /\ nreq'[m].c = nreq[m].c /\ nreq'[m].target = nreq[m].target
                              /\ nreq'[m].op \in NodeOps => nreq[m].op \in NodeOps
                              /\ nreq'[m].op \in {"trigger", "event"} => nreq[m].op \in {"trigger", "event"}
        BY <1>2, <2>3, <3>1
      <3> QED
        BY <1>3, <3>2 DEF AddressInv, Lone
    <2> QED
      BY <1>1, <2>1, <2>2, <2>3 DEF MoveTo
  <1>9. \A i \in NetworkIds : LiveNetwork(i) /\ net[i].c \notin overlapped' => RowSound(net[i])
    BY <1>4
  <1> QED
    BY <1>1, <1>7, <1>8, <1>9 DEF AddressInv, RowSound, LiveNetwork, NetworkExists

\* The event of a new node port clears the address; a result is of the row's own event.
LEMMA RowWriteAddress ==
  ASSUME EditFormInv, AddressInv, NEW r \in Requests, RowWrite(r)
  PROVE  AddressInv'
  <1>1. PICK q : q = nreq[r]
    OBVIOUS
  <1>2. /\ q.op \in NodeOps /\ NodeForm(q) /\ nreq' = [nreq EXCEPT ![r] = Idle] /\ UNCHANGED overlapped
        /\ \A i \in NetworkIds \ {q.target} : net'[i] = net[i]
        /\ net'[q.target].c = net[q.target].c /\ net'[q.target].live = net[q.target].live
        /\ q.op = "event" => /\ net'[q.target].event = q.event /\ net'[q.target].ip = Nil
                             /\ net'[q.target].expires = Nil
        /\ q.op # "event" => /\ q.op = "result" /\ net'[q.target].event = net[q.target].event
                             /\ net'[q.target].ip = q.result.ip
                             /\ net'[q.target].expires = q.result.expires
    BY <1>1, RowWriteIs
  <1>3. nreq'[r] = Idle /\ \A s \in Requests \ {r} : nreq'[s] = nreq[s]
    BY <1>2 DEF EditFormInv, NetworkShape
  <1>4. nreq[r] # Idle /\ q.target \in NetworkIds /\ NetworkExists(q.target) /\ net[q.target].c = q.c
    BY <1>2 DEF NodeForm, RowWrite, UpdateNetworkTektonEventID, UpdateNetworkNodePortResult
  <1>5. \A i \in NetworkIds : net'[i] # NoRow /\ net'[i].live => LiveNetwork(i) /\ net'[i].c = net[i].c
    BY <1>2, <1>4 DEF LiveNetwork, NetworkExists
  \* What the step makes of the row, when nothing is too close.
  <1>6. ASSUME LiveNetwork(q.target), q.c \notin overlapped
        PROVE  /\ RowSound(net'[q.target])
               /\ q.op = "result" => net'[q.target].event = net[q.target].event /\ net'[q.target].ip # Nil
    <2>1. RowSound(net[q.target]) /\ Asks(q)
      BY <1>1, <1>2, <1>4, <1>6 DEF AddressInv
    <2>2. CASE q.op = "event"
      BY <1>2, <2>2 DEF RowSound
    <2>3. CASE q.op # "event"
      <3>1. /\ q.op = "result" /\ net[q.target].event # Nil
            /\ q.result.ip \in {Empty, net[q.target].event}
        BY <1>2, <1>6, <2>1, <2>3 DEF Asks
      <3>2. q.result.ip # Nil /\ q.result.expires # Nil
        BY <1>2, <3>1, NetworksAssumption DEF NodeForm
      <3> QED
        BY <1>2, <2>3, <3>1, <3>2 DEF RowSound
    <2> QED
      BY <2>2, <2>3
  <1>7. ASSUME NEW i \in NetworkIds, net'[i] # NoRow, net'[i].live, net'[i].c \notin overlapped
        PROVE  RowSound(net'[i])
    <2>1. CASE i = q.target
      BY <1>2, <1>4, <1>5, <1>6, <1>7, <2>1
    <2>2. CASE i # q.target
      BY <1>2, <1>7, <2>2 DEF AddressInv, LiveNetwork, NetworkExists
    <2> QED
      BY <2>1, <2>2
  <1>8. ASSUME NEW s \in Requests, nreq'[s] # Idle, nreq'[s].op \in NodeOps PROVE (Asks(nreq[s]))'
    <2>1. s # r
      BY <1>3, <1>8
    <2>2. PICK t : t = nreq[s] /\ t = nreq'[s]
      BY <1>3, <2>1
    <2>3. Asks(t) /\ NodeForm(t) /\ t # Idle /\ t.op \in NodeOps
      BY <1>8, <2>2 DEF AddressInv, EditFormInv, NetworkHeld
    <2>4. CASE t.target # q.target
      <3>1. net'[t.target] = net[t.target]
        BY <1>2, <2>3, <2>4 DEF NodeForm
      <3>2. Asks(t)'
        BY <1>2, <2>3, <3>1 DEF Asks, LiveNetwork, NetworkExists
      <3> QED
        BY <2>2, <3>2 DEF Asks, LiveNetwork, NetworkExists
    <2>5. CASE t.target = q.target /\ (t.c \in overlapped \/ ~ LiveNetwork(q.target))
      <3>1. Asks(t)'
        BY <1>2, <1>4, <1>5, <2>5 DEF Asks, LiveNetwork, NetworkExists
      <3> QED
        BY <2>2, <3>1 DEF Asks, LiveNetwork, NetworkExists
    <2>6. CASE t.target = q.target /\ t.c \notin overlapped /\ LiveNetwork(q.target)
      <3>1. t.c = q.c
        BY <1>4, <2>3, <2>6 DEF NodeForm
      <3>2. q.op = "result"
        <4>1. q.op # "event"
          <5>1. q.op = "event" => q.op \in {"trigger", "event"}
            OBVIOUS
          <5> QED
            BY <1>1, <1>4, <2>1, <2>2, <2>3, <2>6, <3>1, <5>1 DEF AddressInv, Lone
        <4> QED
          BY <1>2, <4>1
      <3>3. net'[q.target].event = net[q.target].event /\ net'[q.target].ip # Nil
        BY <1>6, <2>6, <3>1, <3>2
      <3>4. Asks(t)'
        BY <2>3, <2>6, <3>3 DEF Asks
      <3> QED
        BY <2>2, <3>4 DEF Asks, LiveNetwork, NetworkExists
    <2> QED
      BY <2>4, <2>5, <2>6
  <1>9. Lone'
    <2> SUFFICES ASSUME NEW s \in Requests, NEW t \in Requests, s # t, nreq'[s] # Idle, nreq'[t] # Idle,
                        nreq'[s].op \in {"trigger", "event"}, nreq'[t].op \in NodeOps,
                        nreq'[s].target = nreq'[t].target, nreq'[s].c \notin overlapped,
                        net'[nreq'[s].target] # NoRow, net'[nreq'[s].target].live
                 PROVE  FALSE
      BY <1>2 DEF Lone, LiveNetwork, NetworkExists
    <2>1. /\ nreq'[s] = nreq[s] /\ nreq[s] # Idle /\ nreq'[t] = nreq[t] /\ nreq[t] # Idle
      BY <1>3
    <2>2. PICK m : m = nreq[s]
      OBVIOUS
    <2>3. m.target \in NetworkIds
      BY <2>1, <2>2 DEF EditFormInv, NetworkHeld, NodeForm, NodeOps
    <2>4. LiveNetwork(m.target)
      BY <1>5, <2>1, <2>2, <2>3
    <2> QED
      BY <2>1, <2>2, <2>4 DEF AddressInv, Lone
  <1>10. \A i \in NetworkIds : net'[i] # NoRow /\ net'[i].live /\ net'[i].c \notin overlapped' => RowSound(net'[i])
    BY <1>2, <1>7
  <1> QED
    BY <1>8, <1>9, <1>10 DEF AddressInv, RowSound, LiveNetwork, NetworkExists

-----------------------------------------------------------------------------
(* What holds in every reachable state. *)

IInv == EditFormInv /\ EditAloneInv /\ PortInv /\ AddressInv

LEMMA IInvInit == NetworksInit => IInv
  BY InitEditForm, InitAlone, InitPort, InitAddress DEF IInv

LEMMA EditStartInv ==
  ASSUME IInv, NEW r \in Requests, EditStart(r)
  PROVE  PortInv' /\ AddressInv'
  <1>1. PICK q : /\ q.op \in Edits /\ ~ q.locked /\ nreq' = [nreq EXCEPT ![r] = q] /\ UNCHANGED net
                 /\ Overlaps(q.c, OtherRequests(q.c))
    BY EditStartIs DEF IInv
  <1>2. nreq'[r] = q /\ \A s \in Requests \ {r} : nreq'[s] = nreq[s]
    BY <1>1 DEF IInv, EditFormInv, NetworkShape
  <1>3. overlapped \subseteq overlapped'
    BY <1>1 DEF Overlaps
  <1>4. PortInv'
    BY <1>1, <1>2, <1>3, PortStays DEF IInv, LiveNetwork, NetworkExists
  <1> QED
    BY <1>4, EditStartAddress DEF IInv

LEMMA OtherStepsPort ==
  ASSUME IInv, NEW r \in Requests, AbortEdit(r) \/ Moves(r) \/ RowWrite(r)
  PROVE  PortInv'
  <1>1. CASE AbortEdit(r)
    <2>1. nreq' = [nreq EXCEPT ![r] = Idle] /\ UNCHANGED <<net, overlapped>>
      BY <1>1 DEF AbortEdit
    <2> QED
      BY <2>1, PortStays DEF IInv, EditFormInv, NetworkShape, LiveNetwork, NetworkExists
  <1>2. CASE Moves(r)
    <2>1. PICK q : nreq' = [nreq EXCEPT ![r] = q] /\ MoveTo(r, q) /\ UNCHANGED net
      BY <1>2, MoveIs DEF IInv
    <2>2. nreq'[r] = q /\ \A s \in Requests \ {r} : nreq'[s] = nreq[s]
      BY <2>1 DEF IInv, EditFormInv, NetworkShape
    <2>3. overlapped \subseteq overlapped' /\ (q = Idle \/ q.op \notin Edits)
      BY <2>1 DEF MoveTo, Overlaps, Edits
    <2> QED
      BY <2>1, <2>2, <2>3, PortStays DEF IInv, LiveNetwork, NetworkExists
  <1>3. CASE RowWrite(r)
    <2>1. PICK q : q = nreq[r]
      OBVIOUS
    <2>2. /\ NodeForm(q) /\ nreq' = [nreq EXCEPT ![r] = Idle] /\ UNCHANGED overlapped
          /\ \A i \in NetworkIds \ {q.target} : net'[i] = net[i]
          /\ net'[q.target].c = net[q.target].c /\ net'[q.target].live = net[q.target].live
          /\ net'[q.target].port = net[q.target].port
      BY <1>3, <2>1, RowWriteIs DEF IInv
    <2>3. \A i \in NetworkIds : net'[i] # NoRow /\ net'[i].live =>
            LiveNetwork(i) /\ net'[i].c = net[i].c /\ net'[i].port = net[i].port
      BY <2>2 DEF LiveNetwork, NetworkExists, NodeForm
    <2> QED
      BY <2>2, <2>3, PortStays DEF IInv, EditFormInv, NetworkShape
  <1> QED
    BY <1>1, <1>2, <1>3

LEMMA IInvStep == IInv /\ [NetworksNext]_nvars => IInv'
  <1> SUFFICES ASSUME IInv, [NetworksNext]_nvars PROVE PortInv' /\ AddressInv'
    BY EditFormStep, AloneStep DEF IInv
  <1>1. ASSUME NEW r \in Requests, EditStart(r) PROVE PortInv' /\ AddressInv'
    BY <1>1, EditStartInv
  <1>2. ASSUME NEW r \in Requests, LockAndCheck(r) PROVE PortInv' /\ AddressInv'
    BY <1>2, LockPort, LockAddress DEF IInv
  <1>3. ASSUME NEW r \in Requests, Save(r) PROVE PortInv' /\ AddressInv'
    BY <1>3, SavePort, SaveAddress DEF IInv
  <1>4. ASSUME NEW r \in Requests, AbortEdit(r) PROVE PortInv' /\ AddressInv'
    BY <1>4, OtherStepsPort, AbortAddress DEF IInv
  <1>5. ASSUME NEW r \in Requests, Moves(r) PROVE PortInv' /\ AddressInv'
    BY <1>5, OtherStepsPort, MoveAddress DEF IInv
  <1>6. ASSUME NEW r \in Requests, RowWrite(r) PROVE PortInv' /\ AddressInv'
    BY <1>6, OtherStepsPort, RowWriteAddress DEF IInv
  <1>7. ASSUME QuietStep PROVE PortInv' /\ AddressInv'
    <2>1. UNCHANGED <<net, nreq, overlapped>>
      BY <1>7 DEF QuietStep
    <2> QED
      BY <2>1, PortStays, StillAddress DEF IInv, LiveNetwork, NetworkExists
  <1> QED
    BY <1>1, <1>2, <1>3, <1>4, <1>5, <1>6, <1>7, NetworkSteps

\* The claims follow from the invariant.
LEMMA IInvIsSound == IInv => NetworksSound
  <1> SUFFICES ASSUME IInv PROVE NetworksSound
    OBVIOUS
  <1>1. FQDNExclusive /\ PortsUnique
    BY DEF IInv, EditFormInv, PortInv
  <1>2. ASSUME NEW c \in Containers \ overlapped PROVE Cardinality(NetworksOf(c)) <= 1
    <2>1. CASE NetworksOf(c) = {}
      BY <2>1, FS_EmptySet
    <2>2. CASE NetworksOf(c) # {}
      <3>1. PICK i : i \in NetworksOf(c)
        BY <2>2
      <3>2. NetworksOf(c) = {i}
        BY <1>2, <3>1 DEF IInv, EditAloneInv, AtMostOne
      <3> QED
        BY <3>2, FS_Singleton
    <2> QED
      BY <2>1, <2>2
  <1>3. AddressIsOfEvent
    BY DEF AddressIsOfEvent, IInv, AddressInv, RowSound, IsActive
  <1> QED
    BY <1>1, <1>2, <1>3 DEF NetworksSound, OneNetwork

\* FQDNs, internal ports and addresses of networks: FQDNExclusive, OneNetwork and
\* AddressIsOfEvent hold however edits and node ports interleave.
THEOREM NetworksSoundHolds == NetworksSpec => []NetworksSound
  BY IInvInit, IInvStep, IInvIsSound, PTL DEF NetworksSpec

-----------------------------------------------------------------------------
(* Type correctness: above all, a lock is held by a request that is at an  *)
(* edit which wants it.                                                    *)

Edit(r) == nreq[r] # Idle /\ nreq[r].op \in Edits
HoldsRightly(r) ==
  /\ \A c \in Containers : rowLock[c] = r => Edit(r) /\ nreq[r].c = c
  /\ \A p \in ProjectIds : portLock[p] = r => Edit(r) /\ ProjectOf[nreq[r].c] = p
  /\ \A f \in Names : nameLock[f] = r => Edit(r) /\ nreq[r].fqdn = f

LocksInv == \A r \in Requests : HoldsRightly(r) /\ (Edit(r) => nreq[r] \in NetworkEdits)

\* What a request holds survives a step of another one, which takes only free locks.
LEMMA OthersRightly ==
  ASSUME LocksInv, NEW s \in Requests, nreq'[s] = nreq[s],
         \A c \in Containers : rowLock'[c] = s => rowLock[c] = s,
         \A p \in ProjectIds : portLock'[p] = s => portLock[p] = s,
         \A f \in Names : nameLock'[f] = s => nameLock[f] = s
  PROVE  HoldsRightly(s)' /\ (Edit(s)' => nreq'[s] \in NetworkEdits)
  BY DEF LocksInv, HoldsRightly, Edit

\* A request that is idle or about a node port holds nothing, and may go on to anything.
LEMMA NoLockTaken ==
  ASSUME EditFormInv, LocksInv, NEW r \in Requests, ~ Edit(r), NEW q, nreq' = [nreq EXCEPT ![r] = q],
         q # Idle /\ q.op \in Edits => q \in NetworkEdits, UNCHANGED locks
  PROVE  LocksInv'
  <1>1. nreq'[r] = q /\ \A s \in Requests \ {r} : nreq'[s] = nreq[s]
    BY DEF EditFormInv, NetworkShape
  <1>2. UNCHANGED <<rowLock, portLock, nameLock>>
    BY DEF locks
  <1>3. HoldsRightly(r)'
    BY <1>2 DEF LocksInv, HoldsRightly
  <1>4. \A s \in Requests \ {r} : HoldsRightly(s)' /\ (Edit(s)' => nreq'[s] \in NetworkEdits)
    BY <1>1, <1>2, OthersRightly
  <1>5. Edit(r)' => nreq'[r] \in NetworkEdits
    BY <1>1 DEF Edit
  <1> QED
    BY <1>3, <1>4, <1>5 DEF LocksInv

\* A request that ends gives back what it holds.
LEMMA LocksReturned ==
  ASSUME EditFormInv, LocksInv, NEW r \in Requests, Unlocked(r), nreq' = [nreq EXCEPT ![r] = Idle]
  PROVE  LocksInv'
  <1>1. nreq'[r] = Idle /\ \A s \in Requests \ {r} : nreq'[s] = nreq[s]
    BY DEF EditFormInv, NetworkShape
  <1>2. /\ \A c \in Containers : rowLock'[c] # r
        /\ \A p \in ProjectIds : portLock'[p] # r
        /\ \A f \in Names : nameLock'[f] # r
    BY TransactionsAssumption DEF Unlocked
  <1>3. HoldsRightly(r)' /\ ~ Edit(r)'
    BY <1>1, <1>2 DEF HoldsRightly, Edit
  <1>4. \A s \in Requests \ {r} : HoldsRightly(s)' /\ (Edit(s)' => nreq'[s] \in NetworkEdits)
    BY <1>1, UnlockedIs, OthersRightly
  <1> QED
    BY <1>3, <1>4 DEF LocksInv

\* The locks that are taken are those of the container, of its project and of the FQDN.
LEMMA LockTaken ==
  ASSUME EditFormInv, LocksInv, NEW r \in Requests, LockAndCheck(r)
  PROVE  LocksInv'
  <1>1. PICK q : q = nreq[r]
    OBVIOUS
  <1>2. /\ q # Idle /\ q.op \in Edits /\ EditForm(q) /\ rowLock' = [rowLock EXCEPT ![q.c] = r]
        /\ portLock' = IF q.port = Keep THEN portLock ELSE [portLock EXCEPT ![ProjectOf[q.c]] = r]
        /\ nameLock' = IF q.fqdn = Nil THEN nameLock ELSE [nameLock EXCEPT ![q.fqdn] = r]
    BY <1>1 DEF EditFormInv, NetworkHeld, LockAndCheck, Editing
  <1>3. PICK l : l = [q EXCEPT !.locked = TRUE]
    OBVIOUS
  <1>4. nreq' = [nreq EXCEPT ![r] = l]
    BY <1>1, <1>3 DEF LockAndCheck
  <1>5. q \in NetworkEdits
    BY <1>1, <1>2 DEF LocksInv, Edit
  <1>6. l.op = q.op /\ l.c = q.c /\ l.fqdn = q.fqdn /\ l \in NetworkEdits
    BY <1>3, <1>5 DEF NetworkEdits
  <1>7. nreq'[r] = l /\ \A s \in Requests \ {r} : nreq'[s] = nreq[s]
    BY <1>4 DEF EditFormInv, NetworkShape
  <1>8. Edit(r)'
    BY <1>2, <1>6, <1>7, IdleEditAssumption DEF Edit
  <1>9. HoldsRightly(r)
    BY DEF LocksInv
  <1>10. \A c \in Containers : rowLock'[c] = r => c = q.c
    BY <1>1, <1>2, <1>9 DEF EditFormInv, NetworkShape, HoldsRightly
  <1>11. \A p \in ProjectIds : portLock'[p] = r => p = ProjectOf[q.c]
    BY <1>1, <1>2, <1>9 DEF EditFormInv, NetworkShape, HoldsRightly
  <1>12. \A f \in Names : nameLock'[f] = r => f = q.fqdn
    BY <1>1, <1>2, <1>9 DEF EditFormInv, NetworkShape, HoldsRightly
  <1>13. HoldsRightly(r)'
    BY <1>6, <1>7, <1>8, <1>10, <1>11, <1>12 DEF HoldsRightly
  <1>14. ASSUME NEW s \in Requests \ {r} PROVE HoldsRightly(s)' /\ (Edit(s)' => nreq'[s] \in NetworkEdits)
    <2>1. \A c \in Containers : rowLock'[c] = s => rowLock[c] = s
      BY <1>2 DEF EditFormInv, NetworkShape
    <2>2. \A p \in ProjectIds : portLock'[p] = s => portLock[p] = s
      BY <1>2 DEF EditFormInv, NetworkShape
    <2>3. \A f \in Names : nameLock'[f] = s => nameLock[f] = s
      BY <1>2 DEF EditFormInv, NetworkShape
    <2> QED
      BY <1>7, <2>1, <2>2, <2>3, OthersRightly
  <1> QED
    BY <1>6, <1>7, <1>13, <1>14 DEF LocksInv

\* An edit starts with a record of its own kind.
LEMMA EditStarts ==
  ASSUME EditFormInv, NEW r \in Requests, EditStart(r)
  PROVE  \E q \in NetworkEdits : nreq' = [nreq EXCEPT ![r] = q]
  <1>1. PICK op \in Edits, c \in Containers, target \in NetworkIds \cup {Nil}, port \in Ports \cup {Keep},
             fqdn \in Names \cup {Nil} : Begin(r, op, c, target, port, fqdn)
    <2>1. \A i \in NetworkIds : LiveNetwork(i) => net[i].c \in Containers
      BY DEF EditFormInv, NetworkShape, LiveNetwork, NetworkExists, NetworkRows
    <2>2. CASE AddNetwork(r)
      BY <2>2 DEF AddNetwork, Edits
    <2>3. CASE UpdateNetwork(r)
      BY <2>1, <2>3 DEF UpdateNetwork, Edits
    <2>4. CASE DeleteNetwork(r)
      BY <2>1, <2>4 DEF DeleteNetwork, Edits
    <2>5. CASE DropContainer(r)
      BY <2>5 DEF DropContainer, Edits
    <2>6. CASE EditOther(r)
      BY <2>6 DEF EditOther, Edits
    <2> QED
      BY <2>2, <2>3, <2>4, <2>5, <2>6 DEF EditStart
  <1>2. PICK seen : seen = [i \in NetworksOf(c) |-> net[i]]
    OBVIOUS
  <1>3. seen \in [NetworksOf(c) -> NetworkRows] /\ NetworksOf(c) \in SUBSET NetworkIds
    BY <1>2 DEF NetworksOf, LiveNetwork, NetworkExists, EditFormInv, NetworkShape
  <1>4. [op |-> op, locked |-> FALSE, c |-> c, target |-> target, port |-> port, fqdn |-> fqdn, seen |-> seen]
          \in NetworkEdits
    BY <1>3 DEF NetworkEdits
  <1> QED
    BY <1>1, <1>2, <1>4 DEF Begin

LEMMA LocksStep == EditFormInv /\ LocksInv /\ [NetworksNext]_nvars => LocksInv'
  <1> SUFFICES ASSUME EditFormInv, LocksInv, [NetworksNext]_nvars PROVE LocksInv'
    OBVIOUS
  <1>1. ASSUME NEW r \in Requests, EditStart(r) PROVE LocksInv'
    <2>1. nreq[r] = Idle /\ UNCHANGED locks
      BY <1>1, EditStartIs
    <2>2. PICK q \in NetworkEdits : nreq' = [nreq EXCEPT ![r] = q]
      BY <1>1, EditStarts
    <2> QED
      BY <2>1, <2>2, NoLockTaken DEF Edit
  <1>2. ASSUME NEW r \in Requests, Save(r) \/ AbortEdit(r) PROVE LocksInv'
    <2>1. Unlocked(r) /\ nreq' = [nreq EXCEPT ![r] = Idle]
      BY <1>2 DEF Save, AbortEdit
    <2> QED
      BY <2>1, LocksReturned
  <1>3. ASSUME NEW r \in Requests, Moves(r) PROVE LocksInv'
    <2>1. PICK q : nreq' = [nreq EXCEPT ![r] = q] /\ MoveTo(r, q) /\ UNCHANGED locks
      BY <1>3, MoveIs
    <2>2. q # Idle => q.op \in {"trigger", "query", "event", "result"}
      BY <2>1 DEF MoveTo
    <2>3. ~ Edit(r)
      BY <1>3 DEF Moves, Edit, Edits, CreateNodePort, TriggerNodePortCreation, GetNodePort, GetPipelineRunResult
    <2> QED
      BY <2>1, <2>2, <2>3, NoLockTaken DEF Edits
  <1>4. ASSUME NEW r \in Requests, RowWrite(r) PROVE LocksInv'
    <2>1. ~ Edit(r) /\ nreq' = [nreq EXCEPT ![r] = Idle] /\ UNCHANGED locks
      BY <1>4 DEF RowWrite, Edit, Edits, UpdateNetworkTektonEventID, UpdateNetworkNodePortResult
    <2> QED
      BY <2>1, NoLockTaken
  <1>5. CASE QuietStep
    BY <1>5 DEF QuietStep, locks, LocksInv, HoldsRightly, Edit
  <1> QED
    BY <1>1, <1>2, <1>3, <1>4, <1>5, LockTaken, NetworkSteps

\* What the other variables range over.
OthersOK ==
  /\ gone \subseteq Containers /\ overlapped \subseteq Containers
  /\ pipeline \in [Events -> {"none", "running", "succeeded", "failed", "deleted"}] /\ over \subseteq Events

LEMMA OthersStep == EditFormInv /\ OthersOK /\ [NetworksNext]_nvars => OthersOK'
  <1> SUFFICES ASSUME EditFormInv, OthersOK, [NetworksNext]_nvars PROVE OthersOK'
    OBVIOUS
  <1> USE DEF OthersOK
  <1>0. ASSUME NEW c \in Containers, NEW with, Overlaps(c, with) PROVE overlapped' \subseteq Containers
    BY <1>0 DEF Overlaps
  <1>1. ASSUME NEW r \in Requests, EditStart(r) PROVE OthersOK'
    <2>1. PICK q : EditForm(q) /\ Overlaps(q.c, OtherRequests(q.c)) /\ UNCHANGED <<gone, tekton>>
      BY <1>1, EditStartIs
    <2> QED
      BY <1>0, <2>1 DEF EditForm, tekton
  <1>2. ASSUME NEW r \in Requests, LockAndCheck(r) \/ Save(r) \/ AbortEdit(r) PROVE OthersOK'
    <2>1. UNCHANGED <<tekton, overlapped>>
      BY <1>2 DEF LockAndCheck, Save, AbortEdit
    <2>2. gone' \subseteq Containers
      <3>1. CASE Save(r)
        <4>1. EditForm(nreq[r])
          BY <3>1, SaveIs
        <4> QED
          BY <3>1, <4>1 DEF Save, EditForm
      <3> QED
        BY <1>2, <3>1 DEF LockAndCheck, AbortEdit
    <2> QED
      BY <2>1, <2>2 DEF tekton
  <1>3. ASSUME NEW r \in Requests, CreateNodePort(r) \/ GetNodePort(r) PROVE OthersOK'
    <2>1. \A i \in NetworkIds : LiveNetwork(i) => net[i].c \in Containers
      BY DEF EditFormInv, NetworkShape, LiveNetwork, NetworkExists, NetworkRows
    <2>2. PICK c, with : c \in Containers /\ Overlaps(c, with)
      BY <1>3, <2>1 DEF CreateNodePort, GetNodePort
    <2>3. UNCHANGED <<gone, tekton>>
      BY <1>3 DEF CreateNodePort, GetNodePort
    <2> QED
      BY <1>0, <2>2, <2>3 DEF tekton
  <1>4. ASSUME NEW r \in Requests, TriggerNodePortCreation(r) PROVE OthersOK'
    BY <1>4 DEF TriggerNodePortCreation
  <1>5. ASSUME NEW r \in Requests,
               GetPipelineRunResult(r) \/ UpdateNetworkTektonEventID(r) \/ UpdateNetworkNodePortResult(r)
        PROVE  OthersOK'
    BY <1>5 DEF GetPipelineRunResult, UpdateNetworkTektonEventID, UpdateNetworkNodePortResult, tekton
  <1>6. ASSUME NEW e \in Events, PipelineRuns(e) \/ Expires(e) PROVE OthersOK'
    BY <1>6 DEF PipelineRuns, Expires
  <1>7. CASE UNCHANGED nvars
    BY <1>7 DEF nvars
  <1> QED
    BY <1>1, <1>2, <1>3, <1>4, <1>5, <1>6, <1>7 DEF NetworksNext, EditStep, NodePortStep, EditStart

\* Rows keep their shape, and a lock is held by a request at an edit of its container, of its
\* project or with its FQDN (FindByIDForUpdate and the locking reads).
THEOREM NetworksTypeCorrect == NetworksSpec => []NetworksTypeOK
  <1>1. NetworksInit => LocksInv /\ OthersOK
    BY TransactionsAssumption DEF NetworksInit, LocksInv, HoldsRightly, Edit, OthersOK
  <1>2. EditFormInv /\ LocksInv /\ OthersOK => NetworksTypeOK
    BY DEF EditFormInv, NetworkShape, LocksInv, HoldsRightly, Edit, OthersOK, NetworksTypeOK, Editing
  <1> QED
    BY InitEditForm, EditFormStep, LocksStep, OthersStep, <1>1, <1>2, PTL DEF NetworksSpec

-----------------------------------------------------------------------------
(***************************************************************************)
(* The containers of a project, their volumes and the limits of the        *)
(* project, for any number of requests.                                    *)
(***************************************************************************)

-----------------------------------------------------------------------------
(* What the requests hold. *)

Ops == {"create", "update", "save", "delete", "create volume", "mount", "save mount", "compensate", "save unmount"}

\* Volumes that were made for container c; a row of VOLUMES stays, and who it was made for.
Own(vs, c) == \A v \in vs : v \in VolumeIds /\ vol[v] # NoRow /\ vol[v].for = c

\* What a request works on was read from the tables, and "save" holds the lock of its row.
Form(r, q) ==
  /\ q.op \in Ops
  /\ q.op = "create" => q.cpu \in Cpus /\ q.withVolume \in BOOLEAN /\ q.total \in Nat
  /\ q.op # "create" => q.c \in ContainerIds /\ cont[q.c] # NoRow
  /\ q.op \in {"update", "save"} => q.cpu \in Cpus \cup {Keep} /\ q.seen \in ContainerRows /\ Own(q.seen.mounts, q.c)
  /\ q.op = "update" => q = [op |-> "update", c |-> q.c, cpu |-> q.cpu, seen |-> q.seen]
  /\ q.op = "save" => contLock[q.c] = r /\ cont[q.c].live
  /\ q.op \in {"delete", "save mount", "save unmount"} => Own(q.mounts, q.c)
  /\ q.op = "create volume" => q.total \in Nat
  /\ q.op \in {"mount", "save mount", "compensate", "save unmount"} => Own({q.v}, q.c)

RowsOK ==
  /\ cont \in [ContainerIds -> ContainerRows \cup {NoRow}]
  /\ vol \in [VolumeIds -> VolumeRows \cup {NoRow}]
  /\ \A c \in ContainerIds : cont[c] # NoRow => Own(cont[c].mounts, c)
LocksOK ==
  /\ contLock \in [ContainerIds -> Requests \cup {Idle}]
  /\ \A c \in ContainerIds : contLock[c] # Idle => /\ creq[contLock[c]] # Idle /\ creq[contLock[c]].op = "save"
                                                   /\ creq[contLock[c]].c = c
ContainerFormInv ==
  /\ RowsOK /\ LocksOK
  /\ collided \subseteq ContainerIds /\ failed \subseteq ContainerIds
  /\ creq = [r \in Requests |-> creq[r]]
  /\ \A r \in Requests : \A q \in {creq[r]} : q # Idle => Form(r, q)

LEMMA InitContainerForm == ContainersInit => ContainerFormInv
  BY DEF ContainersInit, ContainerFormInv, RowsOK, LocksOK

\* Rows stay, volumes for the same container.
ContainerRowsStay ==
  /\ \A c \in ContainerIds : cont[c] # NoRow => cont'[c] # NoRow
  /\ \A v \in VolumeIds : vol[v] # NoRow => vol'[v] # NoRow /\ vol'[v].for = vol[v].for

LEMMA OwnStays ==
  ASSUME ContainerRowsStay, NEW vs, NEW c, Own(vs, c)
  PROVE  Own(vs, c)'
  BY DEF ContainerRowsStay, Own

\* A step that may end the lock of its own request and nobody else's: "q" is what it makes of
\* the request.
LEMMA StepForm ==
  ASSUME ContainerFormInv, NEW r \in Requests, NEW q, creq' = [creq EXCEPT ![r] = q], q # Idle => Form(r, q)',
         ContainerRowsStay, RowsOK',
         contLock' \in [ContainerIds -> Requests \cup {Idle}],
         \A c \in ContainerIds : \/ contLock'[c] = contLock[c] /\ contLock[c] # r
                                 \/ contLock[c] = r /\ contLock'[c] = Idle
                                 \/ contLock'[c] = r /\ contLock[c] = Idle /\ q # Idle /\ q.op = "save" /\ q.c = c,
         \A c \in ContainerIds : contLock[c] \notin {Idle, r} => cont'[c].live = cont[c].live,
         collided' \subseteq ContainerIds, failed' \subseteq ContainerIds
  PROVE  ContainerFormInv'
  <1>1. creq'[r] = q /\ \A s \in Requests \ {r} : creq'[s] = creq[s]
    BY DEF ContainerFormInv
  <1>2. ASSUME NEW s \in Requests \ {r}, NEW p, p = creq'[s], p # Idle PROVE Form(s, p)'
    <2>1. p = creq[s]
      BY <1>1, <1>2
    <2>2. Form(s, p)
      BY <1>2, <2>1 DEF ContainerFormInv
    <2>3. p.op = "save" => contLock'[p.c] = s /\ cont'[p.c].live
      <3>1. CASE p.op = "save"
        <4>1. p.c \in ContainerIds /\ contLock[p.c] = s /\ cont[p.c].live
          BY <2>2, <3>1 DEF Form
        <4>2. s \notin {Idle, r}
          BY TransactionsAssumption
        <4> QED
          BY <4>1, <4>2
      <3> QED
        BY <3>1
    <2>4. \A vs, c : Own(vs, c) => Own(vs, c)'
      BY OwnStays
    <2>5. p.op # "create" => p.c \in ContainerIds /\ cont'[p.c] # NoRow
      BY <2>2 DEF Form, ContainerRowsStay
    <2> QED
      BY <2>2, <2>3, <2>4, <2>5 DEF Form
  <1>3. LocksOK'
    <2> SUFFICES ASSUME NEW c \in ContainerIds, contLock'[c] # Idle
                 PROVE  /\ creq'[contLock'[c]] # Idle /\ creq'[contLock'[c]].op = "save"
                        /\ creq'[contLock'[c]].c = c
      BY DEF LocksOK
    <2>1. CASE contLock'[c] = contLock[c] /\ contLock[c] # r
      <3>1. contLock[c] \in Requests \ {r}
        BY <2>1 DEF ContainerFormInv, LocksOK
      <3> QED
        BY <1>1, <2>1, <3>1 DEF ContainerFormInv, LocksOK
    <2>2. CASE contLock'[c] = r /\ q # Idle /\ q.op = "save" /\ q.c = c
      BY <1>1, <2>2
    <2> QED
      BY <2>1, <2>2
  <1>4. ASSUME NEW s \in Requests, NEW p \in {creq'[s]}, p # Idle PROVE Form(s, p)'
    <2>1. CASE s = r
      BY <1>1, <1>4, <2>1
    <2>2. CASE s # r
      BY <1>2, <1>4, <2>2
    <2> QED
      BY <2>1, <2>2
  <1>5. creq' = [s \in Requests |-> creq'[s]]
    BY DEF ContainerFormInv
  <1> QED
    BY <1>3, <1>4, <1>5 DEF ContainerFormInv

\* A request that does not save holds no lock.
LEMMA NoLock ==
  ASSUME ContainerFormInv, NEW r \in Requests, creq[r] = Idle \/ creq[r].op # "save"
  PROVE  \A c \in ContainerIds : contLock[c] # r
  BY TransactionsAssumption DEF ContainerFormInv, LocksOK

\* The steps that leave the locks alone.
LEMMA StepFormUnlocked ==
  ASSUME ContainerFormInv, NEW r \in Requests, creq[r] = Idle \/ creq[r].op # "save",
         NEW q, creq' = [creq EXCEPT ![r] = q], q # Idle => Form(r, q)',
         ContainerRowsStay, RowsOK', contLock' = contLock,
         \A c \in ContainerIds : contLock[c] # Idle => cont'[c].live = cont[c].live,
         collided' \subseteq ContainerIds, failed' \subseteq ContainerIds
  PROVE  ContainerFormInv'
  <1>1. \A c \in ContainerIds : contLock[c] # r
    BY NoLock
  <1>2. contLock' \in [ContainerIds -> Requests \cup {Idle}]
    BY DEF ContainerFormInv, LocksOK
  <1> QED
    BY <1>1, <1>2, StepForm

\* The steps that only read.
LEMMA StepFormRead ==
  ASSUME ContainerFormInv, NEW r \in Requests, creq[r] = Idle \/ creq[r].op # "save",
         NEW q, creq' = [creq EXCEPT ![r] = q], q # Idle => Form(r, q)',
         cont' = cont, vol' = vol, contLock' = contLock,
         collided' \subseteq ContainerIds, failed' \subseteq ContainerIds
  PROVE  ContainerFormInv'
  <1>1. ContainerRowsStay
    BY DEF ContainerRowsStay
  <1>2. RowsOK'
    BY DEF ContainerFormInv, RowsOK, Own
  <1> QED
    BY <1>1, <1>2, StepFormUnlocked

\* One row of CONTAINERS is inserted or replaced.
LEMMA RowsEdited ==
  ASSUME ContainerFormInv, NEW c \in ContainerIds, NEW row \in ContainerRows, cont' = [cont EXCEPT ![c] = row],
         vol' \in [VolumeIds -> VolumeRows \cup {NoRow}],
         \A v \in VolumeIds : vol[v] # NoRow => vol'[v] # NoRow /\ vol'[v].for = vol[v].for,
         Own(row.mounts, c)'
  PROVE  ContainerRowsStay /\ RowsOK'
  <1>1. cont'[c] = row /\ \A d \in ContainerIds \ {c} : cont'[d] = cont[d]
    BY DEF ContainerFormInv, RowsOK
  <1>2. row # NoRow
    BY NoContainerAssumption
  <1>3. ContainerRowsStay
    BY <1>1, <1>2 DEF ContainerRowsStay
  <1>4. cont' \in [ContainerIds -> ContainerRows \cup {NoRow}]
    BY DEF ContainerFormInv, RowsOK
  <1>5. ASSUME NEW d \in ContainerIds, NEW vs, cont'[d] # NoRow, vs = cont'[d].mounts PROVE Own(vs, d)'
    <2>1. CASE d = c
      BY <1>1, <1>5, <2>1
    <2>2. CASE d # c
      <3>1. cont[d] # NoRow /\ vs = cont[d].mounts
        BY <1>1, <1>5, <2>2
      <3>2. Own(vs, d)
        BY <3>1 DEF ContainerFormInv, RowsOK
      <3> QED
        BY <1>3, <3>2, OwnStays
    <2> QED
      BY <2>1, <2>2
  <1> QED
    BY <1>3, <1>4, <1>5 DEF RowsOK, Own

\* The row of a volume is dropped everywhere.
LEMMA DropVolumeIs ==
  ASSUME ContainerFormInv, NEW v \in VolumeIds, vol[v] # NoRow, DropVolume(v)
  PROVE  /\ \A c \in ContainerIds : cont[c] = NoRow => cont'[c] = NoRow
         /\ \A c \in ContainerIds : cont[c] # NoRow =>
              /\ cont'[c] # NoRow /\ cont'[c].cpu = cont[c].cpu /\ cont'[c].live = cont[c].live
              /\ cont'[c].mounts = cont[c].mounts \ {v}
         /\ vol'[v] # NoRow /\ vol'[v].for = vol[v].for /\ vol'[v].live = FALSE
         /\ \A w \in VolumeIds \ {v} : vol'[w] = vol[w]
         /\ ContainerRowsStay /\ RowsOK'
  <1>1. ASSUME NEW c \in ContainerIds, cont[c] # NoRow
        PROVE  /\ cont'[c] # NoRow /\ cont'[c].cpu = cont[c].cpu /\ cont'[c].live = cont[c].live
               /\ cont'[c].mounts = cont[c].mounts \ {v} /\ cont'[c] \in ContainerRows
    <2>1. PICK old : old = cont[c] /\ old \in ContainerRows
      BY <1>1 DEF ContainerFormInv, RowsOK
    <2>2. cont'[c] = [old EXCEPT !.mounts = @ \ {v}]
      BY <1>1, <2>1 DEF DropVolume, Unmounted
    <2>3. [old EXCEPT !.mounts = @ \ {v}] = [cpu |-> old.cpu, live |-> old.live, mounts |-> old.mounts \ {v}]
      BY <2>1 DEF ContainerRows
    <2>4. [cpu |-> old.cpu, live |-> old.live, mounts |-> old.mounts \ {v}] \in ContainerRows
      BY <2>1 DEF ContainerRows
    <2> QED
      BY <2>1, <2>2, <2>3, <2>4, NoContainerAssumption
  <1>2. \A c \in ContainerIds : cont[c] = NoRow => cont'[c] = NoRow
    BY DEF DropVolume, Unmounted
  <1>3. vol'[v].for = vol[v].for /\ vol'[v].live = FALSE /\ vol'[v] \in VolumeRows
    <2>1. PICK old : old = vol[v] /\ old \in VolumeRows
      BY DEF ContainerFormInv, RowsOK
    <2>2. vol'[v] = [old EXCEPT !.live = FALSE]
      <3>1. vol \in [VolumeIds -> VolumeRows \cup {NoRow}]
        BY DEF ContainerFormInv, RowsOK
      <3>2. vol' = [vol EXCEPT ![v].live = FALSE]
        BY DEF DropVolume
      <3> QED
        BY <2>1, <3>1, <3>2
    <2>3. [old EXCEPT !.live = FALSE].for = old.for /\ [old EXCEPT !.live = FALSE].live = FALSE
      BY <2>1 DEF VolumeRows
    <2>4. [old EXCEPT !.live = FALSE] \in VolumeRows
      BY <2>1 DEF VolumeRows
    <2> QED
      BY <2>1, <2>2, <2>3, <2>4
  <1>4. \A w \in VolumeIds \ {v} : vol'[w] = vol[w]
    <2>1. vol \in [VolumeIds -> VolumeRows \cup {NoRow}]
      BY DEF ContainerFormInv, RowsOK
    <2>2. vol' = [vol EXCEPT ![v].live = FALSE]
      BY DEF DropVolume
    <2> QED
      BY <2>1, <2>2
  <1>5. vol'[v] # NoRow /\ vol'[v].for = vol[v].for
    BY <1>3, NoContainerAssumption
  <1>6. ContainerRowsStay
    BY <1>1, <1>4, <1>5 DEF ContainerRowsStay
  <1>7. cont' = [c \in ContainerIds |-> cont'[c]]
    BY DEF DropVolume, Unmounted
  <1>8. cont' \in [ContainerIds -> ContainerRows \cup {NoRow}]
    BY <1>1, <1>2, <1>7
  <1>9. vol' \in [VolumeIds -> VolumeRows \cup {NoRow}]
    <2>1. vol \in [VolumeIds -> VolumeRows \cup {NoRow}]
      BY DEF ContainerFormInv, RowsOK
    <2>2. vol' = [w \in VolumeIds |-> vol'[w]]
      BY <2>1 DEF DropVolume
    <2>3. \A w \in VolumeIds : vol'[w] \in VolumeRows \cup {NoRow}
      BY <1>3, <1>4, <2>1
    <2> QED
      BY <2>2, <2>3
  <1>10. ASSUME NEW c \in ContainerIds, NEW vs, cont'[c] # NoRow, vs = cont'[c].mounts PROVE Own(vs, c)'
    <2>1. cont[c] # NoRow
      BY <1>2, <1>10
    <2>2. vs = cont[c].mounts \ {v}
      BY <1>1, <1>10, <2>1
    <2>3. Own(vs, c)
      BY <2>1, <2>2 DEF ContainerFormInv, RowsOK, Own
    <2> QED
      BY <1>6, <2>3, OwnStays
  <1>11. RowsOK'
    BY <1>8, <1>9, <1>10 DEF RowsOK, Own
  <1> QED
    BY <1>1, <1>2, <1>3, <1>4, <1>5, <1>6, <1>11

-----------------------------------------------------------------------------
(* What the transactions do to the rows. *)

LEMMA CommitContainerIs ==
  ASSUME ContainerFormInv, NEW r \in Requests, CommitContainer(r)
  PROVE  \E c \in ContainerIds, row \in ContainerRows :
           /\ cont[c] = NoRow /\ cont' = [cont EXCEPT ![c] = row]
           /\ row.cpu = creq[r].cpu /\ row.live = TRUE /\ Own(row.mounts, c)'
           /\ vol' \in [VolumeIds -> VolumeRows \cup {NoRow}]
           /\ \A v \in VolumeIds : IF vol[v] # NoRow THEN vol'[v] = vol[v] ELSE vol'[v] = NoRow \/ v \in row.mounts
  <1>1. PICK q : q = creq[r] /\ q \in {creq[r]} /\ q # Idle /\ q.op = "create"
    BY DEF CommitContainer
  <1>2. q.cpu \in Cpus
    BY <1>1 DEF ContainerFormInv, Form
  <1>3. PICK c \in ContainerIds :
          /\ NextContainer(c)
          /\ \/ /\ cont' = [cont EXCEPT ![c] = [cpu |-> q.cpu, live |-> TRUE, mounts |-> {}]]
                /\ vol' = vol
             \/ \E v \in VolumeIds :
                  /\ NextVolume(v)
                  /\ vol' = [vol EXCEPT ![v] = [for |-> c, live |-> TRUE]]
                  /\ cont' = [cont EXCEPT ![c] = [cpu |-> q.cpu, live |-> TRUE, mounts |-> {v}]]
    BY <1>1 DEF CommitContainer
  <1>4. cont[c] = NoRow
    BY <1>3 DEF NextContainer
  <1>5. CASE cont' = [cont EXCEPT ![c] = [cpu |-> q.cpu, live |-> TRUE, mounts |-> {}]] /\ vol' = vol
    <2>1. PICK row : row = [cpu |-> q.cpu, live |-> TRUE, mounts |-> {}]
      OBVIOUS
    <2>2. row \in ContainerRows /\ row.cpu = q.cpu /\ row.live = TRUE /\ row.mounts = {}
      BY <1>2, <2>1 DEF ContainerRows
    <2>3. Own(row.mounts, c)'
      BY <2>2 DEF Own
    <2>4. vol' \in [VolumeIds -> VolumeRows \cup {NoRow}]
      BY <1>5 DEF ContainerFormInv, RowsOK
    <2> QED
      BY <1>1, <1>4, <1>5, <2>1, <2>2, <2>3, <2>4
  <1>6. ASSUME NEW v \in VolumeIds, NextVolume(v),
               vol' = [vol EXCEPT ![v] = [for |-> c, live |-> TRUE]],
               cont' = [cont EXCEPT ![c] = [cpu |-> q.cpu, live |-> TRUE, mounts |-> {v}]]
        PROVE  \E row \in ContainerRows :
                 /\ cont' = [cont EXCEPT ![c] = row]
                 /\ row.cpu = q.cpu /\ row.live = TRUE /\ Own(row.mounts, c)'
                 /\ vol' \in [VolumeIds -> VolumeRows \cup {NoRow}]
                 /\ \A w \in VolumeIds : IF vol[w] # NoRow THEN vol'[w] = vol[w]
                                                           ELSE vol'[w] = NoRow \/ w \in row.mounts
    <2>1. PICK row : row = [cpu |-> q.cpu, live |-> TRUE, mounts |-> {v}]
      OBVIOUS
    <2>2. row \in ContainerRows /\ row.cpu = q.cpu /\ row.live = TRUE /\ row.mounts = {v}
      BY <1>2, <2>1 DEF ContainerRows
    <2>3. PICK new : new = [for |-> c, live |-> TRUE]
      OBVIOUS
    <2>4. new \in VolumeRows /\ new # NoRow /\ new.for = c
      <3>1. new \in VolumeRows
        BY <2>3 DEF VolumeRows
      <3>2. new.for = c
        BY <2>3
      <3> QED
        BY <3>1, <3>2, NoContainerAssumption
    <2>5. vol \in [VolumeIds -> VolumeRows \cup {NoRow}]
      BY DEF ContainerFormInv, RowsOK
    <2>6. vol' = [vol EXCEPT ![v] = new]
      BY <1>6, <2>3
    <2>7. Own(row.mounts, c)'
      BY <2>2, <2>4, <2>5, <2>6 DEF Own
    <2>8. vol' \in [VolumeIds -> VolumeRows \cup {NoRow}]
      BY <2>4, <2>5, <2>6
    <2>9. vol[v] = NoRow
      BY <1>6 DEF NextVolume
    <2>10. \A w \in VolumeIds : IF vol[w] # NoRow THEN vol'[w] = vol[w] ELSE vol'[w] = NoRow \/ w \in row.mounts
      BY <2>2, <2>5, <2>6, <2>9
    <2> QED
      BY <1>6, <2>1, <2>2, <2>7, <2>8, <2>10
  <1> QED
    BY <1>1, <1>3, <1>4, <1>5, <1>6

\* What "save" replaces: the mounts it has seen, and the CPU of its body.
Saved(q, row) ==
  /\ cont' = [cont EXCEPT ![q.c] = row] /\ row.live = TRUE /\ row.mounts = q.seen.mounts
  /\ row.cpu = IF q.cpu = Keep THEN cont[q.c].cpu ELSE q.cpu

LEMMA SaveContainerIs ==
  ASSUME ContainerFormInv, NEW r \in Requests, NEW q, q = creq[r], SaveContainer(r)
  PROVE  /\ q.c \in ContainerIds /\ cont[q.c] \in ContainerRows /\ cont[q.c].live = TRUE /\ contLock[q.c] = r
         /\ \E row \in ContainerRows : Saved(q, row)
  <1>1. q # Idle /\ q.op = "save"
    BY DEF SaveContainer
  <1>2. Form(r, q)
    BY <1>1 DEF ContainerFormInv
  <1>3. /\ q.c \in ContainerIds /\ cont[q.c] # NoRow /\ contLock[q.c] = r /\ cont[q.c].live
        /\ q.cpu \in Cpus \cup {Keep} /\ q.seen \in ContainerRows
    BY <1>1, <1>2 DEF Form
  <1>4. PICK old : old = cont[q.c] /\ old \in ContainerRows
    BY <1>3 DEF ContainerFormInv, RowsOK
  <1>5. old.live = TRUE /\ old.cpu \in Cpus
    BY <1>3, <1>4 DEF ContainerRows
  <1>6. q.seen.mounts \in SUBSET VolumeIds
    BY <1>3 DEF ContainerRows
  <1>7. PICK cpu : cpu = (IF q.cpu = Keep THEN old.cpu ELSE q.cpu) /\ cpu \in Cpus
    BY <1>3, <1>5
  <1>8. PICK row : row = [[old EXCEPT !.mounts = q.seen.mounts] EXCEPT !.cpu = cpu]
    OBVIOUS
  <1>9. row \in ContainerRows /\ row.live = TRUE /\ row.mounts = q.seen.mounts /\ row.cpu = cpu
    BY <1>4, <1>5, <1>6, <1>7, <1>8 DEF ContainerRows
  <1>10. cont' = [cont EXCEPT ![q.c].mounts = q.seen.mounts, ![q.c].cpu = IF q.cpu = Keep THEN @ ELSE q.cpu]
    BY DEF SaveContainer
  <1>11. cont \in [ContainerIds -> ContainerRows \cup {NoRow}]
    BY DEF ContainerFormInv, RowsOK
  <1>12. [old EXCEPT !.mounts = q.seen.mounts].cpu = old.cpu
    BY <1>4 DEF ContainerRows
  <1>13. cont' = [cont EXCEPT ![q.c] = row]
    BY <1>3, <1>4, <1>7, <1>8, <1>10, <1>11, <1>12
  <1>14. Saved(q, row)
    BY <1>4, <1>7, <1>9, <1>13 DEF Saved
  <1> QED
    BY <1>3, <1>4, <1>5, <1>9, <1>14

\* A deletion drops the row and every volume it saw there, but for those that it fails to drop.
Deleted(q, row) ==
  /\ cont' = [cont EXCEPT ![q.c] = row]
  /\ row.cpu = cont[q.c].cpu /\ row.live = FALSE /\ row.mounts \subseteq q.mounts
  /\ vol' \in [VolumeIds -> VolumeRows \cup {NoRow}]
  /\ \A v \in VolumeIds : v \in q.mounts \ row.mounts =>
       vol[v] # NoRow /\ vol'[v] # NoRow /\ vol'[v].for = vol[v].for /\ vol'[v].live = FALSE
  /\ \A v \in VolumeIds : v \notin q.mounts \ row.mounts => vol'[v] = vol[v]
  /\ row.mounts = {} => failed' = failed
  /\ row.mounts # {} => failed' = failed \cup {q.c}

LEMMA CommitContainerDeleteIs ==
  ASSUME ContainerFormInv, NEW r \in Requests, NEW q, q = creq[r], CommitContainerDelete(r)
  PROVE  /\ q.c \in ContainerIds /\ LiveContainer(q.c) /\ contLock[q.c] = Idle /\ cont[q.c] \in ContainerRows
         /\ \E row \in ContainerRows : Deleted(q, row)
  <1>1. q # Idle /\ q.op = "delete" /\ MaySave(q.c, q.mounts)
    BY DEF CommitContainerDelete
  <1>2. Form(r, q)
    BY <1>1 DEF ContainerFormInv
  <1>3. q.c \in ContainerIds /\ cont[q.c] # NoRow /\ Own(q.mounts, q.c)
    BY <1>1, <1>2 DEF Form
  <1>4. PICK old : old = cont[q.c] /\ old \in ContainerRows
    BY <1>3 DEF ContainerFormInv, RowsOK
  <1>5. PICK kept \in SUBSET q.mounts :
          /\ cont' = [cont EXCEPT ![q.c].live = FALSE, ![q.c].mounts = kept]
          /\ vol' = [v \in VolumeIds |-> IF v \in VolumesToDelete(q.mounts) \ kept
                                         THEN [vol[v] EXCEPT !.live = FALSE] ELSE vol[v]]
          /\ failed' = IF kept = {} THEN failed ELSE failed \cup {q.c}
    BY DEF CommitContainerDelete
  <1>6. kept \in SUBSET VolumeIds
    BY <1>3, <1>5 DEF Own
  <1>7. PICK row : row = [[old EXCEPT !.live = FALSE] EXCEPT !.mounts = kept]
    OBVIOUS
  <1>8. row \in ContainerRows /\ row.cpu = old.cpu /\ row.live = FALSE /\ row.mounts = kept
    BY <1>4, <1>6, <1>7 DEF ContainerRows
  <1>9. cont \in [ContainerIds -> ContainerRows \cup {NoRow}]
    BY DEF ContainerFormInv, RowsOK
  <1>10. cont' = [cont EXCEPT ![q.c] = row]
    BY <1>3, <1>4, <1>5, <1>7, <1>9
  <1>11. ASSUME NEW v \in VolumeIds
         PROVE  /\ vol'[v] \in VolumeRows \cup {NoRow}
                /\ v \in q.mounts \ kept =>
                     vol[v] # NoRow /\ vol'[v] # NoRow /\ vol'[v].for = vol[v].for /\ vol'[v].live = FALSE
                /\ v \notin q.mounts \ kept => vol'[v] = vol[v]
    <2>1. CASE v \in q.mounts \ kept
      <3>1. vol[v] # NoRow
        BY <1>3, <2>1 DEF Own
      <3>2. PICK was : was = vol[v] /\ was \in VolumeRows
        BY <3>1 DEF ContainerFormInv, RowsOK
      <3>3. vol'[v] = [was EXCEPT !.live = FALSE]
        BY <1>5, <2>1, <3>2 DEF VolumesToDelete
      <3>4. [was EXCEPT !.live = FALSE].for = was.for /\ [was EXCEPT !.live = FALSE].live = FALSE
        BY <3>2 DEF VolumeRows
      <3>5. [was EXCEPT !.live = FALSE] \in VolumeRows
        BY <3>2 DEF VolumeRows
      <3> QED
        BY <2>1, <3>1, <3>2, <3>3, <3>4, <3>5, NoContainerAssumption
    <2>2. CASE v \notin q.mounts \ kept
      <3>1. vol'[v] = vol[v]
        BY <1>5, <2>2 DEF VolumesToDelete
      <3>2. vol[v] \in VolumeRows \cup {NoRow}
        BY DEF ContainerFormInv, RowsOK
      <3> QED
        BY <2>2, <3>1, <3>2
    <2> QED
      BY <2>1, <2>2
  <1>12. vol' \in [VolumeIds -> VolumeRows \cup {NoRow}]
    <2>1. vol' = [v \in VolumeIds |-> vol'[v]]
      BY <1>5
    <2> QED
      BY <1>11, <2>1
  <1>13. /\ row.cpu = cont[q.c].cpu /\ row.live = FALSE /\ row.mounts \subseteq q.mounts
         /\ row.mounts = {} => failed' = failed
         /\ row.mounts # {} => failed' = failed \cup {q.c}
    BY <1>4, <1>5, <1>8
  <1>14. LiveContainer(q.c) /\ contLock[q.c] = Idle
    BY <1>1 DEF MaySave
  <1>15. Deleted(q, row)
    BY <1>8, <1>10, <1>11, <1>12, <1>13 DEF Deleted
  <1> QED
    BY <1>3, <1>4, <1>8, <1>15, <1>14

LEMMA SaveMountIs ==
  ASSUME ContainerFormInv, NEW r \in Requests, NEW q, q = creq[r], SaveMount(r)
  PROVE  /\ q.c \in ContainerIds /\ LiveContainer(q.c) /\ contLock[q.c] = Idle /\ cont[q.c] \in ContainerRows
         /\ \E row \in ContainerRows :
              /\ cont' = [cont EXCEPT ![q.c] = row] /\ row.cpu = cont[q.c].cpu /\ row.live = cont[q.c].live
              /\ row.mounts = q.mounts \cup {q.v} /\ Own(row.mounts, q.c)
  <1>1. q # Idle /\ q.op = "save mount" /\ contLock[q.c] = Idle /\ LiveContainer(q.c)
    BY DEF SaveMount, MaySave
  <1>2. Form(r, q)
    BY <1>1 DEF ContainerFormInv
  <1>3. q.c \in ContainerIds /\ cont[q.c] # NoRow /\ Own(q.mounts \cup {q.v}, q.c)
    BY <1>1, <1>2 DEF Form, Own
  <1>4. PICK old : old = cont[q.c] /\ old \in ContainerRows
    BY <1>3 DEF ContainerFormInv, RowsOK
  <1>5. PICK row : row = [old EXCEPT !.mounts = q.mounts \cup {q.v}]
    OBVIOUS
  <1>6. row \in ContainerRows /\ row.cpu = old.cpu /\ row.live = old.live /\ row.mounts = q.mounts \cup {q.v}
    <2>1. (q.mounts \cup {q.v}) \in SUBSET VolumeIds
      BY <1>3 DEF Own
    <2> QED
      BY <1>4, <1>5, <2>1 DEF ContainerRows
  <1>7. cont' = [cont EXCEPT ![q.c] = row]
    <2>1. cont \in [ContainerIds -> ContainerRows \cup {NoRow}]
      BY DEF ContainerFormInv, RowsOK
    <2>2. cont' = [cont EXCEPT ![q.c].mounts = q.mounts \cup {q.v}]
      BY DEF SaveMount
    <2> QED
      BY <1>3, <1>4, <1>5, <2>1, <2>2
  <1> QED
    BY <1>1, <1>3, <1>4, <1>6, <1>7

LEMMA SaveUnmountIs ==
  ASSUME ContainerFormInv, NEW r \in Requests, NEW q, q = creq[r], SaveUnmount(r)
  PROVE  /\ q.c \in ContainerIds /\ LiveContainer(q.c) /\ contLock[q.c] = Idle /\ cont[q.c] \in ContainerRows
         /\ \E row \in ContainerRows :
              /\ cont' = [cont EXCEPT ![q.c] = row] /\ row.cpu = cont[q.c].cpu /\ row.live = cont[q.c].live
              /\ row.mounts = q.mounts /\ Own(row.mounts, q.c)
  <1>1. q # Idle /\ q.op = "save unmount" /\ contLock[q.c] = Idle /\ LiveContainer(q.c)
    BY DEF SaveUnmount, MaySave
  <1>2. Form(r, q)
    BY <1>1 DEF ContainerFormInv
  <1>3. q.c \in ContainerIds /\ cont[q.c] # NoRow /\ Own(q.mounts, q.c)
    BY <1>1, <1>2 DEF Form
  <1>4. PICK old : old = cont[q.c] /\ old \in ContainerRows
    BY <1>3 DEF ContainerFormInv, RowsOK
  <1>5. PICK row : row = [old EXCEPT !.mounts = q.mounts]
    OBVIOUS
  <1>6. row \in ContainerRows /\ row.cpu = old.cpu /\ row.live = old.live /\ row.mounts = q.mounts
    <2>1. q.mounts \in SUBSET VolumeIds
      BY <1>3 DEF Own
    <2> QED
      BY <1>4, <1>5, <2>1 DEF ContainerRows
  <1>7. cont' = [cont EXCEPT ![q.c] = row]
    <2>1. cont \in [ContainerIds -> ContainerRows \cup {NoRow}]
      BY DEF ContainerFormInv, RowsOK
    <2>2. cont' = [cont EXCEPT ![q.c].mounts = q.mounts]
      BY DEF SaveUnmount
    <2> QED
      BY <1>3, <1>4, <1>5, <2>1, <2>2
  <1> QED
    BY <1>1, <1>3, <1>4, <1>6, <1>7

LEMMA CreateVolumeIs ==
  ASSUME ContainerFormInv, NEW r \in Requests, NEW q, q = creq[r], CreateVolume(r)
  PROVE  /\ q.c \in ContainerIds /\ cont[q.c] # NoRow /\ vol' \in [VolumeIds -> VolumeRows \cup {NoRow}]
         /\ \E v \in VolumeIds :
              /\ vol[v] = NoRow /\ vol'[v] # NoRow /\ vol'[v].for = q.c
              /\ \A w \in VolumeIds \ {v} : vol'[w] = vol[w]
              /\ creq' = [creq EXCEPT ![r] = [op |-> "mount", c |-> q.c, v |-> v]]
  <1>1. q # Idle /\ q.op = "create volume"
    BY DEF CreateVolume
  <1>2. q.c \in ContainerIds /\ cont[q.c] # NoRow
    BY <1>1 DEF ContainerFormInv, Form
  <1>3. PICK v \in VolumeIds :
          /\ vol[v] = NoRow /\ vol' = [vol EXCEPT ![v] = [for |-> q.c, live |-> TRUE]]
          /\ creq' = [creq EXCEPT ![r] = [op |-> "mount", c |-> q.c, v |-> v]]
    BY DEF CreateVolume, NextVolume, Goes
  <1>4. PICK new : new = [for |-> q.c, live |-> TRUE]
    OBVIOUS
  <1>5. new \in VolumeRows /\ new # NoRow /\ new.for = q.c
    <2>1. new \in VolumeRows
      BY <1>2, <1>4 DEF VolumeRows
    <2>2. new.for = q.c
      BY <1>4
    <2> QED
      BY <2>1, <2>2, NoContainerAssumption
  <1>6. vol \in [VolumeIds -> VolumeRows \cup {NoRow}]
    BY DEF ContainerFormInv, RowsOK
  <1>7. /\ vol' \in [VolumeIds -> VolumeRows \cup {NoRow}]
        /\ vol'[v] = new /\ \A w \in VolumeIds \ {v} : vol'[w] = vol[w]
    BY <1>3, <1>4, <1>5, <1>6
  <1> QED
    BY <1>2, <1>3, <1>5, <1>7

-----------------------------------------------------------------------------
(* Every step keeps the form of the tables and of the requests. *)

\* What a request is about to do is read back from the requests.
LEMMA WorkOf ==
  ASSUME ContainerFormInv, NEW r \in Requests, NEW q, q = creq[r], q # Idle
  PROVE  Form(r, q)
  BY DEF ContainerFormInv

\* A number of containers or volumes that have been inserted is finite, and their sizes add up.
LEMMA DiskTotalIsNat == DiskTotal \in Nat
  <1> DEFINE L == {v \in VolumeIds : LiveVolume(v)}
  <1>1. IsFiniteSet(VolumeIds)
    BY ContainersAssumption, FS_Interval DEF VolumeIds
  <1>2. IsFiniteSet(L)
    BY <1>1, FS_Subset
  <1>3. Cardinality(L) \in Nat
    BY <1>2, FS_CardinalityType
  <1>4. DiskTotal = Cardinality(L) * Capacity
    BY DEF DiskTotal
  <1> HIDE DEF L
  <1> QED
    BY <1>3, <1>4, ContainersAssumption

LEMMA MountsAreOwn ==
  ASSUME ContainerFormInv, NEW c \in ContainerIds, LiveContainer(c)
  PROVE  /\ cont[c] # NoRow /\ cont[c] \in ContainerRows /\ cont[c].live = TRUE
         /\ Own(cont[c].mounts, c)
  BY DEF ContainerFormInv, RowsOK, LiveContainer, ContainerRows

LEMMA ReadersForm ==
  ASSUME ContainerFormInv, NEW r \in Requests,
         \/ CreateContainer(r) \/ UpdateContainer(r) \/ DeleteContainer(r) \/ AddContainerVolume(r) \/ DeleteMount(r)
         \/ AddMount(r) \/ MountFails(r)
  PROVE  ContainerFormInv'
  <1>0. collided \subseteq ContainerIds /\ failed \subseteq ContainerIds
    BY DEF ContainerFormInv
  <1>1. CASE CreateContainer(r)
    <2>1. PICK cpu \in Cpus, withVolume \in BOOLEAN :
            creq' = [creq EXCEPT ![r] = [op |-> "create", cpu |-> cpu, withVolume |-> withVolume, total |-> DiskTotal]]
      BY <1>1 DEF CreateContainer, Goes
    <2>2. PICK q : q = [op |-> "create", cpu |-> cpu, withVolume |-> withVolume, total |-> DiskTotal]
      OBVIOUS
    <2>3. q.op = "create" /\ q.cpu = cpu /\ q.withVolume = withVolume /\ q.total = DiskTotal
      BY <2>2
    <2>4. Form(r, q)'
      BY <2>3, DiskTotalIsNat DEF Form, Ops
    <2> QED
      BY <1>0, <1>1, <2>1, <2>2, <2>4, StepFormRead DEF CreateContainer
  <1>2. CASE UpdateContainer(r)
    <2>1. PICK c \in ContainerIds, cpu \in Cpus \cup {Keep} :
            /\ LiveContainer(c) /\ Collides(r, c)
            /\ creq' = [creq EXCEPT ![r] = [op |-> "update", c |-> c, cpu |-> cpu, seen |-> cont[c]]]
      BY <1>2 DEF UpdateContainer, Goes
    <2>2. PICK q : q = [op |-> "update", c |-> c, cpu |-> cpu, seen |-> cont[c]]
      OBVIOUS
    <2>3. q.op = "update" /\ q.c = c /\ q.cpu = cpu /\ q.seen = cont[c]
      BY <2>2
    <2>4. Form(r, q)
      BY <2>1, <2>2, <2>3, MountsAreOwn DEF Form, Ops
    <2>5. UNCHANGED <<cont, vol, contLock>>
      BY <1>2 DEF UpdateContainer
    <2>6. Form(r, q)'
      BY <2>4, <2>5 DEF Form, Own
    <2> QED
      BY <1>0, <1>2, <2>1, <2>2, <2>5, <2>6, StepFormRead DEF UpdateContainer, Collides
  <1>3. CASE DeleteContainer(r)
    <2>1. PICK c \in ContainerIds :
            /\ LiveContainer(c) /\ Collides(r, c)
            /\ creq' = [creq EXCEPT ![r] = [op |-> "delete", c |-> c, mounts |-> cont[c].mounts]]
      BY <1>3 DEF DeleteContainer, Goes
    <2>2. PICK q : q = [op |-> "delete", c |-> c, mounts |-> cont[c].mounts]
      OBVIOUS
    <2>3. q.op = "delete" /\ q.c = c /\ q.mounts = cont[c].mounts
      BY <2>2
    <2>4. Form(r, q)
      BY <2>1, <2>3, MountsAreOwn DEF Form, Ops
    <2>5. UNCHANGED <<cont, vol, contLock>>
      BY <1>3 DEF DeleteContainer
    <2>6. Form(r, q)'
      BY <2>4, <2>5 DEF Form, Own
    <2> QED
      BY <1>0, <1>3, <2>1, <2>2, <2>5, <2>6, StepFormRead DEF DeleteContainer, Collides
  <1>4. CASE AddContainerVolume(r)
    <2>1. PICK c \in ContainerIds :
            /\ LiveContainer(c) /\ Collides(r, c)
            /\ creq' = [creq EXCEPT ![r] = [op |-> "create volume", c |-> c, total |-> DiskTotal]]
      BY <1>4 DEF AddContainerVolume, Goes
    <2>2. PICK q : q = [op |-> "create volume", c |-> c, total |-> DiskTotal]
      OBVIOUS
    <2>3. q.op = "create volume" /\ q.c = c /\ q.total = DiskTotal
      BY <2>2
    <2>4. Form(r, q)
      <3>1. cont[c] # NoRow
        BY <2>1, MountsAreOwn
      <3>2. q.total \in Nat
        BY <2>3, DiskTotalIsNat
      <3> QED
        BY <2>3, <3>1, <3>2 DEF Form, Ops
    <2>5. UNCHANGED <<cont, vol, contLock>>
      BY <1>4 DEF AddContainerVolume
    <2>6. Form(r, q)'
      BY <2>4, <2>5 DEF Form, Own
    <2> QED
      BY <1>0, <1>4, <2>1, <2>2, <2>5, <2>6, StepFormRead DEF AddContainerVolume, Collides
  <1>5. CASE DeleteMount(r)
    <2>1. PICK c \in ContainerIds, v \in VolumeIds :
            /\ LiveContainer(c) /\ v \in cont[c].mounts /\ Collides(r, c)
            /\ creq' = [creq EXCEPT ![r] = [op |-> "save unmount", c |-> c, v |-> v, mounts |-> cont[c].mounts \ {v}]]
      BY <1>5 DEF DeleteMount, Goes
    <2>2. PICK q : q = [op |-> "save unmount", c |-> c, v |-> v, mounts |-> cont[c].mounts \ {v}]
      OBVIOUS
    <2>3. q.op = "save unmount" /\ q.c = c /\ q.v = v /\ q.mounts = cont[c].mounts \ {v}
      BY <2>2
    <2>4. cont[c] # NoRow /\ Own(q.mounts, c) /\ Own({v}, c)
      <3>1. cont[c] # NoRow /\ Own(cont[c].mounts, c)
        BY <2>1, MountsAreOwn
      <3> QED
        BY <2>1, <2>3, <3>1 DEF Own
    <2>5. Form(r, q)
      BY <2>3, <2>4 DEF Form, Ops
    <2>6. UNCHANGED <<cont, vol, contLock>>
      BY <1>5 DEF DeleteMount
    <2>7. Form(r, q)'
      BY <2>5, <2>6 DEF Form, Own
    <2> QED
      BY <1>0, <1>5, <2>1, <2>2, <2>6, <2>7, StepFormRead DEF DeleteMount, Collides
  <1>6. CASE AddMount(r)
    <2>1. PICK p : p = creq[r] /\ p # Idle /\ p.op = "mount"
      BY <1>6 DEF AddMount
    <2>2. p.c \in ContainerIds /\ cont[p.c] # NoRow /\ Own({p.v}, p.c)
      BY <2>1, WorkOf DEF Form
    <2>3. UNCHANGED <<cont, vol, contLock, collided, failed>>
      BY <1>6 DEF AddMount
    <2>4. CASE LiveContainer(p.c)
      <3>1. PICK q : q = [op |-> "save mount", c |-> p.c, v |-> p.v, mounts |-> cont[p.c].mounts]
        OBVIOUS
      <3>2. q.op = "save mount" /\ q.c = p.c /\ q.v = p.v /\ q.mounts = cont[p.c].mounts
        BY <3>1
      <3>3. Form(r, q)
        BY <2>2, <2>4, <3>2, MountsAreOwn DEF Form, Ops
      <3>4. Form(r, q)'
        BY <2>3, <3>3 DEF Form, Own
      <3>5. creq' = [creq EXCEPT ![r] = q]
        BY <1>6, <2>1, <2>4, <3>1 DEF AddMount, Goes
      <3> QED
        BY <1>0, <2>1, <2>3, <3>4, <3>5, StepFormRead
    <2>5. CASE ~ LiveContainer(p.c)
      <3>1. PICK q : q = [op |-> "compensate", c |-> p.c, v |-> p.v]
        OBVIOUS
      <3>2. q.op = "compensate" /\ q.c = p.c /\ q.v = p.v
        BY <3>1
      <3>3. Form(r, q)
        BY <2>2, <3>2 DEF Form, Ops
      <3>4. Form(r, q)'
        BY <2>3, <3>3 DEF Form, Own
      <3>5. creq' = [creq EXCEPT ![r] = q]
        BY <1>6, <2>1, <2>5, <3>1 DEF AddMount, Goes
      <3> QED
        BY <1>0, <2>1, <2>3, <3>4, <3>5, StepFormRead
    <2> QED
      BY <2>4, <2>5
  <1>7. CASE MountFails(r)
    <2>1. PICK p : p = creq[r] /\ p # Idle /\ p.op = "save mount"
      BY <1>7 DEF MountFails
    <2>2. p.c \in ContainerIds /\ cont[p.c] # NoRow /\ Own({p.v}, p.c)
      BY <2>1, WorkOf DEF Form
    <2>3. UNCHANGED <<cont, vol, contLock, collided, failed>>
      BY <1>7 DEF MountFails
    <2>4. PICK q : q = [op |-> "compensate", c |-> p.c, v |-> p.v]
      OBVIOUS
    <2>5. q.op = "compensate" /\ q.c = p.c /\ q.v = p.v
      BY <2>4
    <2>6. Form(r, q)
      BY <2>2, <2>5 DEF Form, Ops
    <2>7. Form(r, q)'
      BY <2>3, <2>6 DEF Form, Own
    <2>8. creq' = [creq EXCEPT ![r] = q]
      BY <1>7, <2>1, <2>4 DEF MountFails, Goes
    <2> QED
      BY <1>0, <2>1, <2>3, <2>7, <2>8, StepFormRead
  <1> QED
    BY <1>1, <1>2, <1>3, <1>4, <1>5, <1>6, <1>7

LEMMA WritersForm ==
  ASSUME ContainerFormInv, NEW r \in Requests,
         \/ CommitContainer(r) \/ LockContainer(r) \/ SaveContainer(r) \/ CommitContainerDelete(r)
         \/ CreateVolume(r) \/ SaveMount(r) \/ SaveUnmount(r)
  PROVE  ContainerFormInv'
  <1>0. /\ collided \subseteq ContainerIds /\ failed \subseteq ContainerIds
        /\ vol \in [VolumeIds -> VolumeRows \cup {NoRow}] /\ cont \in [ContainerIds -> ContainerRows \cup {NoRow}]
    BY DEF ContainerFormInv, RowsOK
  <1>1. CASE CommitContainer(r)
    <2>1. PICK c \in ContainerIds, row \in ContainerRows :
            /\ cont[c] = NoRow /\ cont' = [cont EXCEPT ![c] = row]
            /\ Own(row.mounts, c)'
            /\ vol' \in [VolumeIds -> VolumeRows \cup {NoRow}]
            /\ \A v \in VolumeIds : vol[v] # NoRow => vol'[v] = vol[v]
      BY <1>1, CommitContainerIs
    <2>2. ContainerRowsStay /\ RowsOK'
      BY <2>1, RowsEdited
    <2>3. ASSUME NEW d \in ContainerIds, contLock[d] # Idle PROVE cont'[d].live = cont[d].live
      <3>1. PICK s : s = contLock[d] /\ s \in Requests /\ creq[s] # Idle /\ creq[s].op = "save" /\ creq[s].c = d
        BY <2>3 DEF ContainerFormInv, LocksOK
      <3>2. cont[d] # NoRow
        BY <3>1, WorkOf DEF Form
      <3> QED
        BY <1>0, <2>1, <3>2
    <2>4. /\ creq[r].op # "save" /\ creq' = [creq EXCEPT ![r] = Idle]
          /\ UNCHANGED <<contLock, collided, failed>>
      BY <1>1 DEF CommitContainer, Idles
    <2> QED
      BY <1>0, <2>2, <2>3, <2>4, StepFormUnlocked
  <1>2. CASE LockContainer(r)
    <2>1. PICK p : p = creq[r] /\ p # Idle /\ p.op = "update"
      BY <1>2 DEF LockContainer
    <2>2. Form(r, p)
      BY <2>1, WorkOf
    <2>3. /\ contLock[p.c] = Idle /\ LiveContainer(p.c)
          /\ contLock' = [contLock EXCEPT ![p.c] = r] /\ creq' = [creq EXCEPT ![r] = [p EXCEPT !.op = "save"]]
          /\ UNCHANGED <<cont, vol, collided, failed>>
      BY <1>2, <2>1 DEF LockContainer, Goes
    <2>4. /\ p.c \in ContainerIds /\ cont[p.c] # NoRow /\ p.cpu \in Cpus \cup {Keep}
          /\ p.seen \in ContainerRows /\ Own(p.seen.mounts, p.c)
      BY <2>1, <2>2 DEF Form
    <2>5. PICK q : q = [p EXCEPT !.op = "save"]
      OBVIOUS
    <2>6. q = [op |-> "save", c |-> p.c, cpu |-> p.cpu, seen |-> p.seen]
      BY <2>1, <2>2, <2>5 DEF Form
    <2>7. q.op = "save" /\ q.c = p.c /\ q.cpu = p.cpu /\ q.seen = p.seen
      BY <2>6
    <2>8. contLock \in [ContainerIds -> Requests \cup {Idle}]
      BY DEF ContainerFormInv, LocksOK
    <2>9. contLock'[p.c] = r /\ \A c \in ContainerIds : c # p.c => contLock'[c] = contLock[c] /\ contLock[c] # r
      BY <2>1, <2>3, <2>4, <2>8, NoLock
    <2>10. contLock' \in [ContainerIds -> Requests \cup {Idle}]
      BY <2>3, <2>8
    <2>11. \A c \in ContainerIds : \/ contLock'[c] = contLock[c] /\ contLock[c] # r
                                   \/ contLock'[c] = r /\ contLock[c] = Idle /\ q # Idle /\ q.op = "save" /\ q.c = c
      <3>1. q # Idle
        <4>1. q \in [op : {"save"}, c : ContainerIds, cpu : Cpus \cup {Keep}, seen : ContainerRows]
          BY <2>4, <2>6
        <4> QED
          BY <4>1, IdleAssumption
      <3> QED
        BY <2>3, <2>7, <2>9, <3>1
    <2>12. cont[p.c].live
      BY <2>3 DEF LiveContainer
    <2>13. Form(r, q)'
      BY <2>3, <2>4, <2>7, <2>9, <2>12 DEF Form, Ops, Own
    <2>14. ContainerRowsStay
      BY <2>3 DEF ContainerRowsStay
    <2>15. RowsOK'
      BY <2>3 DEF ContainerFormInv, RowsOK, Own
    <2> QED
      BY <1>0, <2>3, <2>5, <2>10, <2>11, <2>13, <2>14, <2>15, StepForm
  <1>3. CASE SaveContainer(r)
    <2>1. PICK q : q = creq[r]
      OBVIOUS
    <2>2. PICK row \in ContainerRows :
            cont' = [cont EXCEPT ![q.c] = row] /\ row.live = TRUE /\ row.mounts = q.seen.mounts
      BY <1>3, <2>1, SaveContainerIs DEF Saved
    <2>3. q.c \in ContainerIds /\ cont[q.c] \in ContainerRows /\ cont[q.c].live = TRUE /\ contLock[q.c] = r
      BY <1>3, <2>1, SaveContainerIs
    <2>4. /\ q # Idle /\ q.op = "save" /\ creq' = [creq EXCEPT ![r] = Idle]
          /\ contLock' = [contLock EXCEPT ![q.c] = Idle] /\ UNCHANGED <<vol, collided, failed>>
      BY <1>3, <2>1 DEF SaveContainer, Idles
    <2>5. Own(row.mounts, q.c)
      BY <2>1, <2>2, <2>4, WorkOf DEF Form
    <2>6. Own(row.mounts, q.c)'
      BY <2>4, <2>5 DEF Own
    <2>7. ContainerRowsStay /\ RowsOK'
      BY <1>0, <2>2, <2>3, <2>4, <2>6, RowsEdited
    <2>8. contLock \in [ContainerIds -> Requests \cup {Idle}]
      BY DEF ContainerFormInv, LocksOK
    <2>9. \A c \in ContainerIds : c # q.c => contLock[c] # r
      BY <2>1, TransactionsAssumption DEF ContainerFormInv, LocksOK
    <2>10. contLock' \in [ContainerIds -> Requests \cup {Idle}]
      BY <2>4, <2>8
    <2>11. \A c \in ContainerIds : \/ contLock'[c] = contLock[c] /\ contLock[c] # r
                                   \/ contLock[c] = r /\ contLock'[c] = Idle
      BY <2>3, <2>4, <2>8, <2>9
    <2>12. \A c \in ContainerIds : contLock[c] \notin {Idle, r} => cont'[c].live = cont[c].live
      BY <1>0, <2>2, <2>3
    <2> QED
      BY <1>0, <2>4, <2>7, <2>10, <2>11, <2>12, StepForm
  <1>4. CASE CommitContainerDelete(r)
    <2>1. PICK q : q = creq[r]
      OBVIOUS
    <2>2. q.c \in ContainerIds /\ contLock[q.c] = Idle
      BY <1>4, <2>1, CommitContainerDeleteIs
    <2>3. PICK row \in ContainerRows : Deleted(q, row)
      BY <1>4, <2>1, CommitContainerDeleteIs
    <2>4. /\ q # Idle /\ q.op = "delete" /\ creq' = [creq EXCEPT ![r] = Idle]
          /\ UNCHANGED <<contLock, collided>>
      BY <1>4, <2>1 DEF CommitContainerDelete, Idles
    <2>5. Own(row.mounts, q.c)
      <3>1. Own(q.mounts, q.c)
        BY <2>1, <2>4, WorkOf DEF Form
      <3> QED
        BY <2>3, <3>1 DEF Own, Deleted
    <2>6. \A v \in VolumeIds : vol[v] # NoRow => vol'[v] # NoRow /\ vol'[v].for = vol[v].for
      BY <2>3 DEF Deleted
    <2>7. Own(row.mounts, q.c)'
      BY <2>5, <2>6 DEF Own
    <2>8. ContainerRowsStay /\ RowsOK'
      BY <2>2, <2>3, <2>6, <2>7, RowsEdited DEF Deleted
    <2>9. \A c \in ContainerIds : contLock[c] # Idle => cont'[c].live = cont[c].live
      BY <1>0, <2>2, <2>3 DEF Deleted
    <2>10. failed' \subseteq ContainerIds
      BY <1>0, <2>2, <2>3 DEF Deleted
    <2> QED
      BY <1>0, <2>1, <2>4, <2>8, <2>9, <2>10, StepFormUnlocked
  <1>5. CASE CreateVolume(r)
    <2>1. PICK p : p = creq[r]
      OBVIOUS
    <2>2. /\ p.c \in ContainerIds /\ cont[p.c] # NoRow /\ vol' \in [VolumeIds -> VolumeRows \cup {NoRow}]
      BY <1>5, <2>1, CreateVolumeIs
    <2>3. PICK v \in VolumeIds :
            /\ vol[v] = NoRow /\ vol'[v] # NoRow /\ vol'[v].for = p.c
            /\ \A w \in VolumeIds \ {v} : vol'[w] = vol[w]
            /\ creq' = [creq EXCEPT ![r] = [op |-> "mount", c |-> p.c, v |-> v]]
      BY <1>5, <2>1, CreateVolumeIs
    <2>4. p # Idle /\ p.op = "create volume" /\ UNCHANGED <<cont, contLock, collided, failed>>
      BY <1>5, <2>1 DEF CreateVolume
    <2>5. ContainerRowsStay
      BY <2>3, <2>4 DEF ContainerRowsStay
    <2>6. RowsOK'
      <3>1. ASSUME NEW c \in ContainerIds, NEW vs, cont'[c] # NoRow, vs = cont'[c].mounts PROVE Own(vs, c)'
        <4>1. Own(vs, c)
          BY <2>4, <3>1 DEF ContainerFormInv, RowsOK
        <4> QED
          BY <2>5, <4>1, OwnStays
      <3> QED
        BY <1>0, <2>2, <2>4, <3>1 DEF RowsOK, Own
    <2>7. PICK q : q = [op |-> "mount", c |-> p.c, v |-> v]
      OBVIOUS
    <2>8. q.op = "mount" /\ q.c = p.c /\ q.v = v
      BY <2>7
    <2>9. Form(r, q)'
      BY <2>2, <2>3, <2>4, <2>8 DEF Form, Ops, Own
    <2> QED
      BY <1>0, <2>1, <2>3, <2>4, <2>5, <2>6, <2>7, <2>9, StepFormUnlocked
  <1>6. CASE SaveMount(r)
    <2>1. PICK q : q = creq[r]
      OBVIOUS
    <2>2. q.c \in ContainerIds /\ contLock[q.c] = Idle
      BY <1>6, <2>1, SaveMountIs
    <2>3. PICK row \in ContainerRows : cont' = [cont EXCEPT ![q.c] = row] /\ Own(row.mounts, q.c)
      BY <1>6, <2>1, SaveMountIs
    <2>4. /\ q # Idle /\ q.op = "save mount" /\ creq' = [creq EXCEPT ![r] = Idle]
          /\ UNCHANGED <<vol, contLock, collided, failed>>
      BY <1>6, <2>1 DEF SaveMount, Idles
    <2>5. Own(row.mounts, q.c)'
      BY <2>3, <2>4 DEF Own
    <2>6. ContainerRowsStay /\ RowsOK'
      BY <1>0, <2>2, <2>3, <2>4, <2>5, RowsEdited
    <2>7. \A c \in ContainerIds : contLock[c] # Idle => cont'[c].live = cont[c].live
      BY <1>0, <2>2, <2>3
    <2> QED
      BY <1>0, <2>1, <2>4, <2>6, <2>7, StepFormUnlocked
  <1>7. CASE SaveUnmount(r)
    <2>1. PICK p : p = creq[r]
      OBVIOUS
    <2>2. p.c \in ContainerIds /\ contLock[p.c] = Idle
      BY <1>7, <2>1, SaveUnmountIs
    <2>3. PICK row \in ContainerRows : cont' = [cont EXCEPT ![p.c] = row] /\ Own(row.mounts, p.c)
      BY <1>7, <2>1, SaveUnmountIs
    <2>4. /\ p # Idle /\ p.op = "save unmount"
          /\ creq' = [creq EXCEPT ![r] = [op |-> "compensate", c |-> p.c, v |-> p.v]]
          /\ UNCHANGED <<vol, contLock, collided, failed>>
      BY <1>7, <2>1 DEF SaveUnmount, Goes
    <2>5. Own(row.mounts, p.c)'
      BY <2>3, <2>4 DEF Own
    <2>6. ContainerRowsStay /\ RowsOK'
      BY <1>0, <2>2, <2>3, <2>4, <2>5, RowsEdited
    <2>7. \A c \in ContainerIds : contLock[c] # Idle => cont'[c].live = cont[c].live
      BY <1>0, <2>2, <2>3
    <2>8. PICK q : q = [op |-> "compensate", c |-> p.c, v |-> p.v]
      OBVIOUS
    <2>9. q.op = "compensate" /\ q.c = p.c /\ q.v = p.v
      BY <2>8
    <2>10. cont[p.c] # NoRow /\ Own({p.v}, p.c)
      BY <2>1, <2>4, WorkOf DEF Form
    <2>11. Own({p.v}, p.c)' /\ cont'[p.c] # NoRow
      BY <2>2, <2>4, <2>6, <2>10 DEF Own, ContainerRowsStay
    <2>12. Form(r, q)'
      BY <2>2, <2>9, <2>11 DEF Form, Ops
    <2> QED
      BY <1>0, <2>1, <2>4, <2>6, <2>7, <2>8, <2>12, StepFormUnlocked
  <1> QED
    BY <1>1, <1>2, <1>3, <1>4, <1>5, <1>6, <1>7

\* DELETE of a volume has no work of its own in the table of requests.
LEMMA RemoveIs ==
  ASSUME ContainerFormInv, NEW r \in Requests, RemoveProjectVolume(r)
  PROVE  /\ creq' = [creq EXCEPT ![r] = Idle] /\ creq[r] = Idle /\ UNCHANGED <<contLock, collided, failed>>
         /\ \E v \in VolumeIds : vol[v] # NoRow /\ DropVolume(v)
  <1>1. creq = [s \in Requests |-> creq[s]]
    BY DEF ContainerFormInv
  <1>2. creq[r] = Idle /\ creq' = creq
    BY DEF RemoveProjectVolume
  <1>3. creq' = [creq EXCEPT ![r] = Idle]
    BY <1>1, <1>2
  <1> QED
    BY <1>2, <1>3 DEF RemoveProjectVolume, LiveVolume

LEMMA DeleteVolumeIs ==
  ASSUME ContainerFormInv, NEW r \in Requests, NEW q, q = creq[r], DeleteVolume(r)
  PROVE  /\ q # Idle /\ q.op = "compensate" /\ creq' = [creq EXCEPT ![r] = Idle]
         /\ UNCHANGED <<contLock, collided, failed>>
         /\ q.c \in ContainerIds /\ q.v \in VolumeIds /\ vol[q.v] # NoRow /\ vol[q.v].for = q.c /\ DropVolume(q.v)
  <1>1. /\ q # Idle /\ q.op = "compensate" /\ creq' = [creq EXCEPT ![r] = Idle]
        /\ UNCHANGED <<contLock, collided, failed>> /\ DropVolume(q.v)
    BY DEF DeleteVolume, Idles
  <1>2. q.c \in ContainerIds /\ Own({q.v}, q.c)
    BY <1>1, WorkOf DEF Form
  <1> QED
    BY <1>1, <1>2 DEF Own

LEMMA DroppersForm ==
  ASSUME ContainerFormInv, NEW r \in Requests, DeleteVolume(r) \/ RemoveProjectVolume(r) \/ AbortTransaction(r)
  PROVE  ContainerFormInv'
  <1>0. collided \subseteq ContainerIds /\ failed \subseteq ContainerIds
    BY DEF ContainerFormInv
  <1>1. ASSUME NEW v \in VolumeIds, vol[v] # NoRow, DropVolume(v),
               creq[r] = Idle \/ creq[r].op # "save", creq' = [creq EXCEPT ![r] = Idle],
               UNCHANGED <<contLock, collided, failed>>
        PROVE  ContainerFormInv'
    <2>1. ContainerRowsStay /\ RowsOK'
      BY <1>1, DropVolumeIs
    <2>2. \A c \in ContainerIds : contLock[c] # Idle => cont'[c].live = cont[c].live
      <3>1. ASSUME NEW c \in ContainerIds, contLock[c] # Idle PROVE cont[c] # NoRow
        <4>1. PICK s : s = contLock[c] /\ s \in Requests /\ creq[s] # Idle /\ creq[s].op = "save" /\ creq[s].c = c
          BY <3>1 DEF ContainerFormInv, LocksOK
        <4> QED
          BY <4>1, WorkOf DEF Form
      <3> QED
        BY <1>1, <3>1, DropVolumeIs
    <2> QED
      BY <1>0, <1>1, <2>1, <2>2, StepFormUnlocked
  <1>2. CASE DeleteVolume(r)
    <2>1. PICK q : q = creq[r]
      OBVIOUS
    <2>2. /\ q.op = "compensate" /\ creq' = [creq EXCEPT ![r] = Idle]
          /\ UNCHANGED <<contLock, collided, failed>>
          /\ q.v \in VolumeIds /\ vol[q.v] # NoRow /\ DropVolume(q.v)
      BY <1>2, <2>1, DeleteVolumeIs
    <2> QED
      BY <1>1, <2>1, <2>2
  <1>3. CASE RemoveProjectVolume(r)
    BY <1>1, <1>3, RemoveIs
  <1>4. CASE AbortTransaction(r)
    <2>1. PICK q : q = creq[r] /\ q # Idle
      BY <1>4 DEF AbortTransaction
    <2>2. /\ creq' = [creq EXCEPT ![r] = Idle] /\ UNCHANGED <<cont, vol, collided>>
          /\ contLock' = [c \in ContainerIds |-> IF contLock[c] = r THEN Idle ELSE contLock[c]]
          /\ failed' = IF q.op \in {"mount", "save mount", "compensate"} THEN failed \cup {q.c} ELSE failed
      BY <1>4, <2>1 DEF AbortTransaction, Idles
    <2>3. failed' \subseteq ContainerIds
      <3>1. q.op # "create" => q.c \in ContainerIds
        BY <2>1, WorkOf DEF Form
      <3> QED
        BY <1>0, <2>2, <3>1
    <2>4. ContainerRowsStay
      BY <2>2 DEF ContainerRowsStay
    <2>5. RowsOK'
      BY <2>2 DEF ContainerFormInv, RowsOK, Own
    <2>6. contLock \in [ContainerIds -> Requests \cup {Idle}]
      BY DEF ContainerFormInv, LocksOK
    <2>7. contLock' \in [ContainerIds -> Requests \cup {Idle}]
      BY <2>2, <2>6
    <2>8. \A c \in ContainerIds : \/ contLock'[c] = contLock[c] /\ contLock[c] # r
                                  \/ contLock[c] = r /\ contLock'[c] = Idle
      BY <2>2
    <2> QED
      BY <1>0, <2>2, <2>3, <2>4, <2>5, <2>7, <2>8, StepForm
  <1> QED
    BY <1>2, <1>3, <1>4

LEMMA ContainerFormStep == ContainerFormInv /\ [ContainersNext]_cvars => ContainerFormInv'
  <1> SUFFICES ASSUME ContainerFormInv, [ContainersNext]_cvars PROVE ContainerFormInv'
    OBVIOUS
  <1>1. CASE UNCHANGED cvars
    <2>1. RowsOK' /\ LocksOK'
      BY <1>1 DEF cvars, ContainerFormInv, RowsOK, LocksOK, Own
    <2>2. ASSUME NEW r \in Requests, NEW q \in {creq'[r]}, q # Idle PROVE Form(r, q)'
      <3>1. Form(r, q)
        BY <1>1, <2>2 DEF cvars, ContainerFormInv
      <3> QED
        BY <1>1, <3>1 DEF cvars, Form, Own
    <2> QED
      BY <1>1, <2>1, <2>2 DEF cvars, ContainerFormInv
  <1>2. ASSUME NEW r \in Requests, ContainerStep(r) PROVE ContainerFormInv'
    BY <1>2, ReadersForm, WritersForm, DroppersForm DEF ContainerStep
  <1> QED
    BY <1>1, <1>2 DEF ContainersNext

\* The form of the tables and of the requests holds at all times.
LEMMA FormAlways == ContainersSpec => []ContainerFormInv
  BY InitContainerForm, ContainerFormStep, PTL DEF ContainersSpec

-----------------------------------------------------------------------------
(* Volumes are not lost. *)

\* Two requests that edit one container have collided there.
ContainerAloneInv ==
  \A r, s \in Requests : \A p \in {creq[r]}, q \in {creq[s]} :
    r # s /\ p # Idle /\ q # Idle /\ p.op # "create" /\ q.op # "create" /\ p.c = q.c => p.c \in collided

\* Without a collision, a request saves no fewer mounts than the container has.
Seen(q) ==
  q.op # "create" /\ q.c \notin collided =>
    /\ q.op \in {"update", "save"} => cont[q.c].mounts \subseteq q.seen.mounts
    /\ q.op \in {"delete", "save mount"} => cont[q.c].mounts \subseteq q.mounts
    /\ q.op = "save unmount" => cont[q.c].mounts \ {q.v} \subseteq q.mounts
SeenInv == \A r \in Requests : \A q \in {creq[r]} : q # Idle => Seen(q)

MountInv == ContainerAloneInv /\ SeenInv

LEMMA InitMount == ContainersInit => MountInv /\ NoLostVolume
  <1> SUFFICES ASSUME ContainersInit PROVE MountInv /\ NoLostVolume
    OBVIOUS
  <1>1. \A r \in Requests : creq[r] = Idle
    BY DEF ContainersInit
  <1>2. ContainerAloneInv
    BY <1>1 DEF ContainerAloneInv
  <1>3. SeenInv
    BY <1>1 DEF SeenInv
  <1>4. \A v \in VolumeIds : vol[v] = NoRow
    BY DEF ContainersInit
  <1> QED
    BY <1>2, <1>3, <1>4 DEF MountInv, NoLostVolume, LiveVolume

\* "q" is what the step makes of its request.  It goes on with its container, or nobody else
\* works on that, or they collide; and no container has more mounts but its own.
LEMMA StepMount ==
  ASSUME ContainerFormInv, MountInv, NEW r \in Requests, NEW q, creq' = [creq EXCEPT ![r] = q],
         collided \subseteq collided',
         q # Idle /\ q.op # "create" =>
           \/ creq[r] # Idle /\ creq[r].op # "create" /\ creq[r].c = q.c
           \/ Rivals(r, q.c) = {} \/ q.c \in collided',
         \A c \in ContainerIds : cont[c] # NoRow =>
           \/ cont'[c].mounts \subseteq cont[c].mounts
           \/ creq[r] # Idle /\ creq[r].op # "create" /\ creq[r].c = c,
         q # Idle => Seen(q)'
  PROVE  MountInv'
  <1>1. creq'[r] = q /\ \A s \in Requests \ {r} : creq'[s] = creq[s]
    BY DEF ContainerFormInv
  <1>2. ASSUME NEW s \in Requests \ {r}, NEW p, p = creq[s], p # Idle, p.op # "create",
               q # Idle, q.op # "create", p.c = q.c
        PROVE  q.c \in collided'
    <2>1. CASE creq[r] # Idle /\ creq[r].op # "create" /\ creq[r].c = q.c
      BY <1>2, <2>1 DEF MountInv, ContainerAloneInv
    <2>2. CASE Rivals(r, q.c) = {}
      BY <1>2, <2>2 DEF Rivals
    <2> QED
      BY <1>2, <2>1, <2>2
  <1>3. ASSUME NEW s \in Requests, NEW t \in Requests, NEW p, NEW o, p = creq'[s], o = creq'[t], s # t,
               p # Idle, o # Idle, p.op # "create", o.op # "create", p.c = o.c
        PROVE  p.c \in collided'
    <2>1. CASE s = r
      BY <1>1, <1>2, <1>3, <2>1
    <2>2. CASE t = r
      BY <1>1, <1>2, <1>3, <2>2
    <2>3. CASE s # r /\ t # r
      <3>1. p = creq[s] /\ o = creq[t]
        BY <1>1, <1>3, <2>3
      <3> QED
        BY <1>3, <3>1 DEF MountInv, ContainerAloneInv
    <2> QED
      BY <2>1, <2>2, <2>3
  <1>4. ContainerAloneInv'
    BY <1>3 DEF ContainerAloneInv
  <1>5. ASSUME NEW s \in Requests \ {r}, NEW p, p = creq[s], p # Idle PROVE Seen(p)'
    <2> SUFFICES ASSUME p.op # "create", p.c \notin collided'
                 PROVE  /\ p.op \in {"update", "save"} => cont'[p.c].mounts \subseteq p.seen.mounts
                        /\ p.op \in {"delete", "save mount"} => cont'[p.c].mounts \subseteq p.mounts
                        /\ p.op = "save unmount" => cont'[p.c].mounts \ {p.v} \subseteq p.mounts
      BY DEF Seen
    <2>1. p.c \in ContainerIds /\ cont[p.c] # NoRow
      BY <1>5, WorkOf DEF Form
    <2>2. p.c \notin collided
      OBVIOUS
    <2>3. ~ (creq[r] # Idle /\ creq[r].op # "create" /\ creq[r].c = p.c)
      BY <1>5, <2>2 DEF MountInv, ContainerAloneInv
    <2>4. cont'[p.c].mounts \subseteq cont[p.c].mounts
      BY <2>1, <2>3
    <2>5. Seen(p)
      BY <1>5 DEF MountInv, SeenInv
    <2> QED
      BY <2>2, <2>4, <2>5 DEF Seen
  <1>6. SeenInv'
    <2>1. ASSUME NEW s \in Requests, NEW p \in {creq'[s]}, p # Idle PROVE Seen(p)'
      <3>1. CASE s = r
        BY <1>1, <2>1, <3>1
      <3>2. CASE s # r
        <4>1. p = creq[s]
          BY <1>1, <2>1, <3>2
        <4> QED
          BY <1>5, <2>1, <3>2, <4>1
      <3> QED
        BY <3>1, <3>2
    <2> QED
      BY <2>1 DEF SeenInv
  <1> QED
    BY <1>4, <1>6 DEF MountInv

\* A volume that is mounted where it was made for, and one that a request is about to mount
\* or to delete.
ContainerHeld(v) == LiveContainer(vol[v].for) /\ v \in cont[vol[v].for].mounts
Due(q, v) == q # Idle /\ q.op \in {"mount", "save mount", "compensate"} /\ q.v = v

\* A volume that is there and not excused was there before, held or due as it is now.
LEMMA StepNoLost ==
  ASSUME ContainerFormInv, NoLostVolume, NEW r \in Requests, NEW q, creq' = [creq EXCEPT ![r] = q],
         collided \subseteq collided', failed \subseteq failed',
         \A v \in VolumeIds :
           LiveVolume(v)' /\ vol'[v].for \notin collided' \cup failed' =>
             \/ LiveVolume(v) /\ vol'[v].for = vol[v].for /\ (ContainerHeld(v) \/ Due(creq[r], v) => ContainerHeld(v)' \/ Due(q, v))
             \/ ContainerHeld(v)' \/ Due(q, v)
  PROVE  NoLostVolume'
  <1>1. creq'[r] = q /\ \A s \in Requests \ {r} : creq'[s] = creq[s]
    BY DEF ContainerFormInv
  <1> SUFFICES ASSUME NEW v \in VolumeIds, LiveVolume(v)', vol'[v].for \notin collided' \cup failed'
               PROVE  ContainerHeld(v)' \/ \E s \in Requests : Due(creq'[s], v)
    BY DEF NoLostVolume, ContainerHeld, Due
  <1>2. CASE ContainerHeld(v)' \/ Due(q, v)
    BY <1>1, <1>2
  <1>3. CASE LiveVolume(v) /\ vol'[v].for = vol[v].for /\ (ContainerHeld(v) \/ Due(creq[r], v) => ContainerHeld(v)' \/ Due(q, v))
    <2>1. ContainerHeld(v) \/ \E s \in Requests : Due(creq[s], v)
      BY <1>3 DEF NoLostVolume, ContainerHeld, Due
    <2>2. CASE ContainerHeld(v) \/ Due(creq[r], v)
      BY <1>1, <1>3, <2>2
    <2>3. ASSUME NEW s \in Requests \ {r}, Due(creq[s], v) PROVE Due(creq'[s], v)
      BY <1>1, <2>3
    <2> QED
      BY <2>1, <2>2, <2>3
  <1> QED
    BY <1>2, <1>3

\* The steps that only read keep both.
LEMMA StepRead ==
  ASSUME ContainerFormInv, MountInv, NoLostVolume, NEW r \in Requests, NEW q, creq' = [creq EXCEPT ![r] = q],
         UNCHANGED <<cont, vol, failed>>, collided \subseteq collided',
         q # Idle /\ q.op # "create" =>
           \/ creq[r] # Idle /\ creq[r].op # "create" /\ creq[r].c = q.c
           \/ Rivals(r, q.c) = {} \/ q.c \in collided',
         q # Idle => Seen(q)',
         \A v \in VolumeIds : Due(creq[r], v) => Due(q, v)
  PROVE  MountInv' /\ NoLostVolume'
  <1>1. \A c \in ContainerIds : cont'[c].mounts \subseteq cont[c].mounts
    OBVIOUS
  <1>2. MountInv'
    BY <1>1, StepMount
  <1>3. \A v \in VolumeIds : LiveVolume(v)' = LiveVolume(v) /\ ContainerHeld(v)' = ContainerHeld(v)
    BY DEF LiveVolume, ContainerHeld, LiveContainer
  <1>4. NoLostVolume'
    BY <1>3, StepNoLost
  <1> QED
    BY <1>2, <1>4

LEMMA ReadersMount ==
  ASSUME ContainerFormInv, MountInv, NoLostVolume, NEW r \in Requests,
         \/ CreateContainer(r) \/ UpdateContainer(r) \/ LockContainer(r) \/ DeleteContainer(r)
         \/ AddContainerVolume(r) \/ DeleteMount(r) \/ AddMount(r) \/ MountFails(r)
  PROVE  MountInv' /\ NoLostVolume'
  <1>0. \A c \in ContainerIds : Collides(r, c) => collided \subseteq collided' /\ (Rivals(r, c) = {} \/ c \in collided')
    BY DEF Collides
  <1>1. CASE CreateContainer(r)
    <2>1. PICK cpu \in Cpus, withVolume \in BOOLEAN :
            creq' = [creq EXCEPT ![r] = [op |-> "create", cpu |-> cpu, withVolume |-> withVolume, total |-> DiskTotal]]
      BY <1>1 DEF CreateContainer, Goes
    <2>2. PICK q : q = [op |-> "create", cpu |-> cpu, withVolume |-> withVolume, total |-> DiskTotal]
      OBVIOUS
    <2>3. q.op = "create"
      BY <2>2
    <2>4. creq[r] = Idle /\ UNCHANGED <<cont, vol, failed, collided>>
      BY <1>1 DEF CreateContainer
    <2>5. Seen(q)'
      BY <2>3 DEF Seen
    <2>6. \A v \in VolumeIds : ~ Due(creq[r], v)
      BY <2>4 DEF Due
    <2> QED
      BY <2>1, <2>2, <2>3, <2>4, <2>5, <2>6, StepRead
  <1>2. CASE UpdateContainer(r)
    <2>1. PICK c \in ContainerIds, cpu \in Cpus \cup {Keep} :
            /\ LiveContainer(c) /\ Collides(r, c)
            /\ creq' = [creq EXCEPT ![r] = [op |-> "update", c |-> c, cpu |-> cpu, seen |-> cont[c]]]
      BY <1>2 DEF UpdateContainer, Goes
    <2>2. PICK q : q = [op |-> "update", c |-> c, cpu |-> cpu, seen |-> cont[c]]
      OBVIOUS
    <2>3. q.op = "update" /\ q.c = c /\ q.cpu = cpu /\ q.seen = cont[c]
      BY <2>2
    <2>4. creq[r] = Idle /\ UNCHANGED <<cont, vol, failed>>
      BY <1>2 DEF UpdateContainer
    <2>5. Seen(q)'
      BY <2>3, <2>4 DEF Seen
    <2>6. \A v \in VolumeIds : ~ Due(creq[r], v)
      BY <2>4 DEF Due
    <2> QED
      BY <1>0, <2>1, <2>2, <2>3, <2>4, <2>5, <2>6, StepRead
  <1>3. CASE LockContainer(r)
    <2>1. PICK p : p = creq[r] /\ p # Idle /\ p.op = "update"
      BY <1>3 DEF LockContainer
    <2>2. creq' = [creq EXCEPT ![r] = [p EXCEPT !.op = "save"]] /\ UNCHANGED <<cont, vol, failed, collided>>
      BY <1>3, <2>1 DEF LockContainer, Goes
    <2>3. PICK q : q = [p EXCEPT !.op = "save"]
      OBVIOUS
    <2>4. q = [op |-> "save", c |-> p.c, cpu |-> p.cpu, seen |-> p.seen]
      <3>1. Form(r, p)
        BY <2>1, WorkOf
      <3> QED
        BY <2>1, <2>3, <3>1 DEF Form
    <2>5. q.op = "save" /\ q.c = p.c /\ q.seen = p.seen
      BY <2>4
    <2>6. Seen(p)
      BY <2>1 DEF MountInv, SeenInv
    <2>7. Seen(q)'
      BY <2>1, <2>2, <2>5, <2>6 DEF Seen
    <2>8. \A v \in VolumeIds : ~ Due(creq[r], v)
      BY <2>1 DEF Due
    <2>9. creq[r] # Idle /\ creq[r].op # "create" /\ creq[r].c = q.c
      BY <2>1, <2>5
    <2> QED
      BY <2>2, <2>3, <2>7, <2>8, <2>9, StepRead
  <1>4. CASE DeleteContainer(r)
    <2>1. PICK c \in ContainerIds :
            /\ LiveContainer(c) /\ Collides(r, c)
            /\ creq' = [creq EXCEPT ![r] = [op |-> "delete", c |-> c, mounts |-> cont[c].mounts]]
      BY <1>4 DEF DeleteContainer, Goes
    <2>2. PICK q : q = [op |-> "delete", c |-> c, mounts |-> cont[c].mounts]
      OBVIOUS
    <2>3. q.op = "delete" /\ q.c = c /\ q.mounts = cont[c].mounts
      BY <2>2
    <2>4. creq[r] = Idle /\ UNCHANGED <<cont, vol, failed>>
      BY <1>4 DEF DeleteContainer
    <2>5. Seen(q)'
      BY <2>3, <2>4 DEF Seen
    <2>6. \A v \in VolumeIds : ~ Due(creq[r], v)
      BY <2>4 DEF Due
    <2> QED
      BY <1>0, <2>1, <2>2, <2>3, <2>4, <2>5, <2>6, StepRead
  <1>5. CASE AddContainerVolume(r)
    <2>1. PICK c \in ContainerIds :
            /\ LiveContainer(c) /\ Collides(r, c)
            /\ creq' = [creq EXCEPT ![r] = [op |-> "create volume", c |-> c, total |-> DiskTotal]]
      BY <1>5 DEF AddContainerVolume, Goes
    <2>2. PICK q : q = [op |-> "create volume", c |-> c, total |-> DiskTotal]
      OBVIOUS
    <2>3. q.op = "create volume" /\ q.c = c
      BY <2>2
    <2>4. creq[r] = Idle /\ UNCHANGED <<cont, vol, failed>>
      BY <1>5 DEF AddContainerVolume
    <2>5. Seen(q)'
      BY <2>3 DEF Seen
    <2>6. \A v \in VolumeIds : ~ Due(creq[r], v)
      BY <2>4 DEF Due
    <2> QED
      BY <1>0, <2>1, <2>2, <2>3, <2>4, <2>5, <2>6, StepRead
  <1>6. CASE DeleteMount(r)
    <2>1. PICK c \in ContainerIds, v \in VolumeIds :
            /\ LiveContainer(c) /\ v \in cont[c].mounts /\ Collides(r, c)
            /\ creq' = [creq EXCEPT ![r] = [op |-> "save unmount", c |-> c, v |-> v, mounts |-> cont[c].mounts \ {v}]]
      BY <1>6 DEF DeleteMount, Goes
    <2>2. PICK q : q = [op |-> "save unmount", c |-> c, v |-> v, mounts |-> cont[c].mounts \ {v}]
      OBVIOUS
    <2>3. q.op = "save unmount" /\ q.c = c /\ q.v = v /\ q.mounts = cont[c].mounts \ {v}
      BY <2>2
    <2>4. creq[r] = Idle /\ UNCHANGED <<cont, vol, failed>>
      BY <1>6 DEF DeleteMount
    <2>5. Seen(q)'
      BY <2>3, <2>4 DEF Seen
    <2>6. \A w \in VolumeIds : ~ Due(creq[r], w)
      BY <2>4 DEF Due
    <2> QED
      BY <1>0, <2>1, <2>2, <2>3, <2>4, <2>5, <2>6, StepRead
  <1>7. CASE AddMount(r)
    <2>1. PICK p : p = creq[r] /\ p # Idle /\ p.op = "mount"
      BY <1>7 DEF AddMount
    <2>2. p.c \in ContainerIds /\ p.v \in VolumeIds
      BY <2>1, WorkOf DEF Form, Own
    <2>3. UNCHANGED <<cont, vol, collided, failed>>
      BY <1>7 DEF AddMount
    <2>4. CASE LiveContainer(p.c)
      <3>1. PICK q : q = [op |-> "save mount", c |-> p.c, v |-> p.v, mounts |-> cont[p.c].mounts]
        OBVIOUS
      <3>2. q.op = "save mount" /\ q.c = p.c /\ q.v = p.v /\ q.mounts = cont[p.c].mounts
        BY <3>1
      <3>3. cont[p.c].mounts \in SUBSET VolumeIds
        BY <2>2, <2>4, MountsAreOwn DEF Own
      <3>4. q # Idle
        <4>1. q \in [op : {"save mount"}, c : ContainerIds, v : VolumeIds, mounts : SUBSET VolumeIds]
          BY <2>2, <3>1, <3>3
        <4> QED
          BY <4>1, IdleAssumption
      <3>5. creq' = [creq EXCEPT ![r] = q]
        BY <1>7, <2>1, <2>4, <3>1 DEF AddMount, Goes
      <3>6. Seen(q)'
        BY <2>3, <3>2 DEF Seen
      <3>7. \A v \in VolumeIds : Due(creq[r], v) => Due(q, v)
        BY <2>1, <3>2, <3>4 DEF Due
      <3>8. creq[r] # Idle /\ creq[r].op # "create" /\ creq[r].c = q.c
        BY <2>1, <3>2
      <3> QED
        BY <2>3, <3>5, <3>6, <3>7, <3>8, StepRead
    <2>5. CASE ~ LiveContainer(p.c)
      <3>1. PICK q : q = [op |-> "compensate", c |-> p.c, v |-> p.v]
        OBVIOUS
      <3>2. q.op = "compensate" /\ q.c = p.c /\ q.v = p.v
        BY <3>1
      <3>3. q # Idle
        <4>1. q \in [op : {"mount", "compensate"}, c : ContainerIds, v : VolumeIds]
          BY <2>2, <3>1
        <4> QED
          BY <4>1, IdleAssumption
      <3>4. creq' = [creq EXCEPT ![r] = q]
        BY <1>7, <2>1, <2>5, <3>1 DEF AddMount, Goes
      <3>5. Seen(q)'
        BY <3>2 DEF Seen
      <3>6. \A v \in VolumeIds : Due(creq[r], v) => Due(q, v)
        BY <2>1, <3>2, <3>3 DEF Due
      <3>7. creq[r] # Idle /\ creq[r].op # "create" /\ creq[r].c = q.c
        BY <2>1, <3>2
      <3> QED
        BY <2>3, <3>4, <3>5, <3>6, <3>7, StepRead
    <2> QED
      BY <2>4, <2>5
  <1>8. CASE MountFails(r)
    <2>1. PICK p : p = creq[r] /\ p # Idle /\ p.op = "save mount"
      BY <1>8 DEF MountFails
    <2>2. p.c \in ContainerIds /\ p.v \in VolumeIds
      BY <2>1, WorkOf DEF Form, Own
    <2>3. UNCHANGED <<cont, vol, collided, failed>>
      BY <1>8 DEF MountFails
    <2>4. PICK q : q = [op |-> "compensate", c |-> p.c, v |-> p.v]
      OBVIOUS
    <2>5. q.op = "compensate" /\ q.c = p.c /\ q.v = p.v
      BY <2>4
    <2>6. q # Idle
      <3>1. q \in [op : {"mount", "compensate"}, c : ContainerIds, v : VolumeIds]
        BY <2>2, <2>4
      <3> QED
        BY <3>1, IdleAssumption
    <2>7. creq' = [creq EXCEPT ![r] = q]
      BY <1>8, <2>1, <2>4 DEF MountFails, Goes
    <2>8. Seen(q)'
      BY <2>5 DEF Seen
    <2>9. \A v \in VolumeIds : Due(creq[r], v) => Due(q, v)
      BY <2>1, <2>5, <2>6 DEF Due
    <2>10. creq[r] # Idle /\ creq[r].op # "create" /\ creq[r].c = q.c
      BY <2>1, <2>5
    <2> QED
      BY <2>3, <2>7, <2>8, <2>9, <2>10, StepRead
  <1> QED
    BY <1>1, <1>2, <1>3, <1>4, <1>5, <1>6, <1>7, <1>8

LEMMA CommitMount ==
  ASSUME ContainerFormInv, MountInv, NoLostVolume, NEW r \in Requests, CommitContainer(r)
  PROVE  MountInv' /\ NoLostVolume'
  <1>1. PICK c \in ContainerIds, row \in ContainerRows :
          /\ cont[c] = NoRow /\ cont' = [cont EXCEPT ![c] = row]
          /\ row.cpu = creq[r].cpu /\ row.live = TRUE /\ Own(row.mounts, c)'
          /\ vol' \in [VolumeIds -> VolumeRows \cup {NoRow}]
          /\ \A v \in VolumeIds : IF vol[v] # NoRow THEN vol'[v] = vol[v] ELSE vol'[v] = NoRow \/ v \in row.mounts
    BY CommitContainerIs
  <1>2. /\ creq[r] # Idle /\ creq[r].op = "create" /\ creq' = [creq EXCEPT ![r] = Idle]
        /\ UNCHANGED <<contLock, collided, failed>>
    BY DEF CommitContainer, Idles
  <1>3. cont'[c] = row /\ \A d \in ContainerIds \ {c} : cont'[d] = cont[d]
    BY <1>1 DEF ContainerFormInv, RowsOK
  <1>4. \A d \in ContainerIds : cont[d] # NoRow => cont'[d].mounts \subseteq cont[d].mounts
    BY <1>1, <1>3
  <1>5. MountInv'
    BY <1>2, <1>4, StepMount
  <1>6. ASSUME NEW v \in VolumeIds, LiveVolume(v)'
        PROVE  \/ LiveVolume(v) /\ vol'[v].for = vol[v].for /\ (ContainerHeld(v) => ContainerHeld(v)')
               \/ ContainerHeld(v)'
    <2>1. CASE vol[v] # NoRow
      <3>1. vol'[v] = vol[v]
        BY <1>1, <2>1
      <3>2. vol[v].for \in ContainerIds
        BY <2>1 DEF ContainerFormInv, RowsOK, VolumeRows
      <3>3. ContainerHeld(v) => ContainerHeld(v)'
        BY <1>1, <1>3, <3>1, <3>2 DEF ContainerHeld, LiveContainer
      <3> QED
        BY <1>6, <3>1, <3>3 DEF LiveVolume
    <2>2. CASE vol[v] = NoRow
      <3>1. v \in row.mounts
        BY <1>1, <1>6, <2>2 DEF LiveVolume
      <3>2. vol'[v].for = c
        BY <1>1, <3>1 DEF Own
      <3>3. row # NoRow
        BY NoContainerAssumption
      <3> QED
        BY <1>1, <1>3, <3>1, <3>2, <3>3 DEF ContainerHeld, LiveContainer
    <2> QED
      BY <2>1, <2>2
  <1>7. \A v \in VolumeIds : ~ Due(creq[r], v)
    BY <1>2 DEF Due
  <1>8. NoLostVolume'
    BY <1>2, <1>6, <1>7, StepNoLost
  <1> QED
    BY <1>5, <1>8

LEMMA SaveContainerMount ==
  ASSUME ContainerFormInv, MountInv, NoLostVolume, NEW r \in Requests, SaveContainer(r)
  PROVE  MountInv' /\ NoLostVolume'
  <1>1. PICK q : q = creq[r]
    OBVIOUS
  <1>2. q.c \in ContainerIds /\ cont[q.c] \in ContainerRows
    BY <1>1, SaveContainerIs
  <1>3. PICK row \in ContainerRows :
          cont' = [cont EXCEPT ![q.c] = row] /\ row.live = TRUE /\ row.mounts = q.seen.mounts
    BY <1>1, SaveContainerIs DEF Saved
  <1>4. q # Idle /\ q.op = "save" /\ creq' = [creq EXCEPT ![r] = Idle] /\ UNCHANGED <<vol, collided, failed>>
    BY <1>1 DEF SaveContainer, Idles
  <1>5. cont'[q.c] = row /\ \A d \in ContainerIds \ {q.c} : cont'[d] = cont[d]
    BY <1>2, <1>3 DEF ContainerFormInv, RowsOK
  <1>6. MountInv'
    BY <1>1, <1>4, <1>5, StepMount
  <1>7. q.c \notin collided => cont[q.c].mounts \subseteq row.mounts
    BY <1>1, <1>3, <1>4 DEF MountInv, SeenInv, Seen
  <1>8. ASSUME NEW v \in VolumeIds, LiveVolume(v)', vol'[v].for \notin collided', ContainerHeld(v) PROVE ContainerHeld(v)'
    <2>1. vol[v].for \in ContainerIds
      BY <1>4, <1>8 DEF ContainerFormInv, RowsOK, VolumeRows, LiveVolume
    <2>2. row # NoRow
      BY NoContainerAssumption
    <2> QED
      BY <1>3, <1>4, <1>5, <1>7, <1>8, <2>1, <2>2 DEF ContainerHeld, LiveContainer
  <1>9. \A v \in VolumeIds : ~ Due(creq[r], v) /\ LiveVolume(v)' = LiveVolume(v)
    BY <1>1, <1>4 DEF Due, LiveVolume
  <1>10. NoLostVolume'
    BY <1>4, <1>8, <1>9, StepNoLost
  <1> QED
    BY <1>6, <1>10

LEMMA CommitDeleteMount ==
  ASSUME ContainerFormInv, MountInv, NoLostVolume, NEW r \in Requests, CommitContainerDelete(r)
  PROVE  MountInv' /\ NoLostVolume'
  <1>1. PICK q : q = creq[r]
    OBVIOUS
  <1>2. q.c \in ContainerIds /\ LiveContainer(q.c)
    BY <1>1, CommitContainerDeleteIs
  <1>3. PICK row \in ContainerRows : Deleted(q, row)
    BY <1>1, CommitContainerDeleteIs
  <1>4. q # Idle /\ q.op = "delete" /\ creq' = [creq EXCEPT ![r] = Idle] /\ UNCHANGED collided
    BY <1>1 DEF CommitContainerDelete, Idles
  <1>5. cont'[q.c] = row /\ \A d \in ContainerIds \ {q.c} : cont'[d] = cont[d]
    BY <1>2, <1>3 DEF ContainerFormInv, RowsOK, Deleted
  <1>6. MountInv'
    BY <1>1, <1>4, <1>5, StepMount
  <1>7. Own(q.mounts, q.c)
    BY <1>1, <1>4, WorkOf DEF Form
  <1>8. failed \subseteq failed'
    BY <1>3 DEF Deleted
  <1>9. ASSUME NEW v \in VolumeIds, LiveVolume(v)', vol'[v].for \notin collided' \cup failed'
        PROVE  LiveVolume(v) /\ vol'[v].for = vol[v].for /\ (ContainerHeld(v) => ContainerHeld(v)')
    <2>1. v \notin q.mounts \ row.mounts
      BY <1>3, <1>9 DEF Deleted, LiveVolume
    <2>2. vol'[v] = vol[v]
      BY <1>3, <2>1 DEF Deleted
    <2>3. vol[v] # NoRow /\ vol[v].for \in ContainerIds
      BY <1>9, <2>2 DEF ContainerFormInv, RowsOK, VolumeRows, LiveVolume
    <2>4. ASSUME ContainerHeld(v) PROVE ContainerHeld(v)'
      <3>1. CASE vol[v].for # q.c
        BY <1>5, <2>2, <2>3, <2>4, <3>1 DEF ContainerHeld, LiveContainer
      <3>2. CASE vol[v].for = q.c
        <4>1. q.c \notin collided /\ q.c \notin failed'
          BY <1>4, <1>9, <2>2, <3>2
        <4>2. v \in q.mounts
          BY <1>1, <1>4, <2>4, <3>2, <4>1 DEF ContainerHeld, MountInv, SeenInv, Seen
        <4>3. row.mounts = {}
          BY <1>3, <4>1 DEF Deleted
        <4> QED
          BY <2>1, <4>2, <4>3
      <3> QED
        BY <3>1, <3>2
    <2> QED
      BY <1>9, <2>2, <2>4 DEF LiveVolume
  <1>10. \A v \in VolumeIds : ~ Due(creq[r], v)
    BY <1>1, <1>4 DEF Due
  <1>11. NoLostVolume'
    BY <1>4, <1>8, <1>9, <1>10, StepNoLost
  <1> QED
    BY <1>6, <1>11

LEMMA CreateVolumeMount ==
  ASSUME ContainerFormInv, MountInv, NoLostVolume, NEW r \in Requests, CreateVolume(r)
  PROVE  MountInv' /\ NoLostVolume'
  <1>1. PICK p : p = creq[r]
    OBVIOUS
  <1>2. p.c \in ContainerIds
    BY <1>1, CreateVolumeIs
  <1>3. PICK v \in VolumeIds :
          /\ vol[v] = NoRow /\ vol'[v] # NoRow /\ vol'[v].for = p.c
          /\ \A w \in VolumeIds \ {v} : vol'[w] = vol[w]
          /\ creq' = [creq EXCEPT ![r] = [op |-> "mount", c |-> p.c, v |-> v]]
    BY <1>1, CreateVolumeIs
  <1>4. p # Idle /\ p.op = "create volume" /\ UNCHANGED <<cont, contLock, collided, failed>>
    BY <1>1 DEF CreateVolume
  <1>5. PICK q : q = [op |-> "mount", c |-> p.c, v |-> v]
    OBVIOUS
  <1>6. q.op = "mount" /\ q.c = p.c /\ q.v = v
    BY <1>5
  <1>7. q # Idle
    <2>1. q \in [op : {"mount", "compensate"}, c : ContainerIds, v : VolumeIds]
      BY <1>2, <1>5
    <2> QED
      BY <2>1, IdleAssumption
  <1>8. Seen(q)'
    BY <1>6 DEF Seen
  <1>9. creq[r] # Idle /\ creq[r].op # "create" /\ creq[r].c = q.c
    BY <1>1, <1>4, <1>6
  <1>10. MountInv'
    BY <1>3, <1>4, <1>5, <1>8, <1>9, StepMount
  <1>11. \A w \in VolumeIds : ~ Due(creq[r], w)
    BY <1>1, <1>4 DEF Due
  <1>12. Due(q, v)
    BY <1>6, <1>7 DEF Due
  <1>13. ASSUME NEW w \in VolumeIds \ {v}
         PROVE  LiveVolume(w)' = LiveVolume(w) /\ vol'[w].for = vol[w].for /\ ContainerHeld(w)' = ContainerHeld(w)
    BY <1>3, <1>4 DEF LiveVolume, ContainerHeld, LiveContainer
  <1>14. \A w \in VolumeIds :
           LiveVolume(w)' =>
             \/ LiveVolume(w) /\ vol'[w].for = vol[w].for /\ (ContainerHeld(w) \/ Due(creq[r], w) => ContainerHeld(w)' \/ Due(q, w))
             \/ ContainerHeld(w)' \/ Due(q, w)
    BY <1>11, <1>12, <1>13
  <1>15. NoLostVolume'
    BY <1>3, <1>4, <1>5, <1>14, StepNoLost
  <1> QED
    BY <1>10, <1>15

LEMMA SaveMountMount ==
  ASSUME ContainerFormInv, MountInv, NoLostVolume, NEW r \in Requests, SaveMount(r)
  PROVE  MountInv' /\ NoLostVolume'
  <1>1. PICK q : q = creq[r]
    OBVIOUS
  <1>2. q.c \in ContainerIds /\ LiveContainer(q.c)
    BY <1>1, SaveMountIs
  <1>3. PICK row \in ContainerRows :
          /\ cont' = [cont EXCEPT ![q.c] = row] /\ row.live = cont[q.c].live /\ row.mounts = q.mounts \cup {q.v}
    BY <1>1, SaveMountIs
  <1>4. q # Idle /\ q.op = "save mount" /\ creq' = [creq EXCEPT ![r] = Idle] /\ UNCHANGED <<vol, collided, failed>>
    BY <1>1 DEF SaveMount, Idles
  <1>5. cont'[q.c] = row /\ \A d \in ContainerIds \ {q.c} : cont'[d] = cont[d]
    BY <1>2, <1>3 DEF ContainerFormInv, RowsOK
  <1>6. MountInv'
    BY <1>1, <1>4, <1>5, StepMount
  <1>7. q.c \notin collided => cont[q.c].mounts \subseteq row.mounts
    BY <1>1, <1>3, <1>4 DEF MountInv, SeenInv, Seen
  <1>8. row # NoRow /\ row.live
    BY <1>2, <1>3, NoContainerAssumption DEF LiveContainer
  <1>9. Own({q.v}, q.c)
    BY <1>1, <1>4, WorkOf DEF Form
  <1>10. ASSUME NEW v \in VolumeIds, LiveVolume(v)', vol'[v].for \notin collided', ContainerHeld(v) \/ Due(creq[r], v)
         PROVE  ContainerHeld(v)'
    <2>1. vol[v].for \in ContainerIds
      BY <1>4, <1>10 DEF ContainerFormInv, RowsOK, VolumeRows, LiveVolume
    <2>2. CASE ContainerHeld(v)
      BY <1>3, <1>4, <1>5, <1>7, <1>8, <1>10, <2>1, <2>2 DEF ContainerHeld, LiveContainer
    <2>3. CASE Due(creq[r], v)
      BY <1>1, <1>3, <1>4, <1>5, <1>8, <1>9, <2>3 DEF ContainerHeld, Due, Own, LiveContainer
    <2> QED
      BY <1>10, <2>2, <2>3
  <1>11. \A v \in VolumeIds : LiveVolume(v)' = LiveVolume(v)
    BY <1>4 DEF LiveVolume
  <1>12. NoLostVolume'
    BY <1>4, <1>10, <1>11, StepNoLost
  <1> QED
    BY <1>6, <1>12

LEMMA SaveUnmountMount ==
  ASSUME ContainerFormInv, MountInv, NoLostVolume, NEW r \in Requests, SaveUnmount(r)
  PROVE  MountInv' /\ NoLostVolume'
  <1>1. PICK p : p = creq[r]
    OBVIOUS
  <1>2. p.c \in ContainerIds /\ LiveContainer(p.c)
    BY <1>1, SaveUnmountIs
  <1>3. PICK row \in ContainerRows :
          /\ cont' = [cont EXCEPT ![p.c] = row] /\ row.live = cont[p.c].live /\ row.mounts = p.mounts
    BY <1>1, SaveUnmountIs
  <1>4. /\ p # Idle /\ p.op = "save unmount" /\ UNCHANGED <<vol, collided, failed>>
        /\ creq' = [creq EXCEPT ![r] = [op |-> "compensate", c |-> p.c, v |-> p.v]]
    BY <1>1 DEF SaveUnmount, Goes
  <1>5. cont'[p.c] = row /\ \A d \in ContainerIds \ {p.c} : cont'[d] = cont[d]
    BY <1>2, <1>3 DEF ContainerFormInv, RowsOK
  <1>6. p.v \in VolumeIds
    BY <1>1, <1>4, WorkOf DEF Form, Own
  <1>7. PICK q : q = [op |-> "compensate", c |-> p.c, v |-> p.v]
    OBVIOUS
  <1>8. q.op = "compensate" /\ q.c = p.c /\ q.v = p.v
    BY <1>7
  <1>9. q # Idle
    <2>1. q \in [op : {"mount", "compensate"}, c : ContainerIds, v : VolumeIds]
      BY <1>2, <1>6, <1>7
    <2> QED
      BY <2>1, IdleAssumption
  <1>10. Seen(q)'
    BY <1>8 DEF Seen
  <1>11. MountInv'
    BY <1>1, <1>4, <1>5, <1>7, <1>8, <1>10, StepMount
  <1>12. p.c \notin collided => cont[p.c].mounts \ {p.v} \subseteq row.mounts
    BY <1>1, <1>3, <1>4 DEF MountInv, SeenInv, Seen
  <1>13. row # NoRow /\ row.live
    BY <1>2, <1>3, NoContainerAssumption DEF LiveContainer
  <1>14. \A v \in VolumeIds : ~ Due(creq[r], v) /\ LiveVolume(v)' = LiveVolume(v)
    BY <1>1, <1>4 DEF Due, LiveVolume
  <1>15. Due(q, p.v)
    BY <1>8, <1>9 DEF Due
  <1>16. ASSUME NEW v \in VolumeIds, LiveVolume(v)', vol'[v].for \notin collided', ContainerHeld(v)
         PROVE  ContainerHeld(v)' \/ Due(q, v)
    <2>1. vol[v].for \in ContainerIds
      BY <1>4, <1>16 DEF ContainerFormInv, RowsOK, VolumeRows, LiveVolume
    <2>2. CASE v = p.v
      BY <1>15, <2>2
    <2>3. CASE v # p.v
      BY <1>3, <1>4, <1>5, <1>12, <1>13, <1>16, <2>1, <2>3 DEF ContainerHeld, LiveContainer
    <2> QED
      BY <2>2, <2>3
  <1>17. NoLostVolume'
    BY <1>4, <1>7, <1>14, <1>16, StepNoLost
  <1> QED
    BY <1>11, <1>17

LEMMA DroppersMount ==
  ASSUME ContainerFormInv, MountInv, NoLostVolume, NEW r \in Requests,
         DeleteVolume(r) \/ RemoveProjectVolume(r) \/ AbortTransaction(r)
  PROVE  MountInv' /\ NoLostVolume'
  <1>1. ASSUME NEW v \in VolumeIds, vol[v] # NoRow, DropVolume(v), creq' = [creq EXCEPT ![r] = Idle],
               \A w \in VolumeIds \ {v} : ~ Due(creq[r], w), UNCHANGED <<collided, failed>>
        PROVE  MountInv' /\ NoLostVolume'
    <2>1. /\ \A c \in ContainerIds : cont[c] # NoRow =>
                /\ cont'[c] # NoRow /\ cont'[c].live = cont[c].live
                /\ cont'[c].mounts = cont[c].mounts \ {v}
          /\ vol'[v] # NoRow /\ vol'[v].for = vol[v].for /\ vol'[v].live = FALSE
          /\ \A w \in VolumeIds \ {v} : vol'[w] = vol[w]
      BY <1>1, DropVolumeIs
    <2>2. MountInv'
      BY <1>1, <2>1, StepMount
    <2>3. ASSUME NEW w \in VolumeIds, LiveVolume(w)'
          PROVE  LiveVolume(w) /\ vol'[w].for = vol[w].for /\ (ContainerHeld(w) => ContainerHeld(w)') /\ ~ Due(creq[r], w)
      <3>1. w # v
        BY <2>1, <2>3 DEF LiveVolume
      <3>2. vol'[w] = vol[w]
        BY <2>1, <3>1
      <3>3. vol[w].for \in ContainerIds
        BY <2>3, <3>2 DEF ContainerFormInv, RowsOK, VolumeRows, LiveVolume
      <3>4. ContainerHeld(w) => ContainerHeld(w)'
        BY <2>1, <3>1, <3>2, <3>3 DEF ContainerHeld, LiveContainer
      <3> QED
        BY <1>1, <2>3, <3>1, <3>2, <3>4 DEF LiveVolume
    <2>4. NoLostVolume'
      BY <1>1, <2>3, StepNoLost
    <2> QED
      BY <2>2, <2>4
  <1>2. CASE DeleteVolume(r)
    <2>1. PICK q : q = creq[r]
      OBVIOUS
    <2>2. /\ creq' = [creq EXCEPT ![r] = Idle] /\ UNCHANGED <<collided, failed>>
          /\ q.v \in VolumeIds /\ vol[q.v] # NoRow /\ DropVolume(q.v)
      BY <1>2, <2>1, DeleteVolumeIs
    <2>3. \A w \in VolumeIds \ {q.v} : ~ Due(creq[r], w)
      BY <2>1 DEF Due
    <2> QED
      BY <1>1, <2>2, <2>3
  <1>3. CASE RemoveProjectVolume(r)
    <2>1. PICK v \in VolumeIds : vol[v] # NoRow /\ DropVolume(v)
      BY <1>3, RemoveIs
    <2>2. creq[r] = Idle /\ creq' = [creq EXCEPT ![r] = Idle] /\ UNCHANGED <<collided, failed>>
      BY <1>3, RemoveIs
    <2>3. \A w \in VolumeIds \ {v} : ~ Due(creq[r], w)
      BY <2>2 DEF Due
    <2> QED
      BY <1>1, <2>1, <2>2, <2>3
  <1>4. CASE AbortTransaction(r)
    <2>1. PICK q : q = creq[r] /\ q # Idle
      BY <1>4 DEF AbortTransaction
    <2>2. /\ creq' = [creq EXCEPT ![r] = Idle] /\ UNCHANGED <<cont, vol, collided>>
          /\ failed' = IF q.op \in {"mount", "save mount", "compensate"} THEN failed \cup {q.c} ELSE failed
      BY <1>4, <2>1 DEF AbortTransaction, Idles
    <2>3. MountInv'
      BY <2>2, StepMount
    <2>4. ASSUME NEW v \in VolumeIds, vol'[v].for \notin failed' PROVE ~ Due(creq[r], v)
      <3>1. SUFFICES ASSUME Due(q, v) PROVE FALSE
        BY <2>1
      <3>2. Own({q.v}, q.c)
        BY <2>1, <3>1, WorkOf DEF Form, Due
      <3> QED
        BY <2>2, <2>4, <3>1, <3>2 DEF Due, Own
    <2>5. \A v \in VolumeIds : LiveVolume(v)' = LiveVolume(v) /\ ContainerHeld(v)' = ContainerHeld(v)
      BY <2>2 DEF LiveVolume, ContainerHeld, LiveContainer
    <2>6. failed \subseteq failed'
      BY <2>2
    <2>7. NoLostVolume'
      BY <2>2, <2>4, <2>5, <2>6, StepNoLost
    <2> QED
      BY <2>3, <2>7
  <1> QED
    BY <1>2, <1>3, <1>4

LEMMA MountStep == ContainerFormInv /\ MountInv /\ NoLostVolume /\ [ContainersNext]_cvars => MountInv' /\ NoLostVolume'
  <1> SUFFICES ASSUME ContainerFormInv, MountInv, NoLostVolume, [ContainersNext]_cvars PROVE MountInv' /\ NoLostVolume'
    OBVIOUS
  <1>1. CASE UNCHANGED cvars
    <2>1. ContainerAloneInv'
      BY <1>1 DEF cvars, MountInv, ContainerAloneInv
    <2>2. SeenInv'
      BY <1>1 DEF cvars, MountInv, SeenInv, Seen
    <2>3. NoLostVolume'
      BY <1>1 DEF cvars, NoLostVolume, LiveVolume, LiveContainer
    <2> QED
      BY <2>1, <2>2, <2>3 DEF MountInv
  <1>2. ASSUME NEW r \in Requests, ContainerStep(r) PROVE MountInv' /\ NoLostVolume'
    BY <1>2, ReadersMount, CommitMount, SaveContainerMount, CommitDeleteMount, CreateVolumeMount, SaveMountMount,
       SaveUnmountMount, DroppersMount DEF ContainerStep
  <1> QED
    BY <1>1, <1>2 DEF ContainersNext

\* A live volume that was made for a container is mounted there, or a request is about to mount
\* or delete it (AddVolume and its compensation, DeleteVolume, DeleteContainer), unless requests
\* of the container collided or one stopped midway.
THEOREM NoLostVolumeHolds == ContainersSpec => []NoLostVolume
  <1>1. ContainersInit => ContainerFormInv /\ MountInv /\ NoLostVolume
    BY InitContainerForm, InitMount
  <1>2. ContainerFormInv /\ MountInv /\ NoLostVolume /\ [ContainersNext]_cvars => (ContainerFormInv /\ MountInv /\ NoLostVolume)'
    BY ContainerFormStep, MountStep
  <1> QED
    BY <1>1, <1>2, PTL DEF ContainersSpec

\* Rows keep their shape (containers with their mounts, volumes, locks), and a row that is locked
\* is locked by the request that is about to save it (FOR UPDATE in UpdateContainer).
THEOREM ContainersTypeCorrect == ContainersSpec => []ContainersTypeOK
  <1>1. ContainerFormInv => ContainersTypeOK
    BY DEF ContainerFormInv, RowsOK, LocksOK, ContainersTypeOK
  <1> QED
    BY <1>1, FormAlways, PTL

-----------------------------------------------------------------------------
(* The volumes of the project exceed its limit by no more than the requests beyond the first *)
(* can have booked. *)

LiveVolumes == {v \in VolumeIds : LiveVolume(v)}

\* Work that will insert a volume, because the sum that it has read lets it.
Books(q) ==
  /\ q # Idle
  /\ \/ q.op = "create" /\ q.withVolume
     \/ q.op = "create volume"
  /\ WithinProjectDisk(q.total)
Booked == {r \in Requests : \E q \in {creq[r]} : Books(q)}

DiskInv ==
  (Cardinality(LiveVolumes) + Cardinality(Booked)) * Capacity <= DiskLimit + (Cardinality(Requests) - 1) * Capacity

LEMMA DiskSets ==
  /\ IsFiniteSet(LiveVolumes) /\ IsFiniteSet(Booked)
  /\ Cardinality(LiveVolumes) \in Nat /\ Cardinality(Booked) \in Nat /\ Cardinality(Requests) \in Nat \ {0}
  /\ Cardinality(Booked) <= Cardinality(Requests)
  /\ DiskTotal = Cardinality(LiveVolumes) * Capacity
  <1>1. IsFiniteSet(VolumeIds)
    BY ContainersAssumption, FS_Interval DEF VolumeIds
  <1>2. IsFiniteSet(LiveVolumes)
    BY <1>1, FS_Subset DEF LiveVolumes
  <1>3. IsFiniteSet(Requests) /\ Cardinality(Requests) \in Nat \ {0}
    BY TransactionsAssumption, FS_CardinalityType, FS_EmptySet
  <1>4. IsFiniteSet(Booked) /\ Cardinality(Booked) <= Cardinality(Requests)
    BY <1>3, FS_Subset DEF Booked
  <1>5. DiskTotal = Cardinality(LiveVolumes) * Capacity
    BY DEF DiskTotal, LiveVolumes
  <1> QED
    BY <1>2, <1>3, <1>4, <1>5, FS_CardinalityType

LEMMA InitDisk == ContainersInit => DiskInv
  <1> SUFFICES ASSUME ContainersInit PROVE DiskInv
    OBVIOUS
  <1>1. LiveVolumes = {}
    BY DEF ContainersInit, LiveVolumes, LiveVolume
  <1>2. Booked = {}
    BY DEF ContainersInit, Booked, Books
  <1>3. Cardinality(LiveVolumes) = 0 /\ Cardinality(Booked) = 0
    BY <1>1, <1>2, FS_EmptySet
  <1>4. PICK n : n = Cardinality(Requests) - 1 /\ n \in Nat
    BY DiskSets
  <1>5. n * Capacity \in Nat
    BY <1>4, ContainersAssumption
  <1> QED
    BY <1>3, <1>4, <1>5, ContainersAssumption DEF DiskInv

\* A step that inserts no volume and books none.
LEMMA StepDiskLower ==
  ASSUME DiskInv, LiveVolumes' \subseteq LiveVolumes, Booked' \subseteq Booked
  PROVE  DiskInv'
  <1>1. PICK a, b, c, d :
          /\ a = Cardinality(LiveVolumes) /\ b = Cardinality(Booked)
          /\ c = Cardinality(LiveVolumes') /\ d = Cardinality(Booked')
    OBVIOUS
  <1>2. a \in Nat /\ b \in Nat /\ c \in Nat /\ d \in Nat /\ c <= a /\ d <= b
    BY <1>1, DiskSets, FS_Subset, FS_CardinalityType
  <1>3. (c + d) * Capacity <= (a + b) * Capacity
    BY <1>2, ContainersAssumption
  <1>4. PICK k : k = DiskLimit + (Cardinality(Requests) - 1) * Capacity /\ k \in Int
    BY DiskSets, ContainersAssumption
  <1>5. (a + b) * Capacity <= k
    BY <1>1, <1>4 DEF DiskInv
  <1>6. (a + b) * Capacity \in Int /\ (c + d) * Capacity \in Int
    BY <1>2, ContainersAssumption
  <1>7. (c + d) * Capacity <= k
    BY <1>3, <1>4, <1>5, <1>6
  <1> QED
    BY <1>1, <1>4, <1>7 DEF DiskInv

\* What was booked is inserted.
LEMMA StepDiskInsert ==
  ASSUME DiskInv, NEW v \in VolumeIds, LiveVolumes' \subseteq LiveVolumes \cup {v},
         NEW r \in Booked, Booked' \subseteq Booked \ {r}
  PROVE  DiskInv'
  <1>1. PICK a, b, c, d :
          /\ a = Cardinality(LiveVolumes) /\ b = Cardinality(Booked)
          /\ c = Cardinality(LiveVolumes') /\ d = Cardinality(Booked')
    OBVIOUS
  <1>2. IsFiniteSet(LiveVolumes \cup {v}) /\ Cardinality(LiveVolumes \cup {v}) <= a + 1
    <2>1. IsFiniteSet(LiveVolumes) /\ a \in Nat
      BY <1>1, DiskSets
    <2>2. Cardinality(LiveVolumes \cup {v}) = IF v \in LiveVolumes THEN a ELSE a + 1
      BY <1>1, <2>1, FS_AddElement
    <2>3. IsFiniteSet(LiveVolumes \cup {v})
      BY <2>1, FS_AddElement
    <2> QED
      BY <2>1, <2>2, <2>3
  <1>3. IsFiniteSet(Booked \ {r}) /\ Cardinality(Booked \ {r}) = b - 1
    BY <1>1, DiskSets, FS_RemoveElement
  <1>4. IsFiniteSet(LiveVolumes') /\ c <= Cardinality(LiveVolumes \cup {v}) /\ IsFiniteSet(Booked') /\ d <= b - 1
    BY <1>1, <1>2, <1>3, FS_Subset
  <1>5. a \in Nat /\ b \in Nat /\ c \in Nat /\ d \in Nat /\ Cardinality(LiveVolumes \cup {v}) \in Nat
    BY <1>1, <1>2, <1>4, DiskSets, FS_CardinalityType
  <1>6. c + d <= a + b
    BY <1>2, <1>4, <1>5
  <1>7. (c + d) * Capacity <= (a + b) * Capacity
    BY <1>5, <1>6, ContainersAssumption
  <1>8. PICK k : k = DiskLimit + (Cardinality(Requests) - 1) * Capacity /\ k \in Int
    BY DiskSets, ContainersAssumption
  <1>9. (a + b) * Capacity <= k
    BY <1>1, <1>8 DEF DiskInv
  <1>10. (a + b) * Capacity \in Int /\ (c + d) * Capacity \in Int
    BY <1>5, ContainersAssumption
  <1>11. (c + d) * Capacity <= k
    BY <1>7, <1>8, <1>9, <1>10
  <1> QED
    BY <1>1, <1>8, <1>11 DEF DiskInv

\* A request has read the sum of now; if that lets it, all may have booked.
LEMMA StepDiskBook ==
  ASSUME DiskInv, LiveVolumes' = LiveVolumes, WithinProjectDisk(DiskTotal)
  PROVE  DiskInv'
  <1>1. PICK a, b, d, n :
          /\ a = Cardinality(LiveVolumes) /\ b = Cardinality(Booked) /\ d = Cardinality(Booked')
          /\ n = Cardinality(Requests)
    OBVIOUS
  <1>2. a \in Nat /\ b \in Nat /\ n \in Nat \ {0} /\ DiskTotal = a * Capacity
    BY <1>1, DiskSets
  <1>3. d \in Nat /\ d <= n
    <2>1. Booked' \subseteq Requests
      BY DEF Booked
    <2> QED
      BY <1>1, <2>1, TransactionsAssumption, FS_Subset, FS_CardinalityType
  <1>4. (a + b) * Capacity <= DiskLimit + (n - 1) * Capacity
    BY <1>1 DEF DiskInv
  <1>5. Capacity \in Nat \ {0} /\ DiskLimit \in Nat /\ W \in Nat \ {0} /\ DiskLimit + n * Capacity < W
    BY <1>1, SumsAssumption, ContainersAssumption, TransactionsAssumption
  <1>6. a * Capacity \in Nat /\ b * Capacity \in Nat /\ n * Capacity \in Nat /\ d * Capacity \in Nat
    BY <1>2, <1>3, <1>5
  <1>7. (a + b) * Capacity = a * Capacity + b * Capacity /\ (n - 1) * Capacity = n * Capacity - Capacity
    BY <1>2, <1>5
  <1>8. a * Capacity + Capacity < W
    BY <1>4, <1>5, <1>6, <1>7
  <1>9. a * Capacity + Capacity <= DiskLimit
    BY <1>2, <1>5, <1>6, <1>8 DEF WithinProjectDisk
  <1>10. d * Capacity <= n * Capacity
    BY <1>2, <1>3, <1>5
  <1>11. (a + d) * Capacity = a * Capacity + d * Capacity
    BY <1>2, <1>3, <1>5
  <1>12. (a + d) * Capacity <= DiskLimit + (n - 1) * Capacity
    BY <1>5, <1>6, <1>7, <1>9, <1>10, <1>11
  <1> QED
    BY <1>1, <1>12 DEF DiskInv

LEMMA BookedStep ==
  ASSUME ContainerFormInv, NEW r \in Requests, NEW q, creq' = [creq EXCEPT ![r] = q], ~ Books(q)
  PROVE  Booked' \subseteq Booked \ {r}
  <1>1. creq'[r] = q /\ \A s \in Requests \ {r} : creq'[s] = creq[s]
    BY DEF ContainerFormInv
  <1>2. ASSUME NEW s \in Requests, NEW p \in {creq'[s]}, Books(p) PROVE s \in Booked \ {r}
    <2>1. s # r
      BY <1>1, <1>2
    <2> QED
      BY <1>1, <1>2, <2>1 DEF Booked
  <1> QED
    BY <1>2 DEF Booked, Books

LEMMA DiskStep == ContainerFormInv /\ DiskInv /\ [ContainersNext]_cvars => DiskInv'
  <1> SUFFICES ASSUME ContainerFormInv, DiskInv, [ContainersNext]_cvars PROVE DiskInv'
    OBVIOUS
  <1>0. ~ Books(Idle)
    BY DEF Books
  <1>1. CASE UNCHANGED cvars
    <2>1. LiveVolumes' \subseteq LiveVolumes
      BY <1>1 DEF cvars, LiveVolumes, LiveVolume
    <2>2. Booked' \subseteq Booked
      BY <1>1 DEF cvars, Booked, Books
    <2> QED
      BY <2>1, <2>2, StepDiskLower
  <1>2. ASSUME NEW r \in Requests, NEW q, creq' = [creq EXCEPT ![r] = q], ~ Books(q),
               LiveVolumes' \subseteq LiveVolumes
        PROVE  DiskInv'
    BY <1>2, BookedStep, StepDiskLower
  <1>3. ASSUME vol' = vol PROVE LiveVolumes' = LiveVolumes
    BY <1>3 DEF LiveVolumes, LiveVolume
  <1>4. ASSUME NEW r \in Requests, NEW q, creq' = [creq EXCEPT ![r] = q], vol' = vol, q.total = DiskTotal
        PROVE  DiskInv'
    <2>1. CASE Books(q)
      <3>1. WithinProjectDisk(DiskTotal)
        BY <1>4, <2>1 DEF Books
      <3> QED
        BY <1>3, <1>4, <3>1, StepDiskBook
    <2>2. CASE ~ Books(q)
      BY <1>2, <1>3, <1>4, <2>2
    <2> QED
      BY <2>1, <2>2
  <1>5. ASSUME NEW r \in Requests, CreateContainer(r) PROVE DiskInv'
    <2>1. PICK cpu \in Cpus, withVolume \in BOOLEAN :
            creq' = [creq EXCEPT ![r] = [op |-> "create", cpu |-> cpu, withVolume |-> withVolume, total |-> DiskTotal]]
      BY <1>5 DEF CreateContainer, Goes
    <2>2. PICK q : q = [op |-> "create", cpu |-> cpu, withVolume |-> withVolume, total |-> DiskTotal]
      OBVIOUS
    <2>3. q.total = DiskTotal
      BY <2>2
    <2> QED
      BY <1>4, <1>5, <2>1, <2>2, <2>3 DEF CreateContainer
  <1>6. ASSUME NEW r \in Requests, AddContainerVolume(r) PROVE DiskInv'
    <2>1. PICK c \in ContainerIds :
            creq' = [creq EXCEPT ![r] = [op |-> "create volume", c |-> c, total |-> DiskTotal]]
      BY <1>6 DEF AddContainerVolume, Goes
    <2>2. PICK q : q = [op |-> "create volume", c |-> c, total |-> DiskTotal]
      OBVIOUS
    <2>3. q.total = DiskTotal
      BY <2>2
    <2> QED
      BY <1>4, <1>6, <2>1, <2>2, <2>3 DEF AddContainerVolume
  <1>7. ASSUME NEW r \in Requests, NEW q, creq' = [creq EXCEPT ![r] = q], vol' = vol,
               q.op \notin {"create", "create volume"} \/ q = Idle
        PROVE  DiskInv'
    <2>1. ~ Books(q)
      BY <1>7 DEF Books
    <2> QED
      BY <1>2, <1>3, <1>7, <2>1
  <1>8. ASSUME NEW r \in Requests,
               \/ UpdateContainer(r) \/ LockContainer(r) \/ DeleteContainer(r) \/ DeleteMount(r)
               \/ AddMount(r) \/ MountFails(r) \/ SaveUnmount(r)
        PROVE  DiskInv'
    <2>1. vol' = vol
      BY <1>8 DEF UpdateContainer, LockContainer, DeleteContainer, DeleteMount, AddMount, MountFails, SaveUnmount
    <2>2. CASE UpdateContainer(r)
      <3>1. PICK c, cpu : creq' = [creq EXCEPT ![r] = [op |-> "update", c |-> c, cpu |-> cpu, seen |-> cont[c]]]
        BY <2>2 DEF UpdateContainer, Goes
      <3>2. PICK q : q = [op |-> "update", c |-> c, cpu |-> cpu, seen |-> cont[c]]
        OBVIOUS
      <3>3. q.op = "update"
        BY <3>2
      <3> QED
        BY <1>7, <2>1, <3>1, <3>2, <3>3
    <2>3. CASE LockContainer(r)
      <3>1. PICK p : p = creq[r] /\ p # Idle /\ p.op = "update"
        BY <2>3 DEF LockContainer
      <3>2. creq' = [creq EXCEPT ![r] = [p EXCEPT !.op = "save"]]
        BY <2>3, <3>1 DEF LockContainer, Goes
      <3>3. PICK q : q = [p EXCEPT !.op = "save"]
        OBVIOUS
      <3>4. Form(r, p)
        BY <3>1, WorkOf
      <3>5. q.op = "save"
        BY <3>1, <3>3, <3>4 DEF Form
      <3> QED
        BY <1>7, <2>1, <3>2, <3>3, <3>5
    <2>4. CASE DeleteContainer(r)
      <3>1. PICK c : creq' = [creq EXCEPT ![r] = [op |-> "delete", c |-> c, mounts |-> cont[c].mounts]]
        BY <2>4 DEF DeleteContainer, Goes
      <3>2. PICK q : q = [op |-> "delete", c |-> c, mounts |-> cont[c].mounts]
        OBVIOUS
      <3>3. q.op = "delete"
        BY <3>2
      <3> QED
        BY <1>7, <2>1, <3>1, <3>2, <3>3
    <2>5. CASE DeleteMount(r)
      <3>1. PICK c, v : creq' = [creq EXCEPT ![r] = [op |-> "save unmount", c |-> c, v |-> v, mounts |-> cont[c].mounts \ {v}]]
        BY <2>5 DEF DeleteMount, Goes
      <3>2. PICK q : q = [op |-> "save unmount", c |-> c, v |-> v, mounts |-> cont[c].mounts \ {v}]
        OBVIOUS
      <3>3. q.op = "save unmount"
        BY <3>2
      <3> QED
        BY <1>7, <2>1, <3>1, <3>2, <3>3
    <2>6. CASE AddMount(r)
      <3>1. PICK q : q = IF LiveContainer(creq[r].c)
                         THEN [op |-> "save mount", c |-> creq[r].c, v |-> creq[r].v, mounts |-> cont[creq[r].c].mounts]
                         ELSE [op |-> "compensate", c |-> creq[r].c, v |-> creq[r].v]
        OBVIOUS
      <3>2. q.op \in {"save mount", "compensate"}
        BY <3>1
      <3>3. creq' = [creq EXCEPT ![r] = q]
        BY <2>6, <3>1 DEF AddMount, Goes
      <3> QED
        BY <1>7, <2>1, <3>2, <3>3
    <2>7. CASE MountFails(r) \/ SaveUnmount(r)
      <3>1. PICK q : q = [op |-> "compensate", c |-> creq[r].c, v |-> creq[r].v]
        OBVIOUS
      <3>2. q.op = "compensate"
        BY <3>1
      <3>3. creq' = [creq EXCEPT ![r] = q]
        BY <2>7, <3>1 DEF MountFails, SaveUnmount, Goes
      <3> QED
        BY <1>7, <2>1, <3>2, <3>3
    <2> QED
      BY <1>8, <2>2, <2>3, <2>4, <2>5, <2>6, <2>7
  <1>9. ASSUME NEW r \in Requests, SaveContainer(r) \/ SaveMount(r) \/ AbortTransaction(r) PROVE DiskInv'
    BY <1>7, <1>9 DEF SaveContainer, SaveMount, AbortTransaction, Idles
  <1>10. ASSUME NEW r \in Requests, CommitContainer(r) PROVE DiskInv'
    <2>1. PICK p : p = creq[r] /\ p # Idle /\ p.op = "create" /\ creq' = [creq EXCEPT ![r] = Idle]
      BY <1>10 DEF CommitContainer, Idles
    <2>2. CASE vol' = vol
      BY <1>7, <2>1, <2>2
    <2>3. ASSUME NEW v \in VolumeIds, NEW c, p.withVolume, WithinProjectDisk(p.total),
                 vol' = [vol EXCEPT ![v] = [for |-> c, live |-> TRUE]]
          PROVE  DiskInv'
      <3>1. Books(p)
        BY <2>1, <2>3 DEF Books
      <3>2. r \in Booked
        BY <2>1, <3>1 DEF Booked
      <3>3. \A w \in VolumeIds \ {v} : vol'[w] = vol[w]
        BY <2>3 DEF ContainerFormInv, RowsOK
      <3>4. LiveVolumes' \subseteq LiveVolumes \cup {v}
        BY <3>3 DEF LiveVolumes, LiveVolume
      <3>5. Booked' \subseteq Booked \ {r}
        BY <1>0, <2>1, BookedStep
      <3> QED
        BY <3>2, <3>4, <3>5, StepDiskInsert
    <2>4. \/ vol' = vol
          \/ \E v \in VolumeIds, c \in ContainerIds :
               p.withVolume /\ WithinProjectDisk(p.total) /\ vol' = [vol EXCEPT ![v] = [for |-> c, live |-> TRUE]]
      BY <1>10, <2>1 DEF CommitContainer
    <2> QED
      BY <2>2, <2>3, <2>4
  <1>11. ASSUME NEW r \in Requests, CreateVolume(r) PROVE DiskInv'
    <2>1. PICK p : p = creq[r]
      OBVIOUS
    <2>2. p # Idle /\ p.op = "create volume" /\ WithinProjectDisk(p.total)
      BY <1>11, <2>1 DEF CreateVolume
    <2>3. PICK v \in VolumeIds :
            /\ \A w \in VolumeIds \ {v} : vol'[w] = vol[w]
            /\ creq' = [creq EXCEPT ![r] = [op |-> "mount", c |-> p.c, v |-> v]]
      BY <1>11, <2>1, CreateVolumeIs
    <2>4. PICK q : q = [op |-> "mount", c |-> p.c, v |-> v]
      OBVIOUS
    <2>5. q.op = "mount"
      BY <2>4
    <2>6. ~ Books(q)
      BY <2>5 DEF Books
    <2>7. r \in Booked
      BY <2>1, <2>2 DEF Booked, Books
    <2>8. LiveVolumes' \subseteq LiveVolumes \cup {v}
      BY <2>3 DEF LiveVolumes, LiveVolume
    <2>9. Booked' \subseteq Booked \ {r}
      BY <2>3, <2>4, <2>6, BookedStep
    <2> QED
      BY <2>7, <2>8, <2>9, StepDiskInsert
  <1>12. ASSUME NEW r \in Requests, CommitContainerDelete(r) PROVE DiskInv'
    <2>1. PICK q : q = creq[r]
      OBVIOUS
    <2>2. PICK row \in ContainerRows : Deleted(q, row)
      BY <1>12, <2>1, CommitContainerDeleteIs
    <2>3. LiveVolumes' \subseteq LiveVolumes
      BY <2>2 DEF Deleted, LiveVolumes, LiveVolume
    <2> QED
      BY <1>0, <1>2, <1>12, <2>3 DEF CommitContainerDelete, Idles
  <1>13. ASSUME NEW r \in Requests, NEW v \in VolumeIds, vol[v] # NoRow, DropVolume(v), creq' = [creq EXCEPT ![r] = Idle]
         PROVE  DiskInv'
    <2>1. vol'[v].live = FALSE /\ \A w \in VolumeIds \ {v} : vol'[w] = vol[w]
      BY <1>13, DropVolumeIs
    <2>2. LiveVolumes' \subseteq LiveVolumes
      BY <2>1 DEF LiveVolumes, LiveVolume
    <2> QED
      BY <1>0, <1>2, <1>13, <2>2
  <1>14. ASSUME NEW r \in Requests, DeleteVolume(r) \/ RemoveProjectVolume(r) PROVE DiskInv'
    <2>1. CASE DeleteVolume(r)
      <3>1. PICK q : q = creq[r]
        OBVIOUS
      <3>2. creq' = [creq EXCEPT ![r] = Idle] /\ q.v \in VolumeIds /\ vol[q.v] # NoRow /\ DropVolume(q.v)
        BY <2>1, <3>1, DeleteVolumeIs
      <3> QED
        BY <1>13, <3>2
    <2>2. CASE RemoveProjectVolume(r)
      BY <1>13, <2>2, RemoveIs
    <2> QED
      BY <1>14, <2>1, <2>2
  <1>15. ASSUME NEW r \in Requests, ContainerStep(r) PROVE DiskInv'
    BY <1>5, <1>6, <1>8, <1>9, <1>10, <1>11, <1>12, <1>14, <1>15 DEF ContainerStep
  <1> QED
    BY <1>1, <1>15 DEF ContainersNext

LEMMA DiskFits == DiskInv => DiskTotal <= DiskLimit + (Cardinality(Requests) - 1) * Capacity
  <1> SUFFICES ASSUME DiskInv PROVE DiskTotal <= DiskLimit + (Cardinality(Requests) - 1) * Capacity
    OBVIOUS
  <1>1. PICK a, b, k :
          a = Cardinality(LiveVolumes) /\ b = Cardinality(Booked) /\ k = DiskLimit + (Cardinality(Requests) - 1) * Capacity
    OBVIOUS
  <1>2. a \in Nat /\ b \in Nat /\ k \in Int /\ DiskTotal = a * Capacity
    BY <1>1, DiskSets, ContainersAssumption
  <1>3. (a + b) * Capacity <= k
    BY <1>1 DEF DiskInv
  <1>4. a * Capacity <= (a + b) * Capacity /\ a * Capacity \in Int /\ (a + b) * Capacity \in Int
    BY <1>2, ContainersAssumption
  <1>5. a * Capacity <= k
    BY <1>2, <1>3, <1>4
  <1> QED
    BY <1>1, <1>2, <1>5

-----------------------------------------------------------------------------
(* The CPU of the project exceeds its limit by no more than one container for each request   *)
(* beyond the first.                                                                         *)

\* The largest limit of a container.
LEMMA Largest == LargestCpu \in Cpus /\ \A m \in Cpus : m <= LargestCpu
  <1> DEFINE P == {n \in Nat : \E m \in Cpus : n = W - m}
  <1>1. Cpus \subseteq 1 .. W - 1 /\ Cpus # {} /\ W \in Nat
    BY ContainersAssumption, SumsAssumption, TransactionsAssumption
  <1>2. P \subseteq Nat /\ P # {}
    <2>1. PICK m \in Cpus : TRUE
      BY <1>1
    <2>2. W - m \in Nat
      BY <1>1
    <2> QED
      BY <2>2
  <1>3. PICK n \in P : \A m \in P : ~ (<<m, n>> \in OpToRel(<, Nat))
    BY <1>2, NatLessThanWellFounded, WFMin
  <1>4. PICK m \in Cpus : n = W - m
    BY <1>3
  <1>5. \A k \in P : ~ (k < n)
    BY <1>2, <1>3 DEF OpToRel
  <1>6. \A k \in Cpus : W - k \in P
    BY <1>1
  <1>7. \A k \in Cpus : k <= m
    BY <1>1, <1>4, <1>5, <1>6
  <1> QED
    BY <1>7 DEF LargestCpu

\* The numbers that the sums are made of.
LEMMA Limits ==
  /\ LargestCpu \in Nat \ {0} /\ CpuLimit \in Nat /\ W \in Nat /\ Cardinality(Requests) \in Nat \ {0}
  /\ CpuLimit + Cardinality(Requests) * LargestCpu < W
  /\ CpuLimit + (Cardinality(Requests) - 1) * LargestCpu + LargestCpu < W
  /\ (Cardinality(Requests) - 1) * LargestCpu \in Nat
  <1>1. LargestCpu \in Nat \ {0} /\ CpuLimit \in Nat /\ W \in Nat /\ Cardinality(Requests) \in Nat \ {0}
    BY Largest, ContainersAssumption, TransactionsAssumption, DiskSets
  <1>2. CpuLimit + Cardinality(Requests) * LargestCpu < W
    BY Largest, SumsAssumption
  <1>3. PICK n, m : n = Cardinality(Requests) /\ m = LargestCpu
    OBVIOUS
  <1>4. (n - 1) * m = n * m - m /\ n * m \in Nat /\ (n - 1) * m \in Nat
    BY <1>1, <1>3
  <1> QED
    BY <1>1, <1>2, <1>3, <1>4

\* What a container counts for.
Share(c) == IF LiveContainer(c) THEN cont[c].cpu ELSE 0
Shares == [c \in ContainerIds |-> Share(c)]

LEMMA SharesOK == ContainerFormInv => Shares \in [ContainerIds -> Nat] /\ IsFiniteSet(ContainerIds)
  <1>1. IsFiniteSet(ContainerIds)
    BY ContainersAssumption, FS_Interval DEF ContainerIds
  <1>2. ASSUME ContainerFormInv, NEW c \in ContainerIds PROVE Share(c) \in Nat
    <2>1. CASE LiveContainer(c)
      <3>1. cont[c].cpu \in Cpus
        BY <1>2, <2>1 DEF ContainerFormInv, RowsOK, LiveContainer, ContainerRows
      <3>2. Cpus \subseteq Nat
        BY ContainersAssumption, TransactionsAssumption
      <3>3. Share(c) = cont[c].cpu
        BY <2>1 DEF Share
      <3> QED
        BY <3>1, <3>2, <3>3
    <2>2. CASE ~ LiveContainer(c)
      BY <2>2 DEF Share
    <2> QED
      BY <2>1, <2>2
  <1> QED
    BY <1>1, <1>2 DEF Shares

\* The sum of CPU, as CpuTotal folds it over the live containers, is the sum of the shares.
LEMMA CpuTotalIs == ContainerFormInv => CpuTotal = Total(Shares, ContainerIds) /\ CpuTotal \in Nat
  <1> SUFFICES ASSUME ContainerFormInv PROVE CpuTotal = Total(Shares, ContainerIds) /\ CpuTotal \in Nat
    OBVIOUS
  <1> DEFINE L == {c \in ContainerIds : LiveContainer(c)}
             w == [c \in L |-> cont[c].cpu]
             Folds(f) == f = [s \in SUBSET L |-> IF s = {} THEN 0
                                                 ELSE LET x == CHOOSE x \in s : TRUE IN cont[x].cpu + f[s \ {x}]]
             F == CHOOSE f : Folds(f)
  <1>1. L \in SUBSET ContainerIds /\ IsFiniteSet(L) /\ IsFiniteSet(ContainerIds) /\ Shares \in [ContainerIds -> Nat]
    BY SharesOK, FS_Subset
  <1>2. w \in [L -> Nat] /\ \A c \in L : w[c] = Shares[c]
    BY <1>1 DEF Shares, Share
  <1>3. \A f : IsSum(f, w, L) <=> Folds(f)
    <2> SUFFICES ASSUME NEW f
                 PROVE  \A s \in SUBSET L : s # {} => LET x == CHOOSE x \in s : TRUE IN
                          w[x] + f[s \ {x}] = cont[x].cpu + f[s \ {x}]
      BY DEF IsSum
    <2> QED
      OBVIOUS
  <1>4. PICK g : Folds(g)
    <2> HIDE DEF Folds, w, L
    <2> QED
      BY <1>1, <1>2, <1>3, SumExists
  <1>5. Folds(F)
    <2> HIDE DEF Folds
    <2> QED
      BY <1>4
  <1>6. CpuTotal = F[L]
    BY DEF CpuTotal, MapThenFoldSet
  <1>7. \A c \in ContainerIds \ L : Shares[c] = 0
    BY DEF Shares, Share
  <1>8. IsSum(F, w, L)
    <2> HIDE DEF Folds, F
    <2> QED
      BY <1>3, <1>5
  <1> HIDE DEF F, Folds, w, L
  <1>9. PICK h : IsSum(h, Shares, ContainerIds) /\ Total(Shares, ContainerIds) = h[ContainerIds] /\ h[ContainerIds] \in Nat
    BY <1>1, TotalIsFold
  <1>10. h[L] = h[ContainerIds]
    BY <1>1, <1>7, <1>9, SumOfHeavy
  <1>11. F[L] = h[L]
    BY <1>1, <1>2, <1>8, <1>9, SumUnique
  <1> QED
    BY <1>6, <1>9, <1>10, <1>11

\* The sum changes with the share of the container that changes.
LEMMA CpuTotalChanged ==
  ASSUME ContainerFormInv, ContainerFormInv', NEW c \in ContainerIds, \A d \in ContainerIds : d # c => Share(d)' = Share(d)
  PROVE  CpuTotal \in Nat /\ CpuTotal' \in Nat /\ CpuTotal' = CpuTotal - Share(c) + Share(c)'
  <1>1. PICK w, v : w = Shares /\ v = Shares'
    OBVIOUS
  <1>2. w \in [ContainerIds -> Nat] /\ v \in [ContainerIds -> Nat] /\ IsFiniteSet(ContainerIds)
    <2>1. ContainerFormInv' => (Shares \in [ContainerIds -> Nat])'
      BY SharesOK, PTL
    <2> QED
      BY <1>1, <2>1, SharesOK
  <1>3. \A d \in ContainerIds : w[d] = Share(d) /\ v[d] = Share(d)'
    BY <1>1 DEF Shares
  <1>4. CpuTotal = Total(w, ContainerIds) /\ CpuTotal \in Nat
    BY <1>1, CpuTotalIs
  <1>5. CpuTotal' = Total(v, ContainerIds) /\ CpuTotal' \in Nat
    <2>1. ContainerFormInv' => (CpuTotal = Total(Shares, ContainerIds) /\ CpuTotal \in Nat)'
      BY CpuTotalIs, PTL
    <2> QED
      BY <1>1, <2>1
  <1>6. Total(v, ContainerIds) = Total(w, ContainerIds) - w[c] + v[c]
    BY <1>2, <1>3, TotalChanged
  <1> QED
    BY <1>3, <1>4, <1>5, <1>6

LEMMA CpuTotalSame ==
  ASSUME ContainerFormInv, ContainerFormInv', \A d \in ContainerIds : Share(d)' = Share(d)
  PROVE  CpuTotal' = CpuTotal
  <1>1. PICK w, v : w = Shares /\ v = Shares'
    OBVIOUS
  <1>2. w = v
    BY <1>1 DEF Shares
  <1>3. CpuTotal = Total(w, ContainerIds)
    BY <1>1, CpuTotalIs
  <1>4. CpuTotal' = Total(v, ContainerIds)
    <2>1. ContainerFormInv' => (CpuTotal = Total(Shares, ContainerIds) /\ CpuTotal \in Nat)'
      BY CpuTotalIs, PTL
    <2> QED
      BY <1>1, <2>1
  <1> QED
    BY <1>2, <1>3, <1>4

\* What a request that has passed its check is about to add.
Raise(q) ==
  CASE q # Idle /\ q.op = "create" -> q.cpu
    [] q # Idle /\ q.op = "save" /\ q.cpu # Keep /\ q.cpu > cont[q.c].cpu -> q.cpu - cont[q.c].cpu
    [] OTHER -> 0
Raises == [r \in Requests |-> CHOOSE n : \A q \in {creq[r]} : n = Raise(q)]

\* A request whose check, made now, would count no other's share wrongly.
Fresh(q) ==
  /\ q.op = "create" => CpuTotal + q.cpu <= CpuLimit
  /\ q.op = "update" => q.seen.cpu = cont[q.c].cpu
  /\ q.op = "save" /\ q.cpu # Keep => CpuTotal - cont[q.c].cpu + q.cpu <= CpuLimit

\* Nothing is raised by more than the largest limit.
LEMMA RaiseBound ==
  ASSUME ContainerFormInv, NEW r \in Requests, NEW q, q = creq[r]
  PROVE  Raise(q) \in Nat /\ Raise(q) <= LargestCpu
  <1>1. LargestCpu \in Nat /\ Cpus \subseteq Nat \ {0} /\ \A m \in Cpus : m <= LargestCpu
    BY Largest, Limits, ContainersAssumption
  <1>2. CASE q # Idle /\ q.op = "create"
    <2>1. q.cpu \in Cpus
      BY <1>2, WorkOf DEF Form
    <2> QED
      BY <1>1, <1>2, <2>1 DEF Raise
  <1>3. CASE q # Idle /\ q.op = "save" /\ q.cpu # Keep /\ q.cpu > cont[q.c].cpu
    <2>1. q.cpu \in Cpus /\ q.c \in ContainerIds /\ cont[q.c] # NoRow
      BY <1>3, WorkOf DEF Form
    <2>2. cont[q.c].cpu \in Cpus
      BY <2>1 DEF ContainerFormInv, RowsOK, ContainerRows
    <2>3. Raise(q) = q.cpu - cont[q.c].cpu
      BY <1>3 DEF Raise
    <2>4. PICK m, k : m = q.cpu /\ k = cont[q.c].cpu
      OBVIOUS
    <2>5. m \in Nat /\ k \in Nat /\ m <= LargestCpu /\ m > k
      BY <1>1, <1>3, <2>1, <2>2, <2>4
    <2> QED
      BY <1>1, <2>3, <2>4, <2>5
  <1>4. CASE /\ ~ (q # Idle /\ q.op = "create")
             /\ ~ (q # Idle /\ q.op = "save" /\ q.cpu # Keep /\ q.cpu > cont[q.c].cpu)
    BY <1>1, <1>4 DEF Raise
  <1> QED
    BY <1>2, <1>3, <1>4

RaisesSound ==
  /\ Raises \in [Requests -> Nat]
  /\ \A r \in Requests : Raises[r] <= LargestCpu
  /\ \A r \in Requests : \A q \in {creq[r]} : Raises[r] = Raise(q)

LEMMA RaisesOK == ContainerFormInv => RaisesSound
  <1> SUFFICES ASSUME ContainerFormInv PROVE RaisesSound
    OBVIOUS
  <1>1. ASSUME NEW r \in Requests, NEW q, q = creq[r] PROVE Raises[r] = Raise(q)
    BY <1>1 DEF Raises
  <1>2. ASSUME NEW r \in Requests PROVE Raises[r] \in Nat /\ Raises[r] <= LargestCpu
    <2>1. PICK q : q = creq[r]
      OBVIOUS
    <2> QED
      BY <1>1, <2>1, RaiseBound
  <1>3. Raises = [r \in Requests |-> Raises[r]]
    BY DEF Raises
  <1> QED
    BY <1>1, <1>2, <1>3 DEF RaisesSound

\* Raises before and after a step of request r.
OthersSame(r) == \A s \in Requests \ {r} : \A p \in {creq[s]} : Raise(p)' = Raise(p)
Raised(r, q, D, E) ==
  /\ D = Raises /\ E = Raises' /\ Total(D, Requests) \in Nat /\ Total(E, Requests) \in Nat
  /\ \A s \in Requests : D[s] <= LargestCpu /\ E[s] <= LargestCpu
  /\ \A s \in Requests \ {r} : E[s] = D[s]
  /\ \A p \in {creq[r]} : D[r] = Raise(p)
  /\ E[r] = Raise(q)'
  /\ Total(E, Requests) = Total(D, Requests) - D[r] + E[r]

LEMMA RaisesStep ==
  ASSUME ContainerFormInv, ContainerFormInv', NEW r \in Requests, NEW q, creq' = [creq EXCEPT ![r] = q], OthersSame(r)
  PROVE  \E D, E \in [Requests -> Nat] : Raised(r, q, D, E)
  <1>1. creq'[r] = q /\ \A s \in Requests \ {r} : creq'[s] = creq[s]
    BY DEF ContainerFormInv
  <1>2. PICK D, E : D = Raises /\ E = Raises'
    OBVIOUS
  <1>3. D \in [Requests -> Nat] /\ \A s \in Requests : D[s] <= LargestCpu /\ \A p \in {creq[s]} : D[s] = Raise(p)
    BY <1>2, RaisesOK DEF RaisesSound
  <1>4. E \in [Requests -> Nat] /\ \A s \in Requests : E[s] <= LargestCpu /\ \A p \in {creq'[s]} : E[s] = Raise(p)'
    <2>1. ContainerFormInv' => RaisesSound'
      BY RaisesOK, PTL
    <2> QED
      BY <1>2, <2>1 DEF RaisesSound
  <1>5. ASSUME NEW s \in Requests \ {r} PROVE E[s] = D[s]
    <2>1. PICK p : p = creq[s] /\ p = creq'[s]
      BY <1>1
    <2> QED
      BY <1>3, <1>4, <2>1 DEF OthersSame
  <1>6. E[r] = Raise(q)'
    BY <1>1, <1>4
  <1>7. /\ Total(D, Requests) \in Nat
        /\ Total(E, Requests) = Total(D, Requests) - D[r] + E[r]
    BY <1>3, <1>4, <1>5, TransactionsAssumption, TotalChanged
  <1>8. Total(E, Requests) \in Nat
    BY <1>4, TransactionsAssumption, TotalIsFold
  <1> QED
    BY <1>2, <1>3, <1>4, <1>5, <1>6, <1>7, <1>8 DEF Raised

CpuBound == CpuTotal + Total(Raises, Requests) <= CpuLimit + (Cardinality(Requests) - 1) * LargestCpu
FreshInv == (\A r \in Requests : creq[r] # Idle) => \E r \in Requests : \A q \in {creq[r]} : Fresh(q)
CpuInv == CpuBound /\ FreshInv

LEMMA CpuTotalsAreNat ==
  ASSUME ContainerFormInv, ContainerFormInv'
  PROVE  CpuTotal \in Nat /\ CpuTotal' \in Nat
  <1>1. ContainerFormInv' => (CpuTotal = Total(Shares, ContainerIds) /\ CpuTotal \in Nat)'
    BY CpuTotalIs, PTL
  <1> QED
    BY <1>1, CpuTotalIs

\* A step that adds no more than it takes from what is to be raised.
LEMMA StepBound ==
  ASSUME ContainerFormInv, ContainerFormInv', CpuBound, NEW r \in Requests, NEW q, creq' = [creq EXCEPT ![r] = q],
         OthersSame(r),
         \A p \in {creq[r]} : CpuTotal' + Raise(q)' <= CpuTotal + Raise(p)
  PROVE  CpuBound'
  <1>1. PICK D, E \in [Requests -> Nat] : Raised(r, q, D, E)
    BY RaisesStep
  <1>2. CpuTotal \in Nat /\ CpuTotal' \in Nat
    BY CpuTotalsAreNat
  <1>3. PICK k : k = CpuLimit + (Cardinality(Requests) - 1) * LargestCpu /\ k \in Nat
    BY Limits
  <1>4. CpuTotal + Total(D, Requests) <= k
    BY <1>1, <1>3 DEF CpuBound, Raised
  <1>5. CpuTotal' + E[r] <= CpuTotal + D[r]
    BY <1>1 DEF Raised
  <1>6. D[r] \in Nat /\ E[r] \in Nat
    OBVIOUS
  <1>7. CpuTotal' + Total(E, Requests) <= k
    BY <1>1, <1>2, <1>3, <1>4, <1>5, <1>6 DEF Raised
  <1> QED
    BY <1>1, <1>3, <1>7 DEF CpuBound, Raised

\* A request that a step leaves idle or fresh is the one that is asked for.
LEMMA StepFresh ==
  ASSUME ContainerFormInv, NEW r \in Requests, NEW q, creq' = [creq EXCEPT ![r] = q], q = Idle \/ Fresh(q)'
  PROVE  FreshInv'
  <1>1. creq'[r] = q
    BY DEF ContainerFormInv
  <1> QED
    BY <1>1 DEF FreshInv

\* Division with remainder, for a divisor that is not fixed.
LEMMA Remainder ==
  ASSUME NEW a \in Nat, a < 2 * W, W \in Nat \ {0}
  PROVE  a % W = IF a < W THEN a ELSE a - W
  <1>1. a % W \in 0 .. W - 1 /\ a = W * (a \div W) + (a % W) /\ a \div W \in Int
    OBVIOUS
  <1>2. PICK k, m : k = a \div W /\ m = a % W
    OBVIOUS
  <1>3. k \in Int /\ m \in 0 .. W - 1 /\ a = W * k + m
    BY <1>1, <1>2
  <1>4. k >= 0
    <2>1. SUFFICES ASSUME k <= -1 PROVE FALSE
      BY <1>3
    <2>2. W * k <= -W
      BY <1>3, <2>1
    <2> QED
      BY <1>3, <2>2
  <1>5. k <= 1
    <2>1. SUFFICES ASSUME k >= 2 PROVE FALSE
      BY <1>3
    <2>2. W * k >= 2 * W
      BY <1>3, <2>1
    <2> QED
      BY <1>3, <2>2
  <1>6. CASE k = 0
    <2>1. W * k = 0
      BY <1>6
    <2> QED
      BY <1>2, <1>3, <2>1
  <1>7. CASE k = 1
    <2>1. W * k = W
      BY <1>7
    <2> QED
      BY <1>2, <1>3, <2>1
  <1> QED
    BY <1>3, <1>4, <1>5, <1>6, <1>7

\* The check is right modulo 2^32, because a sum that goes below zero is refused.
LEMMA CheckIs ==
  ASSUME NEW T \in Nat, NEW own \in Nat, NEW cpu \in Nat, own <= LargestCpu, cpu <= LargestCpu,
         T + LargestCpu < W, ValidateProjectResourceLimits(T, own, cpu)
  PROVE  T - own + cpu <= CpuLimit
  <1>1. /\ W \in Nat \ {0} /\ CpuLimit \in Nat /\ LargestCpu \in Nat
        /\ CpuLimit + LargestCpu < W
    BY Limits, TransactionsAssumption
  <1>2. PICK d : d = (T - own + W) % W
    OBVIOUS
  <1>3. (d + cpu) % W <= CpuLimit
    BY <1>2 DEF ValidateProjectResourceLimits
  <1>4. T - own + W \in Nat /\ T - own + W < 2 * W
    BY <1>1
  <1>5. d = IF T - own + W < W THEN T - own + W ELSE T - own
    <2>1. PICK e : e = T - own + W
      OBVIOUS
    <2>2. e \in Nat /\ e < 2 * W /\ d = e % W
      BY <1>2, <1>4, <2>1
    <2>3. d = IF e < W THEN e ELSE e - W
      BY <1>1, <2>2, Remainder
    <2> QED
      BY <1>1, <2>1, <2>3
  <1>6. d \in Nat /\ d < W
    BY <1>1, <1>4, <1>5
  <1>7. (d + cpu) % W = IF d + cpu < W THEN d + cpu ELSE d + cpu - W
    BY <1>1, <1>6, Remainder
  <1>8. CASE T >= own
    BY <1>1, <1>3, <1>5, <1>6, <1>7, <1>8
  <1>9. CASE T < own
    BY <1>1, <1>3, <1>5, <1>6, <1>7, <1>9
  <1> QED
    BY <1>8, <1>9

\* The sum is far from 2^32.
LEMMA CpuTotalBound ==
  ASSUME ContainerFormInv, CpuBound
  PROVE  /\ CpuTotal \in Nat /\ CpuTotal <= CpuLimit + (Cardinality(Requests) - 1) * LargestCpu
         /\ CpuTotal + LargestCpu < W
  <1>1. CpuTotal \in Nat
    BY CpuTotalIs
  <1>2. Total(Raises, Requests) \in Nat
    BY RaisesOK, TransactionsAssumption, TotalIsFold DEF RaisesSound
  <1>3. PICK k, t : k = (Cardinality(Requests) - 1) * LargestCpu /\ t = Total(Raises, Requests)
    OBVIOUS
  <1>4. CpuTotal + t <= CpuLimit + k /\ t \in Nat /\ k \in Nat
    BY <1>2, <1>3, Limits DEF CpuBound
  <1>5. CpuTotal <= CpuLimit + k
    BY <1>1, <1>4, Limits
  <1>6. CpuLimit + k + LargestCpu < W
    BY <1>3, Limits
  <1> QED
    BY <1>1, <1>3, <1>4, <1>5, <1>6, Limits

\* With room for one request, whatever the others raise fits the bound.
LEMMA RoomForOne ==
  ASSUME NEW E \in [Requests -> Nat], \A s \in Requests : E[s] <= LargestCpu,
         NEW T \in Nat, NEW z \in Requests, T + E[z] <= CpuLimit
  PROVE  T + Total(E, Requests) <= CpuLimit + (Cardinality(Requests) - 1) * LargestCpu
  <1>1. Total(E, Requests) <= E[z] + (Cardinality(Requests) - 1) * LargestCpu
    BY Limits, TransactionsAssumption, TotalWithout
  <1>2. Total(E, Requests) \in Nat
    BY TransactionsAssumption, TotalIsFold
  <1>3. PICK k, t, e : k = (Cardinality(Requests) - 1) * LargestCpu /\ t = Total(E, Requests) /\ e = E[z]
    OBVIOUS
  <1>4. k \in Nat /\ t \in Nat /\ e \in Nat /\ CpuLimit \in Nat
    BY <1>2, <1>3, Limits
  <1> QED
    BY <1>1, <1>3, <1>4

\* With one that raises nothing, the other may exceed the limit by one container.
LEMMA RoomForTwo ==
  ASSUME NEW E \in [Requests -> Nat], \A s \in Requests : E[s] <= LargestCpu,
         NEW T \in Nat, NEW z \in Requests, NEW y \in Requests, y # z, E[y] = 0,
         T + E[z] <= CpuLimit + LargestCpu
  PROVE  T + Total(E, Requests) <= CpuLimit + (Cardinality(Requests) - 1) * LargestCpu
  <1>1. Total(E, Requests) <= E[z] + E[y] + (Cardinality(Requests) - 2) * LargestCpu
    BY Limits, TransactionsAssumption, TotalWithoutTwo
  <1>2. Total(E, Requests) \in Nat
    BY TransactionsAssumption, TotalIsFold
  <1>3. PICK n, m, t, e : n = Cardinality(Requests) /\ m = LargestCpu /\ t = Total(E, Requests) /\ e = E[z]
    OBVIOUS
  <1>4. n \in Nat /\ m \in Nat /\ t \in Nat /\ e \in Nat /\ CpuLimit \in Nat
    BY <1>2, <1>3, Limits
  <1>5. (n - 1) * m = (n - 2) * m + m /\ (n - 2) * m \in Int
    BY <1>4
  <1>6. t <= e + (n - 2) * m
    BY <1>1, <1>3, <1>4, <1>5
  <1>7. T + t <= CpuLimit + (n - 1) * m
    BY <1>3, <1>4, <1>5, <1>6
  <1> QED
    BY <1>3, <1>7

\* Nothing but the rows of CONTAINERS tells the sum and what is to be raised.
LEMMA StepCpuRead ==
  ASSUME ContainerFormInv, ContainerFormInv', cont' = cont
  PROVE  CpuTotal' = CpuTotal /\ \A r \in Requests : OthersSame(r)
  <1>1. \A d \in ContainerIds : Share(d)' = Share(d)
    BY DEF Share, LiveContainer
  <1>2. \A q : Raise(q)' = Raise(q)
    BY DEF Raise
  <1> QED
    BY <1>1, <1>2, CpuTotalSame DEF OthersSame

LEMMA CreateCpu ==
  ASSUME ContainerFormInv, ContainerFormInv', CpuInv, NEW r \in Requests, CreateContainer(r)
  PROVE  CpuInv'
  <1>1. PICK cpu \in Cpus, withVolume \in BOOLEAN :
          /\ ValidateProjectResourceLimits(CpuTotal, 0, cpu)
          /\ creq' = [creq EXCEPT ![r] = [op |-> "create", cpu |-> cpu, withVolume |-> withVolume, total |-> DiskTotal]]
    BY DEF CreateContainer, Goes
  <1>2. PICK q : q = [op |-> "create", cpu |-> cpu, withVolume |-> withVolume, total |-> DiskTotal]
    OBVIOUS
  <1>3. q.op = "create" /\ q.cpu = cpu
    BY <1>2
  <1>4. cont' = cont
    BY DEF CreateContainer
  <1>5. CpuTotal' = CpuTotal /\ OthersSame(r)
    BY <1>4, StepCpuRead
  <1>6. PICK D, E \in [Requests -> Nat] : Raised(r, q, D, E)
    BY <1>1, <1>2, <1>5, RaisesStep
  <1>7. CpuTotal \in Nat /\ CpuTotal + LargestCpu < W
    BY CpuTotalBound DEF CpuInv
  <1>8. cpu \in Nat /\ cpu <= LargestCpu /\ LargestCpu \in Nat /\ CpuLimit \in Nat
    BY Largest, Limits, ContainersAssumption
  <1>9. CpuTotal + cpu <= CpuLimit
    <2>1. CpuTotal - 0 + cpu <= CpuLimit
      BY <1>1, <1>7, <1>8, CheckIs
    <2> QED
      BY <1>7, <1>8, <2>1
  <1>10. Raise(q)' \in {0, cpu}
    BY <1>3 DEF Raise
  <1>11. CpuTotal + E[r] <= CpuLimit
    BY <1>6, <1>7, <1>8, <1>9, <1>10 DEF Raised
  <1>12. CpuTotal + Total(E, Requests) <= CpuLimit + (Cardinality(Requests) - 1) * LargestCpu
    BY <1>6, <1>7, <1>11, RoomForOne DEF Raised
  <1>13. CpuBound'
    BY <1>5, <1>6, <1>12 DEF CpuBound, Raised
  <1>14. Fresh(q)'
    BY <1>3, <1>5, <1>9 DEF Fresh
  <1>15. FreshInv'
    BY <1>1, <1>2, <1>14, StepFresh
  <1> QED
    BY <1>13, <1>15 DEF CpuInv

\* The request that raises something and is fresh fits the limit.
LEMMA FreshFits ==
  ASSUME ContainerFormInv, NEW r \in Requests, NEW q, q = creq[r], q # Idle, Fresh(q), Raise(q) # 0
  PROVE  CpuTotal + Raise(q) <= CpuLimit
  <1>1. CASE q.op = "create"
    BY <1>1 DEF Raise, Fresh
  <1>2. CASE q.op # "create"
    <2>1. q.op = "save" /\ q.cpu # Keep /\ q.cpu > cont[q.c].cpu /\ Raise(q) = q.cpu - cont[q.c].cpu
      BY <1>2 DEF Raise
    <2>2. q.cpu \in Cpus /\ q.c \in ContainerIds /\ cont[q.c] # NoRow
      BY <2>1, WorkOf DEF Form
    <2>3. cont[q.c].cpu \in Cpus
      BY <2>2 DEF ContainerFormInv, RowsOK, ContainerRows
    <2>4. PICK m, k : m = q.cpu /\ k = cont[q.c].cpu /\ m \in Nat /\ k \in Nat
      <3>1. Cpus \subseteq Nat /\ Keep \notin Cpus
        BY ContainersAssumption, TransactionsAssumption
      <3>2. q.cpu \in Cpus
        BY <2>1, <2>2
      <3> QED
        BY <2>3, <3>1, <3>2
    <2>5. CpuTotal - k + m <= CpuLimit
      BY <2>1, <2>4 DEF Fresh
    <2>6. CpuTotal \in Nat /\ CpuLimit \in Nat
      BY CpuTotalIs, Limits
    <2> QED
      BY <2>1, <2>4, <2>5, <2>6
  <1> QED
    BY <1>1, <1>2

LEMMA LockCpu ==
  ASSUME ContainerFormInv, ContainerFormInv', CpuInv, NEW r \in Requests, LockContainer(r)
  PROVE  CpuInv'
  <1>1. PICK p : p = creq[r] /\ p # Idle /\ p.op = "update"
    BY DEF LockContainer
  <1>2. /\ p.c \in ContainerIds /\ cont[p.c] # NoRow /\ p.cpu \in Cpus \cup {Keep} /\ p.seen \in ContainerRows
        /\ p = [op |-> "update", c |-> p.c, cpu |-> p.cpu, seen |-> p.seen]
    BY <1>1, WorkOf DEF Form
  <1>3. /\ p.cpu # Keep => ValidateProjectResourceLimits(CpuTotal, p.seen.cpu, p.cpu)
        /\ creq' = [creq EXCEPT ![r] = [p EXCEPT !.op = "save"]] /\ cont' = cont
    BY <1>1 DEF LockContainer, Goes
  <1>4. PICK q : q = [p EXCEPT !.op = "save"]
    OBVIOUS
  <1>5. q.op = "save" /\ q.c = p.c /\ q.cpu = p.cpu /\ q.seen = p.seen
    BY <1>2, <1>4
  <1>6. creq' = [creq EXCEPT ![r] = q]
    BY <1>3, <1>4
  <1>7. CpuTotal' = CpuTotal /\ OthersSame(r)
    BY <1>3, StepCpuRead
  <1>8. PICK D, E \in [Requests -> Nat] : Raised(r, q, D, E)
    BY <1>6, <1>7, RaisesStep
  <1>9. CpuTotal \in Nat /\ CpuTotal + LargestCpu < W
    BY CpuTotalBound DEF CpuInv
  <1>10. LargestCpu \in Nat /\ CpuLimit \in Nat /\ Cpus \subseteq Nat
    BY Limits, ContainersAssumption, TransactionsAssumption
  <1>11. PICK k, own : k = cont[p.c].cpu /\ own = p.seen.cpu /\ k \in Nat /\ own \in Nat /\ own <= LargestCpu
    <2>1. cont[p.c].cpu \in Cpus /\ p.seen.cpu \in Cpus
      BY <1>2 DEF ContainerFormInv, RowsOK, ContainerRows
    <2> QED
      BY <1>10, <2>1, Largest
  <1>12. p.cpu # Keep => p.cpu \in Nat /\ CpuTotal - own + p.cpu <= CpuLimit
    <2>1. ASSUME p.cpu # Keep PROVE p.cpu \in Nat /\ CpuTotal - own + p.cpu <= CpuLimit
      <3>1. p.cpu \in Nat /\ p.cpu <= LargestCpu
        BY <1>2, <1>10, <2>1, Largest
      <3> QED
        BY <1>3, <1>9, <1>11, <2>1, <3>1, CheckIs
    <2> QED
      BY <2>1
  <1>13. ASSUME NEW z \in Requests, NEW o, o = creq[z], z # r, Fresh(o) PROVE o = creq'[z] /\ Fresh(o)'
    <2>1. creq'[z] = o
      BY <1>6, <1>13 DEF ContainerFormInv
    <2> QED
      BY <1>3, <1>7, <1>13, <2>1 DEF Fresh
  <1>14. Fresh(p) => Fresh(q)'
    BY <1>1, <1>3, <1>5, <1>7, <1>11, <1>12 DEF Fresh
  <1>15. FreshInv'
    <2>1. creq'[r] = q /\ \A s \in Requests \ {r} : creq'[s] = creq[s]
      BY <1>6 DEF ContainerFormInv
    <2>2. SUFFICES ASSUME \A s \in Requests : creq'[s] # Idle
                   PROVE  \E s \in Requests : \A o \in {creq'[s]} : Fresh(o)'
      BY DEF FreshInv
    <2>3. \A s \in Requests : creq[s] # Idle
      BY <1>1, <2>1, <2>2
    <2>4. PICK z \in Requests : \A o \in {creq[z]} : Fresh(o)
      BY <2>3 DEF CpuInv, FreshInv
    <2>5. CASE z = r
      BY <1>1, <1>14, <2>1, <2>4, <2>5
    <2>6. CASE z # r
      <3>1. PICK o : o = creq[z]
        OBVIOUS
      <3>2. o = creq'[z] /\ Fresh(o)'
        BY <1>13, <2>4, <2>6, <3>1
      <3> QED
        BY <3>2
    <2> QED
      BY <2>5, <2>6
  <1>16. CASE Raise(q)' = 0
    <2>1. \A o \in {creq[r]} : Raise(o) = 0
      BY <1>1 DEF Raise
    <2>2. \A o \in {creq[r]} : CpuTotal' + Raise(q)' <= CpuTotal + Raise(o)
      BY <1>7, <1>9, <1>16, <2>1
    <2>3. CpuBound
      BY DEF CpuInv
    <2>4. CpuBound'
      BY <1>6, <1>7, <2>2, <2>3, StepBound
    <2> QED
      BY <1>15, <2>4 DEF CpuInv
  <1>17. CASE Raise(q)' # 0
    <2>1. q # Idle /\ p.cpu # Keep /\ p.cpu > k /\ Raise(q)' = p.cpu - k
      BY <1>3, <1>5, <1>11, <1>17 DEF Raise
    <2>2. E[r] = p.cpu - k /\ E[r] \in Nat
      BY <1>8, <2>1 DEF Raised
    <2>3. CpuTotal - own + p.cpu <= CpuLimit /\ p.cpu \in Nat
      BY <1>12, <2>1
    <2>4. CpuTotal + E[r] <= CpuLimit + LargestCpu
      BY <1>9, <1>10, <1>11, <2>2, <2>3
    <2>5. CpuTotal + Total(E, Requests) <= CpuLimit + (Cardinality(Requests) - 1) * LargestCpu
      <3>1. CASE \E y \in Requests \ {r} : E[y] = 0
        BY <1>8, <1>9, <2>4, <3>1, RoomForTwo DEF Raised
      <3>2. CASE \A y \in Requests \ {r} : E[y] # 0
        <4>1. ASSUME NEW y \in Requests PROVE creq[y] # Idle
          <5>1. CASE y = r
            BY <1>1, <5>1
          <5>2. CASE y # r
            <6>1. PICK o : o = creq[y]
              OBVIOUS
            <6>2. D[y] # 0 /\ D[y] = Raise(o)
              BY <1>8, <3>2, <5>2, <6>1, RaisesOK DEF Raised, RaisesSound
            <6> QED
              BY <6>1, <6>2 DEF Raise
          <5> QED
            BY <5>1, <5>2
        <4>2. PICK z \in Requests : \A o \in {creq[z]} : Fresh(o)
          BY <4>1 DEF CpuInv, FreshInv
        <4>3. CpuTotal + E[z] <= CpuLimit
          <5>1. CASE z = r
            <6>1. own = k
              BY <1>1, <1>11, <4>2, <5>1 DEF Fresh
            <6> QED
              BY <1>9, <1>10, <1>11, <2>2, <2>3, <5>1, <6>1
          <5>2. CASE z # r
            <6>1. PICK o : o = creq[z]
              OBVIOUS
            <6>2. E[z] = Raise(o) /\ E[z] # 0
              BY <1>8, <3>2, <5>2, <6>1, RaisesOK DEF Raised, RaisesSound
            <6> QED
              BY <4>1, <4>2, <6>1, <6>2, FreshFits
          <5> QED
            BY <5>1, <5>2
        <4> QED
          BY <1>8, <1>9, <4>3, RoomForOne DEF Raised
      <3> QED
        BY <3>1, <3>2
    <2>6. CpuBound'
      BY <1>7, <1>8, <2>5 DEF CpuBound, Raised
    <2> QED
      BY <1>15, <2>6 DEF CpuInv
  <1> QED
    BY <1>16, <1>17

\* A step that leaves CPU limits and containers alone, and no new request to count.
CpuKept ==
  \A c \in ContainerIds :
    /\ cont[c] = NoRow => cont'[c] = NoRow
    /\ cont[c] # NoRow => cont'[c] # NoRow /\ cont'[c].cpu = cont[c].cpu /\ cont'[c].live = cont[c].live

LEMMA KeptSame ==
  ASSUME ContainerFormInv, ContainerFormInv', CpuKept
  PROVE  CpuTotal' = CpuTotal /\ \A r \in Requests : OthersSame(r)
  <1>1. \A d \in ContainerIds : Share(d)' = Share(d)
    BY DEF Share, LiveContainer, CpuKept
  <1>2. ASSUME NEW s \in Requests, NEW p, p = creq[s] PROVE Raise(p)' = Raise(p)
    <2>1. CASE p # Idle /\ p.op = "save"
      <3>1. p.c \in ContainerIds /\ cont[p.c] # NoRow
        BY <1>2, <2>1, WorkOf DEF Form
      <3>2. cont'[p.c].cpu = cont[p.c].cpu
        BY <3>1 DEF CpuKept
      <3> QED
        BY <2>1, <3>2 DEF Raise
    <2>2. CASE ~ (p # Idle /\ p.op = "save")
      BY <2>2 DEF Raise
    <2> QED
      BY <2>1, <2>2
  <1> QED
    BY <1>1, <1>2, CpuTotalSame DEF OthersSame

\* A step that adds nothing, and after which its request has nothing to add.
LEMMA StepCpu ==
  ASSUME ContainerFormInv, ContainerFormInv', CpuInv, NEW r \in Requests, NEW q, creq' = [creq EXCEPT ![r] = q],
         OthersSame(r), q = Idle \/ Fresh(q)', q = Idle \/ q.op \notin {"create", "save"},
         \A p \in {creq[r]} : CpuTotal' <= CpuTotal + Raise(p)
  PROVE  CpuInv'
  <1>1. Raise(q)' = 0
    BY DEF Raise
  <1>2. CpuTotal' \in Nat
    BY CpuTotalsAreNat
  <1>3. \A p \in {creq[r]} : CpuTotal' + Raise(q)' <= CpuTotal + Raise(p)
    BY <1>1, <1>2
  <1>4. CpuBound
    BY DEF CpuInv
  <1>5. CpuBound'
    BY <1>3, <1>4, StepBound
  <1>6. FreshInv'
    BY StepFresh
  <1> QED
    BY <1>5, <1>6 DEF CpuInv

LEMMA StepCpuKept ==
  ASSUME ContainerFormInv, ContainerFormInv', CpuInv, CpuKept, NEW r \in Requests, NEW q, creq' = [creq EXCEPT ![r] = q],
         q = Idle \/ q.op \notin {"create", "update", "save"}
  PROVE  CpuInv'
  <1>1. CpuTotal' = CpuTotal /\ OthersSame(r)
    BY KeptSame
  <1>2. q = Idle \/ Fresh(q)'
    BY DEF Fresh
  <1>3. CpuTotal \in Nat
    BY CpuTotalsAreNat
  <1>4. \A p \in {creq[r]} : Raise(p) \in Nat
    BY RaiseBound
  <1>5. \A p \in {creq[r]} : CpuTotal' <= CpuTotal + Raise(p)
    BY <1>1, <1>3, <1>4
  <1> QED
    BY <1>1, <1>2, <1>5, StepCpu

\* A row that nobody else is about to save.
LEMMA OthersKeep ==
  ASSUME ContainerFormInv, NEW r \in Requests, NEW c \in ContainerIds, NEW row, cont' = [cont EXCEPT ![c] = row],
         cont[c] = NoRow \/ contLock[c] \in {Idle, r}
  PROVE  /\ OthersSame(r)
         /\ \A d \in ContainerIds : d # c => Share(d)' = Share(d)
  <1>1. \A d \in ContainerIds : d # c => cont'[d] = cont[d]
    BY DEF ContainerFormInv, RowsOK
  <1>2. ASSUME NEW s \in Requests \ {r}, NEW p, p = creq[s] PROVE Raise(p)' = Raise(p)
    <2>1. CASE p # Idle /\ p.op = "save"
      <3>1. p.c \in ContainerIds /\ cont[p.c] # NoRow /\ contLock[p.c] = s
        BY <1>2, <2>1, WorkOf DEF Form
      <3>2. s \notin {Idle, r}
        BY TransactionsAssumption
      <3>3. cont'[p.c] = cont[p.c]
        BY <1>1, <3>1, <3>2
      <3> QED
        BY <2>1, <3>3 DEF Raise
    <2>2. CASE ~ (p # Idle /\ p.op = "save")
      BY <2>2 DEF Raise
    <2> QED
      BY <2>1, <2>2
  <1>3. OthersSame(r)
    BY <1>2 DEF OthersSame
  <1> QED
    BY <1>1, <1>3 DEF Share, LiveContainer

\* An update has just read the row; the others that read have nothing to add.
LEMMA ReadersCpu ==
  ASSUME ContainerFormInv, ContainerFormInv', CpuInv, NEW r \in Requests,
         \/ UpdateContainer(r) \/ DeleteContainer(r) \/ AddContainerVolume(r) \/ CreateVolume(r)
         \/ AddMount(r) \/ MountFails(r) \/ DeleteMount(r) \/ AbortTransaction(r)
  PROVE  CpuInv'
  <1>1. ASSUME cont' = cont PROVE CpuKept
    BY <1>1 DEF CpuKept
  <1>2. CASE UpdateContainer(r)
    <2>1. PICK c \in ContainerIds, cpu \in Cpus \cup {Keep} :
            /\ creq' = [creq EXCEPT ![r] = [op |-> "update", c |-> c, cpu |-> cpu, seen |-> cont[c]]]
            /\ cont' = cont
      BY <1>2 DEF UpdateContainer, Goes
    <2>2. PICK q : q = [op |-> "update", c |-> c, cpu |-> cpu, seen |-> cont[c]]
      OBVIOUS
    <2>3. q.op = "update" /\ q.c = c /\ q.seen = cont[c]
      BY <2>2
    <2>4. Fresh(q)'
      BY <2>1, <2>3 DEF Fresh
    <2>5. CpuTotal' = CpuTotal /\ OthersSame(r)
      BY <2>1, StepCpuRead
    <2>6. CpuTotal \in Nat /\ \A p \in {creq[r]} : Raise(p) \in Nat
      BY CpuTotalsAreNat, RaiseBound
    <2>7. \A p \in {creq[r]} : CpuTotal' <= CpuTotal + Raise(p)
      BY <2>5, <2>6
    <2>8. creq' = [creq EXCEPT ![r] = q] /\ q.op \notin {"create", "save"}
      BY <2>1, <2>2, <2>3
    <2> QED
      BY <2>4, <2>5, <2>7, <2>8, StepCpu
  <1>3. CASE DeleteContainer(r)
    <2>1. PICK c \in ContainerIds : cont' = cont /\ creq' = [creq EXCEPT ![r] =
            [op |-> "delete", c |-> c, mounts |-> cont[c].mounts]]
      BY <1>3 DEF DeleteContainer, Goes
    <2>2. PICK q : q = [op |-> "delete", c |-> c, mounts |-> cont[c].mounts]
      OBVIOUS
    <2>3. creq' = [creq EXCEPT ![r] = q] /\ q.op \notin {"create", "update", "save"}
      BY <2>1, <2>2
    <2> QED
      BY <1>1, <2>1, <2>3, StepCpuKept
  <1>4. CASE AddContainerVolume(r)
    <2>1. PICK c \in ContainerIds : cont' = cont /\ creq' = [creq EXCEPT ![r] =
            [op |-> "create volume", c |-> c, total |-> DiskTotal]]
      BY <1>4 DEF AddContainerVolume, Goes
    <2>2. PICK q : q = [op |-> "create volume", c |-> c, total |-> DiskTotal]
      OBVIOUS
    <2>3. creq' = [creq EXCEPT ![r] = q] /\ q.op \notin {"create", "update", "save"}
      BY <2>1, <2>2
    <2> QED
      BY <1>1, <2>1, <2>3, StepCpuKept
  <1>5. CASE CreateVolume(r)
    <2>1. PICK c, v : cont' = cont /\ creq' = [creq EXCEPT ![r] =
            [op |-> "mount", c |-> c, v |-> v]]
      BY <1>5 DEF CreateVolume, Goes
    <2>2. PICK q : q = [op |-> "mount", c |-> c, v |-> v]
      OBVIOUS
    <2>3. creq' = [creq EXCEPT ![r] = q] /\ q.op \notin {"create", "update", "save"}
      BY <2>1, <2>2
    <2> QED
      BY <1>1, <2>1, <2>3, StepCpuKept
  <1>6. CASE AddMount(r)
    <2>1. cont' = cont /\ creq' = [creq EXCEPT ![r] =
            IF LiveContainer(creq[r].c)
            THEN [op |-> "save mount", c |-> creq[r].c, v |-> creq[r].v, mounts |-> cont[creq[r].c].mounts]
            ELSE [op |-> "compensate", c |-> creq[r].c, v |-> creq[r].v]]
      BY <1>6 DEF AddMount, Goes
    <2>2. PICK q : q = IF LiveContainer(creq[r].c)
            THEN [op |-> "save mount", c |-> creq[r].c, v |-> creq[r].v, mounts |-> cont[creq[r].c].mounts]
            ELSE [op |-> "compensate", c |-> creq[r].c, v |-> creq[r].v]
      OBVIOUS
    <2>3. creq' = [creq EXCEPT ![r] = q] /\ q.op \notin {"create", "update", "save"}
      BY <2>1, <2>2
    <2> QED
      BY <1>1, <2>1, <2>3, StepCpuKept
  <1>7. CASE MountFails(r)
    <2>1. cont' = cont /\ creq' = [creq EXCEPT ![r] =
            [op |-> "compensate", c |-> creq[r].c, v |-> creq[r].v]]
      BY <1>7 DEF MountFails, Goes
    <2>2. PICK q : q = [op |-> "compensate", c |-> creq[r].c, v |-> creq[r].v]
      OBVIOUS
    <2>3. creq' = [creq EXCEPT ![r] = q] /\ q.op \notin {"create", "update", "save"}
      BY <2>1, <2>2
    <2> QED
      BY <1>1, <2>1, <2>3, StepCpuKept
  <1>8. CASE DeleteMount(r)
    <2>1. PICK c, v : cont' = cont /\ creq' = [creq EXCEPT ![r] =
            [op |-> "save unmount", c |-> c, v |-> v, mounts |-> cont[c].mounts \ {v}]]
      BY <1>8 DEF DeleteMount, Goes
    <2>2. PICK q : q = [op |-> "save unmount", c |-> c, v |-> v, mounts |-> cont[c].mounts \ {v}]
      OBVIOUS
    <2>3. creq' = [creq EXCEPT ![r] = q] /\ q.op \notin {"create", "update", "save"}
      BY <2>1, <2>2
    <2> QED
      BY <1>1, <2>1, <2>3, StepCpuKept
  <1>9. CASE AbortTransaction(r)
    <2>1. cont' = cont /\ creq' = [creq EXCEPT ![r] = Idle]
      BY <1>9 DEF AbortTransaction, Idles
    <2> QED
      BY <1>1, <2>1, StepCpuKept
  <1> QED
    BY <1>2, <1>3, <1>4, <1>5, <1>6, <1>7, <1>8, <1>9

\* The container's share is what the request was about to add.
LEMMA CommitContainerCpu ==
  ASSUME ContainerFormInv, ContainerFormInv', CpuInv, NEW r \in Requests, CommitContainer(r)
  PROVE  CpuInv'
  <1>1. PICK p : p = creq[r] /\ p # Idle /\ p.op = "create"
    BY DEF CommitContainer
  <1>2. PICK c \in ContainerIds, row \in ContainerRows :
          cont[c] = NoRow /\ cont' = [cont EXCEPT ![c] = row] /\ row.cpu = p.cpu /\ row.live = TRUE
    BY <1>1, CommitContainerIs
  <1>3. OthersSame(r) /\ \A d \in ContainerIds : d # c => Share(d)' = Share(d)
    BY <1>2, OthersKeep
  <1>4. CpuTotal' = CpuTotal - Share(c) + Share(c)' /\ CpuTotal \in Nat
    BY <1>3, CpuTotalChanged
  <1>5. Share(c) = 0
    BY <1>2 DEF Share, LiveContainer
  <1>6. Share(c)' = p.cpu
    <2>1. cont'[c] = row
      BY <1>2 DEF ContainerFormInv, RowsOK
    <2>2. row # NoRow
      BY NoContainerAssumption
    <2> QED
      BY <1>2, <2>1, <2>2 DEF Share, LiveContainer
  <1>7. Raise(p) = p.cpu /\ Raise(p) \in Nat
    <2>1. Raise(p) = p.cpu
      BY <1>1 DEF Raise
    <2> QED
      BY <1>1, <2>1, RaiseBound
  <1>8. \A o \in {creq[r]} : CpuTotal' <= CpuTotal + Raise(o)
    BY <1>1, <1>4, <1>5, <1>6, <1>7
  <1>9. creq' = [creq EXCEPT ![r] = Idle]
    BY DEF CommitContainer, Idles
  <1> QED
    BY <1>3, <1>8, <1>9, StepCpu

\* The row becomes what its lock kept for this request.
LEMMA SaveContainerCpu ==
  ASSUME ContainerFormInv, ContainerFormInv', CpuInv, NEW r \in Requests, SaveContainer(r)
  PROVE  CpuInv'
  <1>1. PICK p : p = creq[r] /\ p # Idle /\ p.op = "save"
    BY DEF SaveContainer
  <1>2. p.c \in ContainerIds /\ cont[p.c] \in ContainerRows /\ cont[p.c].live = TRUE /\ contLock[p.c] = r
    BY <1>1, SaveContainerIs
  <1>3. PICK row \in ContainerRows : Saved(p, row)
    BY <1>1, SaveContainerIs
  <1>4. OthersSame(r) /\ \A d \in ContainerIds : d # p.c => Share(d)' = Share(d)
    <2>1. cont' = [cont EXCEPT ![p.c] = row]
      BY <1>3 DEF Saved
    <2> QED
      BY <1>2, <2>1, OthersKeep
  <1>5. CpuTotal' = CpuTotal - Share(p.c) + Share(p.c)' /\ CpuTotal \in Nat
    BY <1>2, <1>4, CpuTotalChanged
  <1>6. cont[p.c] # NoRow /\ cont'[p.c] = row /\ row # NoRow
    BY <1>2, <1>3, NoContainerAssumption DEF ContainerFormInv, RowsOK, Saved
  <1>7. Share(p.c) = cont[p.c].cpu /\ Share(p.c)' = row.cpu
    BY <1>2, <1>3, <1>6 DEF Share, LiveContainer, Saved
  <1>8. cont[p.c].cpu \in Nat /\ row.cpu \in Nat
    <2>1. Cpus \subseteq Nat
      BY ContainersAssumption, TransactionsAssumption
    <2>2. cont[p.c].cpu \in Cpus /\ row.cpu \in Cpus
      BY <1>2 DEF ContainerRows
    <2> QED
      BY <2>1, <2>2
  <1>9. Raise(p) \in Nat
    BY <1>1, RaiseBound
  <1>10. row.cpu <= cont[p.c].cpu + Raise(p)
    <2>1. row.cpu = IF p.cpu = Keep THEN cont[p.c].cpu ELSE p.cpu
      BY <1>3 DEF Saved
    <2>2. CASE p.cpu = Keep
      BY <1>8, <1>9, <2>1, <2>2
    <2>3. CASE p.cpu # Keep /\ p.cpu > cont[p.c].cpu
      <3>1. Raise(p) = p.cpu - cont[p.c].cpu
        BY <1>1, <2>3 DEF Raise
      <3> QED
        BY <1>8, <2>1, <2>3, <3>1
    <2>4. CASE p.cpu # Keep /\ ~ (p.cpu > cont[p.c].cpu)
      <3>1. row.cpu = p.cpu
        BY <2>1, <2>4
      <3> QED
        BY <1>8, <1>9, <2>4, <3>1
    <2> QED
      BY <2>2, <2>3, <2>4
  <1>11. \A o \in {creq[r]} : CpuTotal' <= CpuTotal + Raise(o)
    BY <1>1, <1>5, <1>7, <1>8, <1>9, <1>10
  <1>12. creq' = [creq EXCEPT ![r] = Idle]
    BY DEF SaveContainer, Idles
  <1> QED
    BY <1>4, <1>11, <1>12, StepCpu

\* The share of a deleted container is given back.
LEMMA CommitContainerDeleteCpu ==
  ASSUME ContainerFormInv, ContainerFormInv', CpuInv, NEW r \in Requests, CommitContainerDelete(r)
  PROVE  CpuInv'
  <1>1. PICK p : p = creq[r]
    OBVIOUS
  <1>2. p.c \in ContainerIds /\ contLock[p.c] = Idle
    BY <1>1, CommitContainerDeleteIs
  <1>3. PICK row \in ContainerRows : Deleted(p, row)
    BY <1>1, CommitContainerDeleteIs
  <1>4. cont' = [cont EXCEPT ![p.c] = row] /\ row.live = FALSE
    BY <1>3 DEF Deleted
  <1>5. OthersSame(r) /\ \A d \in ContainerIds : d # p.c => Share(d)' = Share(d)
    BY <1>2, <1>4, OthersKeep
  <1>6. CpuTotal' = CpuTotal - Share(p.c) + Share(p.c)' /\ CpuTotal \in Nat
    BY <1>2, <1>5, CpuTotalChanged
  <1>7. Share(p.c)' = 0
    <2>1. cont'[p.c] = row
      BY <1>2, <1>4 DEF ContainerFormInv, RowsOK
    <2> QED
      BY <1>4, <2>1 DEF Share, LiveContainer
  <1>8. Share(p.c) \in Nat
    BY <1>2, SharesOK DEF Shares
  <1>9. Raise(p) \in Nat
    BY <1>1, RaiseBound
  <1>10. \A o \in {creq[r]} : CpuTotal' <= CpuTotal + Raise(o)
    BY <1>1, <1>6, <1>7, <1>8, <1>9
  <1>11. creq' = [creq EXCEPT ![r] = Idle]
    BY DEF CommitContainerDelete, Idles
  <1> QED
    BY <1>5, <1>10, <1>11, StepCpu

\* Mounts and volumes change, and no container.
LEMMA MountersCpu ==
  ASSUME ContainerFormInv, ContainerFormInv', CpuInv, NEW r \in Requests,
         SaveMount(r) \/ SaveUnmount(r) \/ DeleteVolume(r) \/ RemoveProjectVolume(r)
  PROVE  CpuInv'
  <1>1. PICK p : p = creq[r]
    OBVIOUS
  <1>2. ASSUME NEW c \in ContainerIds, NEW row \in ContainerRows, cont[c] \in ContainerRows,
               cont' = [cont EXCEPT ![c] = row], row.cpu = cont[c].cpu, row.live = cont[c].live
        PROVE  CpuKept
    <2>1. cont'[c] = row /\ \A d \in ContainerIds \ {c} : cont'[d] = cont[d]
      BY <1>2 DEF ContainerFormInv, RowsOK
    <2>2. row # NoRow /\ cont[c] # NoRow
      BY <1>2, NoContainerAssumption
    <2> QED
      BY <1>2, <2>1, <2>2 DEF CpuKept
  <1>3. CASE SaveMount(r)
    <2>1. CpuKept
      BY <1>1, <1>2, <1>3, SaveMountIs
    <2>2. creq' = [creq EXCEPT ![r] = Idle]
      BY <1>3 DEF SaveMount, Idles
    <2> QED
      BY <2>1, <2>2, StepCpuKept
  <1>4. CASE SaveUnmount(r)
    <2>1. CpuKept
      BY <1>1, <1>2, <1>4, SaveUnmountIs
    <2>2. creq' = [creq EXCEPT ![r] = [op |-> "compensate", c |-> p.c, v |-> p.v]]
      BY <1>1, <1>4 DEF SaveUnmount, Goes
    <2>3. PICK q : q = [op |-> "compensate", c |-> p.c, v |-> p.v]
      OBVIOUS
    <2>4. creq' = [creq EXCEPT ![r] = q] /\ q.op \notin {"create", "update", "save"}
      BY <2>2, <2>3
    <2> QED
      BY <2>1, <2>4, StepCpuKept
  <1>5. ASSUME NEW v \in VolumeIds, vol[v] # NoRow, DropVolume(v) PROVE CpuKept
    BY <1>5, DropVolumeIs DEF CpuKept
  <1>6. CASE DeleteVolume(r)
    <2>1. creq' = [creq EXCEPT ![r] = Idle] /\ p.v \in VolumeIds /\ vol[p.v] # NoRow /\ DropVolume(p.v)
      BY <1>1, <1>6, DeleteVolumeIs
    <2> QED
      BY <1>5, <2>1, StepCpuKept
  <1>7. CASE RemoveProjectVolume(r)
    <2>1. creq' = [creq EXCEPT ![r] = Idle] /\ \E v \in VolumeIds : vol[v] # NoRow /\ DropVolume(v)
      BY <1>7, RemoveIs
    <2> QED
      BY <1>5, <2>1, StepCpuKept
  <1> QED
    BY <1>3, <1>4, <1>6, <1>7

LEMMA CpuStep == ContainerFormInv /\ CpuInv /\ [ContainersNext]_cvars => CpuInv'
  <1> SUFFICES ASSUME ContainerFormInv, CpuInv, [ContainersNext]_cvars PROVE CpuInv'
    OBVIOUS
  <1>1. ContainerFormInv'
    BY ContainerFormStep
  <1>2. CASE UNCHANGED cvars
    <2>1. CpuTotal' = CpuTotal /\ Raises' = Raises
      <3>1. CpuTotal' = CpuTotal
        BY <1>1, <1>2, StepCpuRead DEF cvars
      <3>2. Raises' = Raises
        BY <1>2 DEF cvars, Raises, Raise
      <3> QED
        BY <3>1, <3>2
    <2>2. CpuBound'
      BY <2>1 DEF CpuInv, CpuBound
    <2>3. FreshInv'
      BY <1>2, <2>1 DEF cvars, CpuInv, FreshInv, Fresh
    <2> QED
      BY <2>2, <2>3 DEF CpuInv
  <1>3. ASSUME NEW r \in Requests, ContainerStep(r) PROVE CpuInv'
    BY <1>1, <1>3, CreateCpu, LockCpu, ReadersCpu, CommitContainerCpu, SaveContainerCpu, CommitContainerDeleteCpu,
       MountersCpu DEF ContainerStep
  <1> QED
    BY <1>2, <1>3 DEF ContainersNext

LEMMA InitCpu == ContainersInit => CpuInv
  <1> SUFFICES ASSUME ContainersInit PROVE CpuInv
    OBVIOUS
  <1>1. ContainerFormInv
    BY InitContainerForm
  <1>2. ASSUME NEW S, IsFiniteSet(S), NEW w \in [S -> Nat], \A x \in S : w[x] = 0 PROVE Total(w, S) = 0
    <2>1. PICK f : IsSum(f, w, S) /\ Total(w, S) = f[S] /\ f[S] \in Nat
      BY <1>2, TotalIsFold
    <2>2. {} \in SUBSET S /\ \A x \in S \ {} : w[x] = 0
      BY <1>2
    <2>3. f[{}] = f[S]
      BY <1>2, <2>1, <2>2, SumOfHeavy
    <2>4. f[{}] = 0
      BY <1>2, <2>1, SumStep
    <2> QED
      BY <2>1, <2>3, <2>4
  <1>3. CpuTotal = 0
    <2>1. \A c \in ContainerIds : Shares[c] = 0
      BY DEF ContainersInit, Shares, Share, LiveContainer
    <2>2. Total(Shares, ContainerIds) = 0
      BY <1>1, <1>2, <2>1, SharesOK
    <2> QED
      BY <1>1, <2>2, CpuTotalIs
  <1>4. Total(Raises, Requests) = 0
    <2>1. Raises \in [Requests -> Nat] /\ \A r \in Requests : \A q \in {creq[r]} : Raises[r] = Raise(q)
      BY <1>1, RaisesOK DEF RaisesSound
    <2>2. \A r \in Requests : Raises[r] = 0
      BY <2>1 DEF ContainersInit, Raise
    <2> QED
      BY <1>2, <2>1, <2>2, TransactionsAssumption
  <1>5. CpuBound
    BY <1>3, <1>4, Limits DEF CpuBound
  <1>6. FreshInv
    <2>1. \A r \in Requests : creq[r] = Idle
      BY DEF ContainersInit
    <2>2. Requests # {}
      BY Limits, FS_EmptySet
    <2> QED
      BY <2>1, <2>2 DEF FreshInv
  <1> QED
    BY <1>5, <1>6 DEF CpuInv

\* The checks of ValidateProjectResourceLimits and CreateVolume, made without a lock that lasts and
\* with a share that may be out of date, let a project exceed each limit by no more than one
\* container or volume for every request beyond the first.
THEOREM ResourceOvershootHolds == ContainersSpec => []ResourceOvershoot
  <1>1. ContainersInit => ContainerFormInv /\ DiskInv /\ CpuInv
    BY InitContainerForm, InitDisk, InitCpu
  <1>2. ContainerFormInv /\ DiskInv /\ CpuInv /\ [ContainersNext]_cvars => (ContainerFormInv /\ DiskInv /\ CpuInv)'
    BY ContainerFormStep, DiskStep, CpuStep
  <1>3. ContainerFormInv /\ DiskInv /\ CpuInv => ResourceOvershoot
    BY CpuTotalBound, DiskFits DEF CpuInv, ResourceOvershoot
  <1> QED
    BY <1>1, <1>2, <1>3, PTL DEF ContainersSpec

-----------------------------------------------------------------------------
(* The three together. *)

\* A step of MCServices is a step of each of the three, or leaves it as it is.
LEMMA StepOfEach ==
  [MCNext]_allvars => [Next]_pvars /\ [NetworksNext]_nvars /\ [ContainersNext]_cvars
  BY DEF MCNext, allvars

\* Every side of MCServices is a behaviour of the three services.
THEOREM ServicesRun == MCSpec => Spec /\ NetworksSpec /\ ContainersSpec
  <1>1. MCInit => Init /\ NetworksInit /\ ContainersInit
    BY DEF MCInit
  <1> QED
    BY <1>1, StepOfEach, PTL DEF MCSpec, Spec, NetworksSpec, ContainersSpec

\* Rows of the three services keep their shape, and locks have their holders, whichever
\* requests run side by side.
THEOREM ServicesTypeCorrect == MCSpec => []ServicesTypeOK
  BY ServicesRun, ProjectsTypeCorrect, NetworksTypeCorrect, ContainersTypeCorrect, PTL DEF ServicesTypeOK

=============================================================================
