------------------------------- MODULE Containers -------------------------------
(***************************************************************************)
(* The containers of one project, their CPU and their volumes, when        *)
(* requests interleave.  Creating, updating and deleting a container are   *)
(* transactions that read from the snapshot of their permission check;     *)
(* the sum of the CPU is read outside of them.  POST and DELETE of a       *)
(* container's volume are several transactions, one after the other, with  *)
(* a compensation when the second one fails.  Memory is treated as CPU is. *)
(***************************************************************************)
EXTENDS Transactions, Folds

CONSTANTS
  MaxContainers, MaxVolumes,   \* bounds: rows of CONTAINERS and VOLUMES
  Cpus,                        \* CPU limits that NewResourceLimits accepts
  CpuLimit, DiskLimit,         \* the limits of the project
  Capacity                     \* of every volume

\* What the constants are.
ASSUME ContainersAssumption ==
  /\ MaxContainers \in Nat /\ MaxVolumes \in Nat
  /\ Cpus \subseteq 1 .. W - 1 /\ CpuLimit \in 0 .. W - 1 /\ DiskLimit \in 0 .. W - 1
  /\ Capacity \in 1 .. W - 1 /\ Keep \notin Cpus

\* Limits are thousands of units (MaxCPULimit, MaxMemoryLimit, MaxDiskLimit) and 2^32 is far
\* away: no sum wraps with one more container or volume for every request.
ASSUME SumsAssumption ==
  /\ Cpus # {} /\ \A m \in Cpus : CpuLimit + Cardinality(Requests) * m < W
  /\ DiskLimit + Cardinality(Requests) * Capacity < W

\* Ids are given in the order of the inserts.
ContainerIds == 1 .. MaxContainers
VolumeIds == 1 .. MaxVolumes

VARIABLES
  cont,        \* cont[c]: the row of CONTAINERS with its rows of MOUNTS, or NoRow
  vol,         \* vol[v]: the row of VOLUMES with the container it was created for, or NoRow
  contLock,    \* contLock[c]: the request that holds the row of container c
  creq,        \* creq[r]: what request r is about to do, or Idle
  collided,    \* containers that two requests edited at the same time
  failed       \* containers of which a request stopped between two of its transactions

cvars == <<cont, vol, contLock, creq, collided, failed>>

ContainerRows == [cpu : Cpus, live : BOOLEAN, mounts : SUBSET VolumeIds]
VolumeRows == [for : ContainerIds, live : BOOLEAN]

\* NULL is not a row.
ASSUME NoContainerAssumption == NoRow \notin ContainerRows \cup VolumeRows

\* Who is idle does not save, mount or delete.
ASSUME IdleAssumption ==
  /\ Idle \notin [op : {"save"}, c : ContainerIds, cpu : Cpus \cup {Keep}, seen : ContainerRows]
  /\ Idle \notin [op : {"mount", "compensate"}, c : ContainerIds, v : VolumeIds]
  /\ Idle \notin [op : {"save mount"}, c : ContainerIds, v : VolumeIds, mounts : SUBSET VolumeIds]

-----------------------------------------------------------------------------
LiveContainer(c) == cont[c] # NoRow /\ cont[c].live
LiveVolume(v) == vol[v] # NoRow /\ vol[v].live
CpuTotal == MapThenFoldSet(+, 0, LAMBDA c : cont[c].cpu, LAMBDA s : CHOOSE c \in s : TRUE,
                           {c \in ContainerIds : LiveContainer(c)})
DiskTotal == Cardinality({v \in VolumeIds : LiveVolume(v)}) * Capacity

\* A bug that the runs must find: the present sum is compared, without the request.
WithoutRequest(total, own, cpu) == total <= CpuLimit
\* "own" is what the request's snapshot says of the container that is updated.
ValidateProjectResourceLimits(total, own, cpu) ==
  (((total - own + W) % W) + cpu) % W <= CpuLimit
WithinProjectDisk(total) == (total + Capacity) % W <= DiskLimit

NextContainer(c) == cont[c] = NoRow /\ \A d \in 1 .. c - 1 : cont[d] # NoRow
NextVolume(v) == vol[v] = NoRow /\ \A w \in 1 .. v - 1 : vol[w] # NoRow

\* ON DELETE CASCADE: the mounts of a volume go with it.
Unmounted(v) == [c \in ContainerIds |-> IF cont[c] = NoRow THEN NoRow
                                      ELSE [cont[c] EXCEPT !.mounts = @ \ {v}]]
DropVolume(v) == vol' = [vol EXCEPT ![v].live = FALSE] /\ cont' = Unmounted(v)

\* Save replaces the rows of MOUNTS; their foreign key refuses a volume that is gone.
MaySave(c, mounts) == contLock[c] = Idle /\ LiveContainer(c) /\ \A v \in mounts : LiveVolume(v)

Idles(r) == creq' = [creq EXCEPT ![r] = Idle]
Goes(r, q) == creq' = [creq EXCEPT ![r] = q]
Rivals(r, c) == {s \in Requests \ {r} : creq[s] # Idle /\ creq[s].op # "create" /\ creq[s].c = c}
Collides(r, c) == collided' = IF Rivals(r, c) = {} THEN collided ELSE collided \cup {c}

ContainersInit ==
  /\ cont = [c \in ContainerIds |-> NoRow] /\ vol = [v \in VolumeIds |-> NoRow]
  /\ contLock = [c \in ContainerIds |-> Idle]
  /\ creq = [r \in Requests |-> Idle]
  /\ collided = {} /\ failed = {}

-----------------------------------------------------------------------------
(* POST /projects/:slug/containers                                         *)

CreateContainer(r) ==
  /\ creq[r] = Idle
  /\ \E cpu \in Cpus, withVolume \in BOOLEAN :
       /\ ValidateProjectResourceLimits(CpuTotal, 0, cpu)
       /\ Goes(r, [op |-> "create", cpu |-> cpu, withVolume |-> withVolume, total |-> DiskTotal])
  /\ UNCHANGED <<cont, vol, contLock, collided, failed>>

\* The volume's limit is checked with the row of the project locked, and the old sum.
CommitContainer(r) ==
  /\ creq[r] # Idle /\ creq[r].op = "create"
  /\ \E c \in ContainerIds :
       /\ NextContainer(c)
       /\ \/ /\ ~ creq[r].withVolume
             /\ cont' = [cont EXCEPT ![c] = [cpu |-> creq[r].cpu, live |-> TRUE, mounts |-> {}]]
             /\ UNCHANGED vol
          \/ /\ creq[r].withVolume /\ WithinProjectDisk(creq[r].total)
             /\ \E v \in VolumeIds :
                  /\ NextVolume(v)
                  /\ vol' = [vol EXCEPT ![v] = [for |-> c, live |-> TRUE]]
                  /\ cont' = [cont EXCEPT ![c] = [cpu |-> creq[r].cpu, live |-> TRUE, mounts |-> {v}]]
  /\ Idles(r)
  /\ UNCHANGED <<contLock, collided, failed>>

(* PUT /containers/:slug                                                   *)

UpdateContainer(r) ==
  /\ creq[r] = Idle
  /\ \E c \in ContainerIds, cpu \in Cpus \cup {Keep} :
       /\ LiveContainer(c)
       /\ Goes(r, [op |-> "update", c |-> c, cpu |-> cpu, seen |-> cont[c]])
       /\ Collides(r, c)
  /\ UNCHANGED <<cont, vol, contLock, failed>>

\* The row is locked; the sum is what is committed now, this container's share the snapshot's.
LockContainer(r) ==
  /\ creq[r] # Idle /\ creq[r].op = "update"
  /\ LET q == creq[r] IN
     /\ contLock[q.c] = Idle /\ LiveContainer(q.c)
     /\ q.cpu # Keep => ValidateProjectResourceLimits(CpuTotal, q.seen.cpu, q.cpu)
     /\ contLock' = [contLock EXCEPT ![q.c] = r]
     /\ Goes(r, [q EXCEPT !.op = "save"])
  /\ UNCHANGED <<cont, vol, collided, failed>>

SaveContainer(r) ==
  /\ creq[r] # Idle /\ creq[r].op = "save"
  /\ LET q == creq[r] IN
     /\ \A v \in q.seen.mounts : LiveVolume(v)
     /\ cont' = [cont EXCEPT ![q.c].mounts = q.seen.mounts,
                             ![q.c].cpu = IF q.cpu = Keep THEN @ ELSE q.cpu]
     /\ contLock' = [contLock EXCEPT ![q.c] = Idle]
  /\ Idles(r)
  /\ UNCHANGED <<vol, collided, failed>>

(* DELETE /containers/:slug                                                *)

DeleteContainer(r) ==
  /\ creq[r] = Idle
  /\ \E c \in ContainerIds :
       /\ LiveContainer(c)
       /\ Goes(r, [op |-> "delete", c |-> c, mounts |-> cont[c].mounts])
       /\ Collides(r, c)
  /\ UNCHANGED <<cont, vol, contLock, failed>>

\* A bug that the runs must find: the volumes of a deleted container are kept.
NoVolumes(mounts) == {}
\* The volumes that are deleted with the container are those it mounts.
VolumesToDelete(mounts) == mounts

\* A volume that cannot be deleted is logged, and the deletion goes on.
CommitContainerDelete(r) ==
  /\ creq[r] # Idle /\ creq[r].op = "delete"
  /\ LET c == creq[r].c mounts == creq[r].mounts IN
     /\ MaySave(c, mounts)
     /\ \E kept \in SUBSET mounts :
          /\ cont' = [cont EXCEPT ![c].live = FALSE, ![c].mounts = kept]
          /\ vol' = [v \in VolumeIds |-> IF v \in VolumesToDelete(mounts) \ kept
                                       THEN [vol[v] EXCEPT !.live = FALSE] ELSE vol[v]]
          /\ failed' = IF kept = {} THEN failed ELSE failed \cup {c}
  /\ Idles(r)
  /\ UNCHANGED <<contLock, collided>>

-----------------------------------------------------------------------------
(* POST /containers/:slug/volumes                                          *)

\* CreateVolume outside a transaction: its lock of the project is gone before the INSERT.
AddContainerVolume(r) ==
  /\ creq[r] = Idle
  /\ \E c \in ContainerIds :
       /\ LiveContainer(c)
       /\ Goes(r, [op |-> "create volume", c |-> c, total |-> DiskTotal])
       /\ Collides(r, c)
  /\ UNCHANGED <<cont, vol, contLock, failed>>

CreateVolume(r) ==
  /\ creq[r] # Idle /\ creq[r].op = "create volume"
  /\ WithinProjectDisk(creq[r].total)
  /\ \E v \in VolumeIds :
       /\ NextVolume(v)
       /\ vol' = [vol EXCEPT ![v] = [for |-> creq[r].c, live |-> TRUE]]
       /\ Goes(r, [op |-> "mount", c |-> creq[r].c, v |-> v])
  /\ UNCHANGED <<cont, contLock, collided, failed>>

\* AddMount begins with its permission check; it fails when the container is gone.
AddMount(r) ==
  /\ creq[r] # Idle /\ creq[r].op = "mount"
  /\ Goes(r, IF LiveContainer(creq[r].c)
             THEN [op |-> "save mount", c |-> creq[r].c, v |-> creq[r].v, mounts |-> cont[creq[r].c].mounts]
             ELSE [op |-> "compensate", c |-> creq[r].c, v |-> creq[r].v])
  /\ UNCHANGED <<cont, vol, contLock, collided, failed>>

SaveMount(r) ==
  /\ creq[r] # Idle /\ creq[r].op = "save mount"
  /\ MaySave(creq[r].c, creq[r].mounts \cup {creq[r].v})
  /\ cont' = [cont EXCEPT ![creq[r].c].mounts = creq[r].mounts \cup {creq[r].v}]
  /\ Idles(r)
  /\ UNCHANGED <<vol, contLock, collided, failed>>

\* A bug that the runs must find: the volume stays when it cannot be mounted.
GiveUp(r) ==
  /\ creq[r] # Idle /\ creq[r].op = "save mount"
  /\ Idles(r)
  /\ UNCHANGED <<cont, vol, contLock, collided, failed>>
\* The mount is refused, or a statement of its transaction fails.
MountFails(r) ==
  /\ creq[r] # Idle /\ creq[r].op = "save mount"
  /\ Goes(r, [op |-> "compensate", c |-> creq[r].c, v |-> creq[r].v])
  /\ UNCHANGED <<cont, vol, contLock, collided, failed>>

(* DELETE /containers/:slug/volumes/:volume_id                             *)

DeleteMount(r) ==
  /\ creq[r] = Idle
  /\ \E c \in ContainerIds, v \in VolumeIds :
       /\ LiveContainer(c) /\ v \in cont[c].mounts
       /\ Goes(r, [op |-> "save unmount", c |-> c, v |-> v, mounts |-> cont[c].mounts \ {v}])
       /\ Collides(r, c)
  /\ UNCHANGED <<cont, vol, contLock, failed>>

SaveUnmount(r) ==
  /\ creq[r] # Idle /\ creq[r].op = "save unmount"
  /\ MaySave(creq[r].c, creq[r].mounts)
  /\ cont' = [cont EXCEPT ![creq[r].c].mounts = creq[r].mounts]
  /\ Goes(r, [op |-> "compensate", c |-> creq[r].c, v |-> creq[r].v])
  /\ UNCHANGED <<vol, contLock, collided, failed>>

\* The last step of both: the volume is deleted, if it is still there.
DeleteVolume(r) ==
  /\ creq[r] # Idle /\ creq[r].op = "compensate"
  /\ DropVolume(creq[r].v)
  /\ Idles(r)
  /\ UNCHANGED <<contLock, collided, failed>>

(* DELETE /volumes/:slug                                                   *)

RemoveProjectVolume(r) ==
  /\ creq[r] = Idle
  /\ \E v \in VolumeIds : LiveVolume(v) /\ DropVolume(v)
  /\ UNCHANGED <<contLock, creq, collided, failed>>

\* A refused check, a failing statement, the victim of a deadlock or a crash.
AbortTransaction(r) ==
  /\ creq[r] # Idle
  /\ Idles(r)
  /\ contLock' = [c \in ContainerIds |-> IF contLock[c] = r THEN Idle ELSE contLock[c]]
  /\ failed' = IF creq[r].op \in {"mount", "save mount", "compensate"} THEN failed \cup {creq[r].c} ELSE failed
  /\ UNCHANGED <<cont, vol, collided>>

ContainerStep(r) ==
  \/ CreateContainer(r) \/ CommitContainer(r)
  \/ UpdateContainer(r) \/ LockContainer(r) \/ SaveContainer(r)
  \/ DeleteContainer(r) \/ CommitContainerDelete(r)
  \/ AddContainerVolume(r) \/ CreateVolume(r) \/ AddMount(r) \/ SaveMount(r) \/ MountFails(r)
  \/ DeleteMount(r) \/ SaveUnmount(r) \/ DeleteVolume(r) \/ RemoveProjectVolume(r)
  \/ AbortTransaction(r)

ContainersNext == \E r \in Requests : ContainerStep(r)

ContainersSpec == ContainersInit /\ [][ContainersNext]_cvars

-----------------------------------------------------------------------------
(* Rows keep their shape, and a row is locked by the request that saves it. *)
ContainersTypeOK ==
  /\ cont \in [ContainerIds -> ContainerRows \cup {NoRow}] /\ vol \in [VolumeIds -> VolumeRows \cup {NoRow}]
  /\ \A c \in ContainerIds : contLock[c] # Idle => creq[contLock[c]] # Idle /\ creq[contLock[c]].op = "save"
  /\ collided \subseteq ContainerIds /\ failed \subseteq ContainerIds

(* The sums of CPU and of capacities are checked against limits without a  *)
(* lock that lasts (ValidateProjectResourceLimits, CreateVolume), an       *)
(* update subtracts a share that may be out of date, and everything is     *)
(* added modulo 2^32.  Even so a project exceeds its limits by no more     *)
(* than one container or volume for each request beyond the first, however *)
(* long its containers go on being created, resized and deleted.           *)
LargestCpu == CHOOSE m \in Cpus : \A n \in Cpus : n <= m
ResourceOvershoot ==
  /\ CpuTotal <= CpuLimit + (Cardinality(Requests) - 1) * LargestCpu
  /\ DiskTotal <= DiskLimit + (Cardinality(Requests) - 1) * Capacity

(* A volume that was made for a container is mounted there, or a request   *)
(* is about to mount or to delete it: the compensation of AddVolume, the   *)
(* order of DeleteVolume and the deletion of a container leave no volume   *)
(* that nobody can see, unless requests of that container collided (the    *)
(* second saves the mounts it has seen) or one of them stopped midway.     *)
NoLostVolume ==
  \A v \in VolumeIds :
    LiveVolume(v) /\ vol[v].for \notin collided \cup failed
      => \/ LiveContainer(vol[v].for) /\ v \in cont[vol[v].for].mounts
         \/ \E r \in Requests : creq[r] # Idle /\ creq[r].op \in {"mount", "save mount", "compensate"} /\ creq[r].v = v
=============================================================================
