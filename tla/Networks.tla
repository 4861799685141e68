------------------------------ MODULE Networks ------------------------------
(***************************************************************************)
(* The rows of NETWORKS: containers of several projects add, change and    *)
(* remove their network while others do the same, and their node ports are *)
(* created and polled.  An edit is a transaction whose snapshot is taken by *)
(* the permission check, before it locks the row of its container; the     *)
(* checks of internal port and FQDN are locking reads of what is committed. *)
(* Node ports are created and polled outside transactions.                 *)
(***************************************************************************)
EXTENDS Transactions

CONSTANTS
  Containers,
  ProjectOf,       \* the project of each container
  MaxNetworks,     \* bound: rows of NETWORKS
  Ports, Names,    \* internal ports and FQDNs
  Events,          \* event ids that Tekton gives to pipeline runs
  Nil,             \* NULL in a column
  Empty            \* the empty string

\* Ids are given in the order of the inserts.
NetworkIds == 1 .. MaxNetworks
ProjectIds == {ProjectOf[c] : c \in Containers}

\* What the constants are.
ASSUME NetworksAssumption ==
  /\ MaxNetworks \in Nat /\ Keep \notin Ports /\ Empty \notin Events
  /\ Nil \notin NetworkIds \cup Ports \cup Names \cup Events \cup {Empty}

VARIABLES
  net,         \* net[i]: the row of NETWORKS, or NoRow
  gone,        \* containers that are soft-deleted
  rowLock,     \* rowLock[c]: the request that holds the row of container c
  portLock,    \* portLock[p]: the request that has read p's networks for update
  nameLock,    \* nameLock[f]: the request that has read the networks of FQDN f for update
  nreq,        \* nreq[r]: what request r is about to do, or Idle
  pipeline,    \* pipeline[e]: the pipeline run of event e
  over,        \* events whose node port has expired
  overlapped   \* containers of which a request has started too close to another one

nvars == <<net, gone, rowLock, portLock, nameLock, nreq, pipeline, over, overlapped>>
locks == <<rowLock, portLock, nameLock>>
tekton == <<pipeline, over>>

-----------------------------------------------------------------------------
\* "ip" stands for external_ip and external_port: every statement moves them together,
\* and it names the event whose result they are.  So does "expires".
NetworkRows == [c : Containers, port : Ports, fqdn : Names \cup {Nil}, live : BOOLEAN,
                ip : Events \cup {Nil, Empty}, event : Events \cup {Nil}, expires : Events \cup {Nil, Empty}]

\* NULL is not a row.
ASSUME NoNetworkAssumption == NoRow \notin NetworkRows

NetworkExists(i) == net[i] # NoRow
LiveNetwork(i) == NetworkExists(i) /\ net[i].live
NetworksOf(c) == {i \in NetworkIds : LiveNetwork(i) /\ net[i].c = c}
ProjectOfRow(i) == ProjectOf[net[i].c]

\* A bug that the runs must find: any number of networks in a container.
Unlimited(n) == TRUE
MaxNetworksPerContainer(n) == n < 1

\* A bug that the runs must find: only the container's own networks are looked at.
PortTakenInContainer(c, port, self) == \E i \in NetworksOf(c) \ self : net[i].port = port
CheckInternalPortExistsInProject(c, port, self) ==
  \E i \in NetworkIds \ self : /\ LiveNetwork(i) /\ net[i].c \notin gone
                               /\ ProjectOfRow(i) = ProjectOf[c] /\ net[i].port = port

\* A bug that the runs must find: an FQDN is free as soon as its network is deleted.
NameTakenByLive(c, fqdn, self) == \E i \in NetworkIds \ self : LiveNetwork(i) /\ net[i].fqdn = fqdn
CheckFQDNExistsForProject(c, fqdn, self) ==
  \E i \in NetworkIds \ self : /\ NetworkExists(i) /\ net[i].fqdn = fqdn
                               /\ ProjectOfRow(i) = ProjectOf[c] => net[i].live

NewNetwork(c, port, fqdn) ==
  [c |-> c, port |-> port, fqdn |-> fqdn, live |-> TRUE, ip |-> Nil, event |-> Nil, expires |-> Nil]

\* A new FQDN takes a new row: the aggregate's UpdateNetwork never changes one.
FQDNChanged(old, new) == old # new

-----------------------------------------------------------------------------
NetworksInit ==
  /\ net = [i \in NetworkIds |-> NoRow] /\ gone = {}
  /\ rowLock = [c \in Containers |-> Idle]
  /\ portLock = [p \in ProjectIds |-> Idle] /\ nameLock = [f \in Names |-> Idle]
  /\ nreq = [r \in Requests |-> Idle]
  /\ pipeline = [e \in Events |-> "none"] /\ over = {} /\ overlapped = {}

Edits == {"add", "update", "remove", "other", "drop"}
NetworkEdits ==
  [op : Edits, locked : BOOLEAN, c : Containers, target : NetworkIds \cup {Nil}, port : Ports \cup {Keep},
   fqdn : Names \cup {Nil}, seen : UNION {[seen -> NetworkRows] : seen \in SUBSET NetworkIds}]

\* Who is idle does not edit.
ASSUME IdleEditAssumption == Idle \notin NetworkEdits

Editing(c) == {r \in Requests : nreq[r] # Idle /\ nreq[r].c = c /\ nreq[r].op \in Edits}
OtherRequests(c) == {r \in Requests : nreq[r] # Idle /\ nreq[r].c = c}
Overlaps(c, with) == overlapped' = IF with = {} THEN overlapped ELSE overlapped \cup {c}

\* CanUserModifyContainer reads first, and with it the snapshot of the transaction is taken.
Begin(r, op, c, target, port, fqdn) ==
  /\ nreq[r] = Idle
  /\ c \notin gone
  /\ nreq' = [nreq EXCEPT ![r] =
       [op |-> op, locked |-> FALSE, c |-> c, target |-> target, port |-> port, fqdn |-> fqdn,
        seen |-> [i \in NetworksOf(c) |-> net[i]]]]
  /\ Overlaps(c, OtherRequests(c))
  /\ UNCHANGED <<net, gone, locks, tekton>>

AddNetwork(r) == \E c \in Containers, port \in Ports, fqdn \in Names \cup {Nil} :
  Begin(r, "add", c, Nil, port, fqdn)
UpdateNetwork(r) == \E i \in NetworkIds, port \in Ports \cup {Keep}, fqdn \in Names \cup {Nil} :
  LiveNetwork(i) /\ Begin(r, "update", net[i].c, i, port, fqdn)
DeleteNetwork(r) == \E i \in NetworkIds : LiveNetwork(i) /\ Begin(r, "remove", net[i].c, i, Keep, Nil)
DropContainer(r) == \E c \in Containers : Begin(r, "drop", c, Nil, Keep, Nil)
\* Every other edit of a container saves the aggregate with its networks.
EditOther(r) == \E c \in Containers : NetworksOf(c) # {} /\ Begin(r, "other", c, Nil, Keep, Nil)

Self(q) == IF q.target = Nil THEN {} ELSE {q.target}

\* FindByIDForUpdate, then the checks.  Their locking reads meet in a row, or in a gap where
\* MySQL rolls one of the two back at its INSERT (AbortEdit): one at a time gets through.
LockAndCheck(r) ==
  /\ nreq[r] # Idle /\ r \in Editing(nreq[r].c) /\ ~ nreq[r].locked
  /\ LET q == nreq[r] IN
     /\ rowLock[q.c] = Idle /\ q.c \notin gone
     /\ rowLock' = [rowLock EXCEPT ![q.c] = r]
     /\ q.port # Keep => portLock[ProjectOf[q.c]] = Idle /\ ~ CheckInternalPortExistsInProject(q.c, q.port, Self(q))
     /\ q.fqdn # Nil => nameLock[q.fqdn] = Idle /\ ~ CheckFQDNExistsForProject(q.c, q.fqdn, Self(q))
     /\ q.op = "add" => MaxNetworksPerContainer(Cardinality(DOMAIN q.seen))
     /\ q.target # Nil => q.target \in DOMAIN q.seen
     /\ portLock' = IF q.port = Keep THEN portLock
                    ELSE [portLock EXCEPT ![ProjectOf[q.c]] = r]
     /\ nameLock' = IF q.fqdn = Nil THEN nameLock ELSE [nameLock EXCEPT ![q.fqdn] = r]
  /\ nreq' = [nreq EXCEPT ![r].locked = TRUE]
  /\ UNCHANGED <<net, gone, tekton, overlapped>>

\* A bug that the runs must find: only the lock of the container's row is released.
RowUnlocked(r) ==
  /\ rowLock' = [c \in Containers |-> IF rowLock[c] = r THEN Idle ELSE rowLock[c]]
  /\ UNCHANGED <<portLock, nameLock>>
Unlocked(r) ==
  /\ rowLock' = [c \in Containers |-> IF rowLock[c] = r THEN Idle ELSE rowLock[c]]
  /\ portLock' = [p \in ProjectIds |-> IF portLock[p] = r THEN Idle ELSE portLock[p]]
  /\ nameLock' = [f \in Names |-> IF nameLock[f] = r THEN Idle ELSE nameLock[f]]

\* An INSERT waits for the ranges that others have read for update.
MayInsert(r, row) == portLock[ProjectOf[row.c]] \in {Idle, r}

Replaces(q) == q.op = "update" /\ FQDNChanged(q.seen[q.target].fqdn, q.fqdn)
PortAfter(q) == IF q.port = Keep THEN q.seen[q.target].port ELSE q.port

\* The aggregate at the end of the edit: the networks it keeps, and the one it adds.
Kept(q) ==
  [i \in DOMAIN q.seen \ (IF q.op = "remove" \/ Replaces(q) THEN {q.target} ELSE {}) |->
     IF q.op = "update" /\ i = q.target
     THEN [q.seen[i] EXCEPT !.port = PortAfter(q), !.fqdn = IF q.fqdn = Nil THEN @ ELSE q.fqdn]
     ELSE q.seen[i]]
Added(q) == IF q.op = "add" THEN {NewNetwork(q.c, q.port, q.fqdn)}
            ELSE IF Replaces(q) THEN {NewNetwork(q.c, PortAfter(q), q.fqdn)} ELSE {}
Removed(q) == IF q.op = "drop" THEN NetworksOf(q.c) ELSE DOMAIN q.seen \ DOMAIN Kept(q)

\* UPDATE writes port, FQDN and external address of a kept row, and only those.
SaveNetworks(q) ==
  [i \in NetworkIds |->
     IF ~ NetworkExists(i) THEN NoRow
     ELSE LET row == IF i \in DOMAIN Kept(q)
                     THEN [net[i] EXCEPT !.port = Kept(q)[i].port, !.fqdn = Kept(q)[i].fqdn, !.ip = Kept(q)[i].ip]
                     ELSE net[i]
          IN  IF i \in Removed(q) THEN [row EXCEPT !.live = FALSE] ELSE row]

IsNextId(i) == ~ NetworkExists(i) /\ \A j \in 1 .. i - 1 : NetworkExists(j)

Save(r) ==
  /\ nreq[r] # Idle /\ r \in Editing(nreq[r].c) /\ nreq[r].locked
  /\ LET q == nreq[r] IN
     /\ \A row \in Added(q) : MayInsert(r, row)
     /\ \/ Added(q) = {} /\ net' = SaveNetworks(q)
        \/ \E row \in Added(q), i \in NetworkIds : /\ IsNextId(i)
                                                   /\ net' = [SaveNetworks(q) EXCEPT ![i] = row]
     /\ gone' = IF q.op = "drop" THEN gone \cup {q.c} ELSE gone
  /\ nreq' = [nreq EXCEPT ![r] = Idle]
  /\ Unlocked(r)
  /\ UNCHANGED <<tekton, overlapped>>

-----------------------------------------------------------------------------
(* Node ports.                                                             *)

IsExpired(row) == row.expires = Empty \/ row.expires \in over
\* POST goes on unless a node port is being created or still active.
MayCreateNodePort(row) == row.event = Nil \/ (row.expires # Nil /\ IsExpired(row))
\* GET answers "active" from the row when all of these are there.
IsActive(row) == row.event # Nil /\ row.ip # Nil /\ row.expires # Nil

CreateNodePort(r) ==
  /\ nreq[r] = Idle
  /\ \E i \in NetworkIds :
       /\ LiveNetwork(i) /\ net[i].c \notin gone /\ MayCreateNodePort(net[i])
       /\ nreq' = [nreq EXCEPT ![r] = [op |-> "trigger", c |-> net[i].c, target |-> i]]
       /\ Overlaps(net[i].c, OtherRequests(net[i].c))
  /\ UNCHANGED <<net, gone, locks, tekton>>

TriggerNodePortCreation(r) ==
  /\ nreq[r] # Idle /\ nreq[r].op = "trigger"
  /\ \E e \in Events :
       /\ pipeline[e] = "none"
       /\ pipeline' = [pipeline EXCEPT ![e] = "running"]
       /\ nreq' = [nreq EXCEPT ![r] = [op |-> "event", c |-> nreq[r].c, target |-> nreq[r].target, event |-> e]]
  /\ UNCHANGED <<net, gone, locks, over, overlapped>>

\* A bug that the runs must find: the last node port's address stays in the row.
WithEventOnly(row, e) == [row EXCEPT !.event = e]
WithEvent(row, e) == [row EXCEPT !.event = e, !.ip = Nil, !.expires = Nil]
UpdateNetworkTektonEventID(r) ==
  /\ nreq[r] # Idle /\ nreq[r].op = "event"
  /\ net' = [net EXCEPT ![nreq[r].target] = WithEvent(@, nreq[r].event)]
  /\ nreq' = [nreq EXCEPT ![r] = Idle]
  /\ UNCHANGED <<gone, locks, tekton, overlapped>>

\* Polls may overlap each other, and may start while a node port is being created.
GetNodePort(r) ==
  /\ nreq[r] = Idle
  /\ \E i \in NetworkIds :
       /\ LiveNetwork(i) /\ net[i].c \notin gone
       /\ net[i].event # Nil /\ ~ IsActive(net[i])
       /\ nreq' = [nreq EXCEPT ![r] = [op |-> "query", c |-> net[i].c, target |-> i, event |-> net[i].event]]
       /\ Overlaps(net[i].c, Editing(net[i].c))
  /\ UNCHANGED <<net, gone, locks, tekton>>

\* The result that is saved: after a failure the empty string and the present.
ResultOf(e) == IF pipeline[e] = "succeeded" THEN [ip |-> e, expires |-> e]
               ELSE [ip |-> Empty, expires |-> Empty]
GetPipelineRunResult(r) ==
  /\ nreq[r] # Idle /\ nreq[r].op = "query"
  /\ nreq' = [nreq EXCEPT ![r] =
       IF pipeline[nreq[r].event] \in {"succeeded", "failed"}
       THEN [op |-> "result", c |-> nreq[r].c, target |-> nreq[r].target, result |-> ResultOf(nreq[r].event)]
       ELSE Idle]
  /\ UNCHANGED <<net, gone, locks, tekton, overlapped>>

UpdateNetworkNodePortResult(r) ==
  /\ nreq[r] # Idle /\ nreq[r].op = "result"
  /\ net' = [net EXCEPT ![nreq[r].target] =
       [@ EXCEPT !.ip = nreq[r].result.ip, !.expires = nreq[r].result.expires]]
  /\ nreq' = [nreq EXCEPT ![r] = Idle]
  /\ UNCHANGED <<gone, locks, tekton, overlapped>>

\* A refused check, a failing statement, the victim of a deadlock or a crash.
AbortEdit(r) ==
  /\ nreq[r] # Idle
  /\ nreq' = [nreq EXCEPT ![r] = Idle]
  /\ Unlocked(r)
  /\ UNCHANGED <<net, gone, tekton, overlapped>>

\* Tekton: a run ends; later it is deleted.
PipelineRuns(e) ==
  /\ \/ pipeline[e] = "running" /\ pipeline' = [pipeline EXCEPT ![e] = "succeeded"]
     \/ pipeline[e] = "running" /\ pipeline' = [pipeline EXCEPT ![e] = "failed"]
     \/ pipeline[e] \in {"succeeded", "failed"} /\ pipeline' = [pipeline EXCEPT ![e] = "deleted"]
  /\ UNCHANGED <<net, gone, locks, nreq, over, overlapped>>

\* The half hour of a node port passes.
Expires(e) ==
  /\ pipeline[e] \in {"succeeded", "deleted"} /\ over' = over \cup {e}
  /\ UNCHANGED <<net, gone, locks, nreq, pipeline, overlapped>>

EditStep(r) ==
  \/ AddNetwork(r) \/ UpdateNetwork(r) \/ DeleteNetwork(r) \/ DropContainer(r) \/ EditOther(r)
  \/ LockAndCheck(r) \/ Save(r)
NodePortStep(r) ==
  \/ CreateNodePort(r) \/ TriggerNodePortCreation(r) \/ UpdateNetworkTektonEventID(r)
  \/ GetNodePort(r) \/ GetPipelineRunResult(r) \/ UpdateNetworkNodePortResult(r)

NetworksNext ==
  \/ \E r \in Requests : EditStep(r) \/ NodePortStep(r) \/ AbortEdit(r)
  \/ \E e \in Events : PipelineRuns(e) \/ Expires(e)

NetworksSpec == NetworksInit /\ [][NetworksNext]_nvars

-----------------------------------------------------------------------------
(* Rows keep their shape, and locks are held by requests that edit.        *)
NetworksTypeOK ==
  /\ net \in [NetworkIds -> NetworkRows \cup {NoRow}] /\ gone \subseteq Containers
  /\ \A c \in Containers : rowLock[c] # Idle => rowLock[c] \in Editing(c)
  /\ \A p \in ProjectIds : portLock[p] # Idle => nreq[portLock[p]] # Idle /\ ProjectOf[nreq[portLock[p]].c] = p
  /\ \A f \in Names : nameLock[f] # Idle => nreq[nameLock[f]] # Idle /\ nreq[nameLock[f]].fqdn = f
  /\ pipeline \in [Events -> {"none", "running", "succeeded", "failed", "deleted"}]
  /\ over \subseteq Events /\ overlapped \subseteq Containers

(* An FQDN belongs to one project and there to one live network, however   *)
(* the requests interleave (CheckFQDNExistsForProject and the locks of its *)
(* reads): a stale snapshot does not matter, since the FQDN of a row never *)
(* changes.                                                                *)
FQDNExclusive ==
  \A i, j \in NetworkIds :
    (i # j /\ NetworkExists(i) /\ NetworkExists(j) /\ net[i].fqdn # Nil /\ net[i].fqdn = net[j].fqdn)
      => ProjectOfRow(i) = ProjectOfRow(j) /\ ~ (LiveNetwork(i) /\ LiveNetwork(j))

\* The project's requests never were too close to another one of their own container.
Apart(p) == \A c \in overlapped : ProjectOf[c] # p

(* The containers of a project share one network interface: internal ports *)
(* differ although two containers are edited at the same time.  Two edits  *)
(* of ONE container may break it, the second saves its older snapshot.     *)
PortsUnique ==
  \A i, j \in NetworkIds :
    (i # j /\ LiveNetwork(i) /\ LiveNetwork(j) /\ ProjectOfRow(i) = ProjectOfRow(j) /\ Apart(ProjectOfRow(i)))
      => net[i].port # net[j].port

(* A container has one network, which node ports rely on                   *)
(* (MaxNetworksPerContainer), whatever happens to other containers; the    *)
(* ports of these networks differ.                                         *)
OneNetwork ==
  /\ \A c \in Containers \ overlapped : Cardinality(NetworksOf(c)) <= 1
  /\ PortsUnique

(* The address that GET shows is the one of the node port created last,    *)
(* although polls overlap each other and run while it is created.          *)
AddressIsOfEvent ==
  \A i \in NetworkIds : (LiveNetwork(i) /\ IsActive(net[i]) /\ net[i].c \notin overlapped)
                          => net[i].ip \in {net[i].event, Empty}

(* FQDNs, internal ports and addresses: the three above.                   *)
NetworksSound == FQDNExclusive /\ OneNetwork /\ AddressIsOfEvent
=============================================================================
