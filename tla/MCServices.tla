------------------------------ MODULE MCServices ------------------------------
(***************************************************************************)
(* An instance of projects, networks and containers.  They share no state  *)
(* here, so the run explores one after the other, and each of them from    *)
(* several sides, so that one bound need not be large for all: "side" says *)
(* which one.                                                              *)
(***************************************************************************)
EXTENDS Projects, Networks, Containers, TLC

CONSTANTS c1, c2, c3, A, B

VARIABLE side

\* Two containers of one project, and one of another.
ProjectOfContainer == [c \in {c1, c2, c3} |-> IF c = c3 THEN B ELSE A]

allvars == <<side, pvars, nvars, cvars>>

MCInit ==
  /\ side \in {"quotas", "volumes", "ports", "names", "addresses", "cpus", "mounts"}
  /\ Init /\ NetworksInit /\ ContainersInit

\* Projects without volumes.
QuotasOnly == \A r \in Requests : req[r] = Idle \/ req[r].op # "volume"
\* An account that makes a project only when it has none.
OneProject == Creating' \subseteq Creating \/ FindByUserID = {}
\* Edits of some containers, for FQDNs or without one.
EditsOnly(containers, ports, names) ==
  \A r \in Requests : \/ nreq[r] = Idle
                      \/ /\ nreq[r].op \in Edits /\ nreq[r].c \in containers
                         /\ nreq[r].port \in ports \cup {Keep} /\ nreq[r].fqdn \in names \cup {Nil}
\* One container with its node ports.
NodePortsOnly ==
  \A r \in Requests : \/ nreq[r] = Idle
                      \/ nreq[r].op \notin Edits /\ nreq[r].c = c1
                      \/ nreq[r].c = c1 /\ nreq[r].port \in {1, Keep} /\ nreq[r].fqdn = Nil
\* Containers with several CPU limits, and no volumes.
CpusOnly ==
  \A r \in Requests : \/ creq[r] = Idle
                      \/ creq[r].op = "create" /\ ~ creq[r].withVolume
                      \/ creq[r].op \in {"update", "save", "delete"}
\* Two containers with volumes, and one CPU limit that never binds.
MountsOnly ==
  /\ cont[3] = NoRow
  /\ \A r \in Requests : \/ creq[r] = Idle
                         \/ creq[r].op \notin {"create", "update", "save"}
                         \/ creq[r].cpu \in {1, Keep}

\* Ports, addresses and mounts are followed until requests of a container overlap: nothing
\* is claimed of that container afterwards.  FQDNs are followed beyond that, until requests
\* of both containers have overlapped; CPU limits without end.
MCNext ==
  /\ UNCHANGED side
  /\ \/ side = "quotas" /\ Next /\ QuotasOnly' /\ UNCHANGED <<nvars, cvars>>
     \/ side = "volumes" /\ Next /\ OneProject /\ UNCHANGED <<nvars, cvars>>
     \/ /\ \/ side = "ports" /\ overlapped = {} /\ NetworksNext /\ EditsOnly({c1, c2}, Ports, {})'
           \/ side = "names" /\ overlapped # {c1, c3} /\ NetworksNext /\ EditsOnly({c1, c3}, {1}, Names)'
              /\ net'[3] = NoRow
           \/ side = "addresses" /\ overlapped = {} /\ NetworksNext /\ NodePortsOnly'
        /\ UNCHANGED <<pvars, cvars>>
     \/ /\ \/ side = "cpus" /\ ContainersNext /\ CpusOnly'
           \/ side = "mounts" /\ collided = {} /\ ContainersNext /\ MountsOnly'
        /\ UNCHANGED <<pvars, nvars>>

MCSpec == MCInit /\ [][MCNext]_allvars

Symmetry == Permutations(Requests) \cup Permutations(VolumeNames)

-----------------------------------------------------------------------------
(* All three: rows keep their shape and locks have their holders.          *)
ServicesTypeOK == ProjectsTypeOK /\ NetworksTypeOK /\ ContainersTypeOK
=============================================================================
