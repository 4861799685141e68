------------------------------- MODULE PodStatus -------------------------------
(***************************************************************************)
(* The word by which GET /projects/:slug/pod-status tells how a pod is: it *)
(* is worked out of the states of the pod's containers, as kubectl does    *)
(* for its STATUS column.  The kubelet's steps (external) give the states  *)
(* a pod can be in: init containers one after the other, then the main     *)
(* ones, which are restarted for ever; deletion, eviction, a lost node.    *)
(***************************************************************************)
EXTENDS Integers, Sequences

CONSTANTS MaxInits, MaxMains, None

\* The reasons a pod or a container can have.
Reasons ==
  {"ContainerCreating", "PodInitializing", "ErrImagePull", "CrashLoopBackOff",
   "Completed", "Error", "NodeLost", "Evicted"}

\* "None" is no reason.
PodAssumption == MaxInits \in Nat /\ MaxMains \in Nat \ {0} /\ None \notin Reasons

VARIABLES pod

Waiting(r) == [state |-> "waiting", reason |-> r]
Running == [state |-> "running", reason |-> None]
\* Not every runtime gives a reason when a container ends.
Ended == [state : {"done"}, reason : {"Completed", None}] \cup [state : {"failed"}, reason : {"Error", None}]

AllDone(inits) == \A i \in DOMAIN inits : inits[i].state = "done"

PodInit ==
  \E n \in 0 .. MaxInits, m \in 1 .. MaxMains :
    pod = [deleted |-> FALSE, reason |-> None, inits |-> <<>>, mains |-> <<>>, size |-> <<n, m>>]

\* The kubelet reports the containers for the first time.
Admit ==
  /\ pod.mains = <<>> /\ pod.reason = None
  /\ LET n == pod.size[1]
         wait == Waiting(IF n = 0 THEN "ContainerCreating" ELSE "PodInitializing")
     IN  pod' = [pod EXCEPT !.inits = [i \in 1 .. n |-> Waiting("PodInitializing")],
                            !.mains = [j \in 1 .. pod.size[2] |-> wait]]

Turns(s) ==
  CASE s.state = "waiting" /\ s.reason = "CrashLoopBackOff" -> {Running}
    [] s.state = "waiting" /\ s.reason # "CrashLoopBackOff" -> {Running, Waiting("ErrImagePull"), Waiting(None)}
    [] s.state = "running" -> Ended
    [] OTHER -> {Running, Waiting("CrashLoopBackOff")}

InitTurns(i) ==
  /\ AllDone(SubSeq(pod.inits, 1, i - 1)) /\ pod.inits[i].state # "done"
  /\ \E s \in Turns(pod.inits[i]) : pod' = [pod EXCEPT !.inits[i] = s]

MainTurns(j) ==
  /\ AllDone(pod.inits)
  /\ \E s \in Turns(pod.mains[j]) : pod' = [pod EXCEPT !.mains[j] = s]

Delete == ~pod.deleted /\ pod' = [pod EXCEPT !.deleted = TRUE]
NodeLost == pod.deleted /\ pod.reason = None /\ pod' = [pod EXCEPT !.reason = "NodeLost"]
Evict == pod.reason = None /\ pod' = [pod EXCEPT !.reason = "Evicted"]

PodNext ==
  \/ Admit \/ Delete \/ NodeLost \/ Evict
  \/ \E i \in DOMAIN pod.inits : InitTurns(i)
  \/ \E j \in DOMAIN pod.mains : MainTurns(j)

PodSpec == PodInit /\ [][PodNext]_pod

Phase(p) ==
  CASE p.reason = "Evicted" -> "Error"
    [] p.mains = <<>> \/ ~AllDone(p.inits) -> "Pending"
    [] \E j \in DOMAIN p.mains : p.mains[j].state = "waiting" /\ p.mains[j].reason # "CrashLoopBackOff" -> "Pending"
    [] OTHER -> "Running"

-----------------------------------------------------------------------------
(* calculatePodStatus.                                                     *)

\* The first word that is one, or else the next thing to say.
FirstWord(words, else) ==
  LET said == {i \in DOMAIN words : words[i] # None}
  IN  IF said = {} THEN else ELSE words[CHOOSE i \in said : \A k \in said : i <= k]

Word(s, default) == IF s.reason = None THEN default ELSE s.reason

InitWord(inits, i) ==
  CASE inits[i].state = "waiting" -> inits[i].reason
    [] inits[i].state = "failed" -> Word(inits[i], "Error")
    [] inits[i].state = "running" /\ i < Len(inits) -> "PodInitializing"
    [] OTHER -> None

MainWord(s) ==
  CASE s.state = "waiting" -> s.reason
    [] s.state = "done" -> Word(s, "Completed")
    [] s.state = "failed" -> Word(s, "Error")
    [] OTHER -> None

\* Mutant: the main containers are asked first.
MainsFirst(p) ==
  IF p.deleted THEN "Terminating"
  ELSE FirstWord([j \in DOMAIN p.mains |-> MainWord(p.mains[j])],
         FirstWord([i \in DOMAIN p.inits |-> InitWord(p.inits, i)], Phase(p)))
calculatePodStatus(p) ==
  IF p.deleted THEN "Terminating"
  ELSE FirstWord([i \in DOMAIN p.inits |-> InitWord(p.inits, i)],
         IF p.inits # <<>> /\ AllDone(p.inits) /\ p.mains = <<>> THEN "PodInitializing"
         ELSE FirstWord([j \in DOMAIN p.mains |-> MainWord(p.mains[j])], Phase(p)))

\* GetProjectPodStatus: the word, and of how many containers the pod reports a state.
PodRead(p) == [status |-> calculatePodStatus(p), total |-> Len(p.mains)]

-----------------------------------------------------------------------------
(* kubectl's STATUS, in the words of the code: without "Init:" before the  *)
(* word of an init container, "PodInitializing" for "Init:1/2", "Error" or *)
(* "Completed" for an exit code, and "Error" for a pod that failed.        *)

ReadyAndRunning(p) == \E j \in DOMAIN p.mains : p.mains[j].state = "running"

KubectlInit(s) ==
  CASE s.state = "failed" -> Word(s, "Error")
    [] s.state = "waiting" -> Word(s, "PodInitializing")
    [] OTHER -> "PodInitializing"

\* From the last container to the first, each overriding what was said.
KubectlMains(p) ==
  LET said[j \in 1 .. Len(p.mains) + 1] ==
        IF j > Len(p.mains) THEN Word(p, Phase(p))
        ELSE IF MainWord(p.mains[j]) = None THEN said[j + 1] ELSE MainWord(p.mains[j])
  IN  IF said[1] = "Completed" /\ ReadyAndRunning(p) THEN "Running" ELSE said[1]

Kubectl(p) ==
  IF p.deleted THEN IF p.reason = "NodeLost" THEN "Unknown" ELSE "Terminating"
  ELSE IF AllDone(p.inits) THEN KubectlMains(p)
  ELSE KubectlInit(p.inits[CHOOSE i \in DOMAIN p.inits :
         p.inits[i].state # "done" /\ AllDone(SubSeq(p.inits, 1, i - 1))])

\* What the code leaves out: the reason of the pod itself, and that a container beside a
\* completed one still runs.
ReasonOfPod(p) == p.reason # None
CompletedBesideRunning(p) ==
  ReadyAndRunning(p) /\ \E j \in DOMAIN p.mains : p.mains[j].state = "done"

(* "This replicates the logic from kubectl's STATUS column"                *)
(* (kube_deploy_client.go:653), apart from the two things above: the code  *)
(* stops at the first container that has something to say, kubectl walks   *)
(* all of them.  "Running" is said of no pod with a container that has     *)
(* still to start, has ended or is to be restarted, or is not counted.     *)
PodStatusIsKubectls ==
  /\ ReasonOfPod(pod) \/ CompletedBesideRunning(pod) \/ PodRead(pod).status = Kubectl(pod)
  /\ PodRead(pod).status = "Running"
       => /\ AllDone(pod.inits) /\ PodRead(pod).total = pod.size[2]
          /\ \A j \in DOMAIN pod.mains : pod.mains[j].state = "running"
=============================================================================
