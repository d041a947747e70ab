---------------------------- MODULE StartSignal ----------------------------
(***************************************************************************)
(* How the containers of a pod learn that its volumes are there.  The      *)
(* volume manager of the pod's node mounts the volumes one after the other *)
(* and annotates the pod for each; the pod's wait sidecar watches the pod  *)
(* and creates a signal file once all the annotations it was given are     *)
(* set.  The pods of the model follow each other under one name, as those  *)
(* of a StatefulSet do, and are told apart by their UID.                   *)
(***************************************************************************)
EXTENDS Naturals

CONSTANTS
    Nodes,
    Volumes,        \* names of the proxy volumes of every pod
    Required,       \* the --volume flags of the sidecar
    MaxPods,        \* bound on the pods made under the name
    NodeOf,         \* the node of each of them
    Watched,        \* those that have a wait sidecar
    ForcedDeletion, \* whether pods are deleted before their containers have stopped
    MaxUpdates,     \* bound on updates of the pod by others
    MaxFaults       \* bound on failed calls, crashes and restarts

Uids == 1..MaxPods

ASSUME RequiredAssumption == Required \subseteq Volumes
ASSUME NodeOfAssumption == NodeOf \in [Uids -> Nodes]
ASSUME WatchedAssumption == Watched \subseteq Uids
ASSUME ForcedDeletionAssumption == ForcedDeletion \in BOOLEAN
ASSUME BoundAssumption == MaxPods \in Nat /\ MaxUpdates \in Nat /\ MaxFaults \in Nat

VARIABLES
    pod,        \* the pod the API server holds under the name
    phase,      \* per UID, what its node has of the pod
    ready,      \* volumes whose target path is published and backend attached
    mounted,    \* volumes mounted at the pod's target paths
    signal,     \* the pods whose signal file exists
    cached,     \* the pod in the informer of each node's volume manager
    queued,     \* the nodes whose volume manager has the name in its workqueue
    worker,     \* the sync in progress in each of them
    sidecar,    \* the wait process of each pod
    made, updates, faults

nodeVars == <<phase, ready, mounted>>
managerVars == <<cached, queued, worker>>
boundVars == <<made, updates, faults>>
vars == <<pod, nodeVars, signal, managerVars, sidecar, boundVars>>

\* A name that holds no pod has UID 0 and keeps its version, so that no version
\* is used twice.
Pod == [uid : 0..MaxPods, rv : Nat, annotated : SUBSET Volumes, deleting : BOOLEAN]

NoPod(rv) == [uid |-> 0, rv |-> rv, annotated |-> {}, deleting |-> FALSE]

Worker == [ pc      : {"idle", "sync", "patch"},
            pod     : Pod,              \* the cached copy the sync started with
            todo    : SUBSET Volumes,
            patches : SUBSET Volumes,   \* the volume to annotate, if it has come to that
            failed  : BOOLEAN ]         \* whether a volume returned an error

IdleWorker ==
    [pc |-> "idle", pod |-> NoPod(0), todo |-> {}, patches |-> {}, failed |-> FALSE]

Sidecar == [pc : {"off", "idle", "touch"}, seen : Pod, queued : BOOLEAN]
NoSidecar == [pc |-> "off", seen |-> NoPod(0), queued |-> FALSE]

(***************************************************************************)
(* The type invariant.                                                     *)
(***************************************************************************)
TypeOK ==
    /\ pod \in Pod
    /\ phase \in [Uids -> {"none", "running", "stopped", "gone"}]
    /\ ready \in [Uids -> SUBSET Volumes]
    /\ mounted \in [Uids -> SUBSET Volumes]
    /\ signal \subseteq Uids
    /\ cached \in [Nodes -> Pod]
    /\ queued \subseteq Nodes
    /\ worker \in [Nodes -> Worker]
    /\ sidecar \in [Uids -> Sidecar]
    /\ made \in 0..MaxPods
    /\ updates \in 0..MaxUpdates
    /\ faults \in 0..MaxFaults

Init ==
    /\ pod = NoPod(0)
    /\ phase = [u \in Uids |-> "none"]
    /\ ready = [u \in Uids |-> {}]
    /\ mounted = [u \in Uids |-> {}]
    /\ signal = {}
    /\ cached = [n \in Nodes |-> NoPod(0)]
    /\ queued = {}
    /\ worker = [n \in Nodes |-> IdleWorker]
    /\ sidecar = [u \in Uids |-> NoSidecar]
    /\ made = 0
    /\ updates = 0
    /\ faults = 0

Fault ==
    /\ faults < MaxFaults
    /\ faults' = faults + 1
    /\ UNCHANGED <<made, updates>>

-----------------------------------------------------------------------------
(***************************************************************************)
(* The pod at the API server and on its node.                              *)
(***************************************************************************)

\* A pod is made under the name, and the kubelet starts its sidecar.
CreatePod ==
    /\ pod.uid = 0
    /\ made < MaxPods
    /\ made' = made + 1
    /\ pod' = [NoPod(pod.rv + 1) EXCEPT !.uid = made + 1]
    /\ phase' = [phase EXCEPT ![made + 1] = "running"]
    /\ UNCHANGED <<ready, mounted, signal, managerVars, sidecar, updates, faults>>

\* Kubelet and users write the pod too.
UpdatePod ==
    /\ pod.uid # 0
    /\ updates < MaxUpdates
    /\ updates' = updates + 1
    /\ pod' = [pod EXCEPT !.rv = @ + 1]
    /\ UNCHANGED <<nodeVars, signal, managerVars, sidecar, made, faults>>

DeletePod ==
    /\ pod.uid # 0 /\ ~pod.deleting
    /\ pod' = [pod EXCEPT !.deleting = TRUE, !.rv = @ + 1]
    /\ UNCHANGED <<nodeVars, signal, managerVars, sidecar, boundVars>>

\* What NodeVolumes is about: the volume is published for the proxy, bound to a
\* backend and attached.  The last of it queues the pod.
VolumeReady(u, v) ==
    /\ phase[u] = "running"
    /\ v \notin ready[u]
    /\ ready' = [ready EXCEPT ![u] = @ \cup {v}]
    /\ queued' = IF cached[NodeOf[u]].uid = 0 THEN queued ELSE queued \cup {NodeOf[u]}
    /\ UNCHANGED <<pod, phase, mounted, signal, cached, worker, sidecar, boundVars>>

\* The containers of a pod that is deleted, or gone, are stopped.
StopContainers(u) ==
    /\ phase[u] = "running"
    /\ pod.uid = u => pod.deleting
    /\ phase' = [phase EXCEPT ![u] = "stopped"]
    /\ sidecar' = [sidecar EXCEPT ![u] = NoSidecar]
    /\ UNCHANGED <<pod, ready, mounted, signal, managerVars, boundVars>>

\* Then the volumes are unpublished and the pod's directory is removed, the
\* emptyDir with the signal file too.
TearDown(u) ==
    /\ phase[u] = "stopped"
    /\ phase' = [phase EXCEPT ![u] = "gone"]
    /\ ready' = [ready EXCEPT ![u] = {}]
    /\ mounted' = [mounted EXCEPT ![u] = {}]
    /\ signal' = signal \ {u}
    /\ UNCHANGED <<pod, managerVars, sidecar, boundVars>>

\* The kubelet is done with a pod when nothing of it is left; a forced deletion
\* does not wait for the kubelet.
RemovePod ==
    /\ pod.uid # 0 /\ pod.deleting
    /\ ForcedDeletion \/ phase[pod.uid] = "gone"
    /\ pod' = NoPod(pod.rv)
    /\ UNCHANGED <<nodeVars, signal, managerVars, sidecar, boundVars>>

-----------------------------------------------------------------------------
(***************************************************************************)
(* The volume manager of a node.                                           *)
(***************************************************************************)

\* Its informer lists the pods of its node only.
OnNode(n) == IF pod.uid # 0 /\ NodeOf[pod.uid] = n THEN pod ELSE NoPod(pod.rv)

\* Faulty variant: only a pod that comes or goes has an event.
DiffersInUid(seen, current) == seen.uid # current.uid

Differs(seen, current) ==
    seen.uid # current.uid \/ (current.uid # 0 /\ seen.rv # current.rv)

ObservePod(n) ==
    /\ Differs(cached[n], OnNode(n))
    /\ cached' = [cached EXCEPT ![n] = OnNode(n)]
    /\ queued' = queued \cup {n}
    /\ UNCHANGED <<pod, nodeVars, signal, worker, sidecar, boundVars>>

\* sync: a pod that is being deleted is left alone; without a pod it fails, which
\* puts the key back where it was.
SyncPod(n) ==
    /\ n \in queued /\ worker[n].pc = "idle"
    /\ cached[n].uid # 0
    /\ queued' = queued \ {n}
    /\ worker' = IF cached[n].deleting
                   THEN worker
                   ELSE [worker EXCEPT ![n] =
                           [IdleWorker EXCEPT !.pc = "sync", !.pod = cached[n], !.todo = Volumes]]
    /\ UNCHANGED <<pod, nodeVars, signal, cached, sidecar, boundVars>>

\* The errors of the volumes are gathered.
Returned(w, ok) == IF ok THEN w ELSE [w EXCEPT !.failed = TRUE]

\* A volume that is not bound is passed over, one that is not published or
\* attached may also be an error.
SkipVolume(n) ==
    /\ worker[n].pc = "sync"
    /\ \E v \in worker[n].todo \ ready[worker[n].pod.uid], ok \in BOOLEAN :
          worker' = [worker EXCEPT ![n] = Returned([worker[n] EXCEPT !.todo = @ \ {v}], ok)]
    /\ UNCHANGED <<pod, nodeVars, signal, cached, queued, sidecar, boundVars>>

\* Faulty variant: an error of the mount is not returned.
MountAndAnnotate(w, v, ok) == [w EXCEPT !.pc = "patch", !.todo = @ \ {v}, !.patches = {v}]

\* The volume is mounted, again if it was already, and the pod has to be told; an
\* error ends the volume's part of the sync.
AfterMount(w, v, ok) ==
    IF ok
      THEN [w EXCEPT !.pc = "patch", !.todo = @ \ {v}, !.patches = {v}]
      ELSE Returned([w EXCEPT !.todo = @ \ {v}], FALSE)

MountVolume(n) ==
    LET u == worker[n].pod.uid
    IN  /\ worker[n].pc = "sync"
        /\ \E v \in worker[n].todo \cap ready[u] :
              \/ /\ mounted' = [mounted EXCEPT ![u] = @ \cup {v}]
                 /\ worker' = [worker EXCEPT ![n] = AfterMount(@, v, TRUE)]
                 /\ UNCHANGED boundVars
              \/ /\ Fault
                 /\ mounted' \in {mounted, [mounted EXCEPT ![u] = @ \cup {v}]}
                 /\ worker' = [worker EXCEPT ![n] = AfterMount(@, v, FALSE)]
        /\ UNCHANGED <<pod, phase, ready, signal, cached, queued, sidecar>>

\* PrepareSetAnnotationPatch puts the version of the cached copy in the patch.
Accepted(seen) == pod.uid # 0 /\ pod.rv = seen.rv

\* The annotations in the patch: the cached ones and the new one.
PatchedAnnotations(w) == w.pod.annotated \cup w.patches

\* A merge patch, by name; one that changes nothing makes no version.
ApplyPatch(n) ==
    pod' = IF PatchedAnnotations(worker[n]) \subseteq pod.annotated
             THEN pod
             ELSE [pod EXCEPT !.annotated = @ \cup PatchedAnnotations(worker[n]), !.rv = @ + 1]

PatchAnswered(n, ok) ==
    worker' = [worker EXCEPT ![n] = Returned([@ EXCEPT !.pc = "sync", !.patches = {}], ok)]

\* The second of two volumes conflicts with the first one's annotation, since
\* both are prepared from the copy the sync started with.
AnnotateMounted(n) ==
    /\ worker[n].pc = "patch"
    /\ \/ /\ Accepted(worker[n].pod)
          /\ ApplyPatch(n)
          /\ PatchAnswered(n, TRUE)
          /\ UNCHANGED boundVars
       \/ /\ ~Accepted(worker[n].pod)
          /\ PatchAnswered(n, FALSE)
          /\ UNCHANGED <<pod, boundVars>>
       \/ /\ Fault
          /\ IF Accepted(worker[n].pod) THEN ApplyPatch(n) \/ UNCHANGED pod ELSE UNCHANGED pod
          /\ PatchAnswered(n, FALSE)
    /\ UNCHANGED <<nodeVars, signal, cached, queued, sidecar>>

\* Faulty variant: a sync with errors is not repeated.
ForgetAlways(n) == queued

\* Faulty variant: every sync is repeated.
Repeat(n) == queued \cup {n}

\* An error in one of the volumes puts the key back.
QueuedAfter(n) == IF worker[n].failed THEN queued \cup {n} ELSE queued

EndSync(n) ==
    /\ worker[n].pc = "sync" /\ worker[n].todo = {}
    /\ queued' = QueuedAfter(n)
    /\ worker' = [worker EXCEPT ![n] = IdleWorker]
    /\ UNCHANGED <<pod, nodeVars, signal, cached, sidecar, boundVars>>

\* The node-server dies and starts again, and lists its pods.
RestartManager(n) ==
    /\ Fault
    /\ cached' = [cached EXCEPT ![n] = OnNode(n)]
    /\ queued' = IF OnNode(n).uid = 0 THEN queued \ {n} ELSE queued \cup {n}
    /\ worker' = [worker EXCEPT ![n] = IdleWorker]
    /\ UNCHANGED <<pod, nodeVars, signal, sidecar>>

-----------------------------------------------------------------------------
(***************************************************************************)
(* The wait sidecar.                                                       *)
(***************************************************************************)

\* Validate refuses to start over a signal file.  The informer lists the pods of
\* the name, whatever their UID; the event of a pod queues the sync.
StartSidecar(u) ==
    /\ u \in Watched /\ phase[u] = "running" /\ sidecar[u].pc = "off"
    /\ u \notin signal
    /\ sidecar' = [sidecar EXCEPT ![u] = [pc |-> "idle", seen |-> pod, queued |-> pod.uid # 0]]
    /\ UNCHANGED <<pod, nodeVars, signal, managerVars, boundVars>>

\* Every event queues the sync.
ObserveOwnPod(u) ==
    /\ sidecar[u].pc # "off"
    /\ Differs(sidecar[u].seen, pod)
    /\ sidecar' = [sidecar EXCEPT ![u].seen = pod, ![u].queued = TRUE]
    /\ UNCHANGED <<pod, nodeVars, signal, managerVars, boundVars>>

\* Faulty variant: the first required annotation that is set will do.
EvaluateAnyAnnotation(seen) == Required \cap seen.annotated # {}

EvaluateAnnotations(seen) == Required \subseteq seen.annotated

\* A missing pod is an error, and the key is put back.
SyncSidecar(u) ==
    /\ sidecar[u].pc = "idle" /\ sidecar[u].queued
    /\ sidecar[u].seen.uid # 0
    /\ sidecar' = [sidecar EXCEPT ![u].queued = FALSE,
                     ![u].pc = IF EvaluateAnnotations(sidecar[u].seen) THEN "touch" ELSE "idle"]
    /\ UNCHANGED <<pod, nodeVars, signal, managerVars, boundVars>>

\* Creating the file may fail, also in closing it.
TouchFile(u) ==
    /\ sidecar[u].pc = "touch"
    /\ \/ /\ signal' = signal \cup {u}
          /\ sidecar' = [sidecar EXCEPT ![u].pc = "idle"]
          /\ UNCHANGED boundVars
       \/ /\ Fault
          /\ signal' \in {signal, signal \cup {u}}
          /\ sidecar' = [sidecar EXCEPT ![u].pc = "idle", ![u].queued = TRUE]
    /\ UNCHANGED <<pod, nodeVars, managerVars>>

\* The container dies; the files of the pod stay.
CrashSidecar(u) ==
    /\ sidecar[u].pc # "off"
    /\ Fault
    /\ sidecar' = [sidecar EXCEPT ![u] = NoSidecar]
    /\ UNCHANGED <<pod, nodeVars, signal, managerVars>>

-----------------------------------------------------------------------------
Environment ==
    \/ CreatePod \/ UpdatePod \/ DeletePod \/ RemovePod
    \/ \E u \in Uids : StopContainers(u) \/ TearDown(u)
    \/ \E u \in Uids, v \in Volumes : VolumeReady(u, v)

Syncing(n) ==
    SyncPod(n) \/ SkipVolume(n) \/ MountVolume(n) \/ AnnotateMounted(n) \/ EndSync(n)

Waiting(u) == StartSidecar(u) \/ SyncSidecar(u) \/ TouchFile(u)

Next ==
    \/ Environment
    \/ \E n \in Nodes : ObservePod(n) \/ Syncing(n) \/ RestartManager(n)
    \/ \E u \in Uids : ObserveOwnPod(u) \/ Waiting(u) \/ CrashSidecar(u)

Spec == Init /\ [][Next]_vars

\* Informers deliver, the workers serve their queues, the kubelet starts a
\* container again that has exited.
Fairness ==
    /\ \A n \in Nodes : WF_vars(ObservePod(n)) /\ WF_vars(Syncing(n))
    /\ \A u \in Uids : WF_vars(ObserveOwnPod(u)) /\ WF_vars(Waiting(u))

FairSpec == Spec /\ Fairness

-----------------------------------------------------------------------------
(***************************************************************************)
(* Properties.                                                             *)
(***************************************************************************)

\* The sidecar's help says "Wait for all proxy Volumes used by the host pod to be
\* mounted": while a pod has its signal file its volumes are mounted, whichever
\* pods had the name before or get it after (wait/controller.go:88-101, wait.go:159).
SignalledIsMounted == \A u \in signal : Required \subseteq mounted[u]

\* The annotations of a pod speak of its own mounts, though the volume manager
\* patches by name and may have mounted for the pod's predecessor when it does:
\* sync_volume.go:174-184, annotations.go:27-32.
AnnotatedForItself ==
    pod.uid # 0 /\ phase[pod.uid] = "running" => pod.annotated \subseteq mounted[pod.uid]

Stays(u) == pod.uid = u /\ ~pod.deleting

\* No wake-up of the volume manager is lost: a pod with a volume that is ready and
\* not annotated is queued or being synced, or an event on its way will queue it,
\* though a sync passes over what is not ready, gives up at a conflict with its own
\* patch and works on an old copy: sync.go:46-131, sync_volume.go:174-187.
UnannotatedPodIsQueued ==
    \A u \in Uids :
        LET n == NodeOf[u]
        IN  Stays(u) /\ ~(ready[u] \subseteq pod.annotated)
              => n \in queued \/ worker[n].pc # "idle" \/ Differs(cached[n], OnNode(n))

\* Nor one of the sidecar: while the pod is annotated and the file is not there,
\* the sidecar is queued or about to create it, or the event is on its way:
\* wait/controller.go:63-101.
UnsignalledPodIsQueued ==
    \A u \in Uids :
        /\ sidecar[u].pc # "off" /\ u \notin signal
        /\ pod.uid = u /\ Required \subseteq pod.annotated
        => sidecar[u].queued \/ sidecar[u].pc = "touch" \/ Differs(sidecar[u].seen, pod)

\* A pod that stays and has all its volumes ready is signalled, though each
\* annotation makes the next one conflict and either process may die on the way.
PodIsSignalled ==
    \A u \in Watched : <>[](Stays(u) /\ ready[u] = Volumes) => <>(u \in signal)

\* Its volume manager then comes to rest: its own patches do not wake it forever.
SyncsSettle ==
    \A u \in Uids :
        LET n == NodeOf[u]
        IN  <>[](Stays(u) /\ ready[u] = Volumes)
               => <>[](n \notin queued /\ worker[n].pc = "idle")

=============================================================================
