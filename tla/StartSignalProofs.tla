------------------------- MODULE StartSignalProofs -------------------------
(***************************************************************************)
(* Proofs about StartSignal: the annotations of a pod are its own, and its *)
(* signal file means that its volumes are mounted.                         *)
(***************************************************************************)
EXTENDS StartSignal, TLAPS

LEMMA NoPodType == \A rv \in Nat : NoPod(rv) \in Pod
  BY BoundAssumption DEF NoPod, Pod

LEMMA OnNodeType == pod \in Pod => \A n \in Nodes : OnNode(n) \in Pod
  BY NoPodType DEF OnNode, Pod

LEMMA IdleTypes == IdleWorker \in Worker /\ NoSidecar \in Sidecar
  BY NoPodType DEF IdleWorker, NoSidecar, Worker, Sidecar

LEMMA ReturnedType == \A w \in Worker, ok \in BOOLEAN : Returned(w, ok) \in Worker
  BY DEF Returned, Worker

LEMMA InitType == Init => TypeOK
  BY NoPodType, IdleTypes, BoundAssumption DEF Init, TypeOK

LEMMA NextType == TypeOK /\ [Next]_vars => TypeOK'
<1> SUFFICES ASSUME TypeOK, [Next]_vars PROVE TypeOK'
  OBVIOUS
<1> USE DEF TypeOK
<1> USE NodeOfAssumption, RequiredAssumption, BoundAssumption
<1>1. CASE CreatePod
  <2>1. made + 1 \in Uids
    BY <1>1 DEF CreatePod, Uids
  <2>2. pod' = [uid |-> made + 1, rv |-> pod.rv + 1, annotated |-> {}, deleting |-> FALSE]
    BY <1>1 DEF CreatePod, NoPod
  <2>3. pod' \in Pod
    BY <2>1, <2>2 DEF Pod, Uids
  <2> QED
    BY <1>1, <2>1, <2>3 DEF CreatePod, managerVars
<1>2. CASE UpdatePod
  <2>1. pod' \in Pod
    BY <1>2 DEF UpdatePod, Pod
  <2> QED
    BY <1>2, <2>1 DEF UpdatePod, nodeVars, managerVars
<1>3. CASE DeletePod
  <2>1. pod' \in Pod
    <3>1. pod' = [uid |-> pod.uid, rv |-> pod.rv + 1, annotated |-> pod.annotated, deleting |-> TRUE]
      BY <1>3 DEF DeletePod, Pod
    <3> QED
      BY <3>1 DEF Pod
  <2> QED
    BY <1>3, <2>1 DEF DeletePod, nodeVars, managerVars, boundVars
<1>4. CASE RemovePod
  BY <1>4, NoPodType DEF RemovePod, Pod, nodeVars, managerVars, boundVars
<1>5. ASSUME NEW u \in Uids, StopContainers(u) PROVE TypeOK'
  BY <1>5, IdleTypes DEF StopContainers, managerVars, boundVars
<1>6. ASSUME NEW u \in Uids, TearDown(u) PROVE TypeOK'
  BY <1>6 DEF TearDown, managerVars, boundVars
<1>7. ASSUME NEW u \in Uids, NEW v \in Volumes, VolumeReady(u, v) PROVE TypeOK'
  BY <1>7 DEF VolumeReady, boundVars
<1>8. ASSUME NEW n \in Nodes, ObservePod(n) PROVE TypeOK'
  BY <1>8, OnNodeType DEF ObservePod, nodeVars, boundVars
<1>9. ASSUME NEW n \in Nodes, SyncPod(n) PROVE TypeOK'
  <2>1. [IdleWorker EXCEPT !.pc = "sync", !.pod = cached[n], !.todo = Volumes] \in Worker
    BY IdleTypes DEF Worker, IdleWorker
  <2> QED
    BY <1>9, <2>1 DEF SyncPod, nodeVars, boundVars
<1>10. ASSUME NEW n \in Nodes, SkipVolume(n) PROVE TypeOK'
  <2>1. PICK v \in worker[n].todo \ ready[worker[n].pod.uid], ok \in BOOLEAN :
          worker' = [worker EXCEPT ![n] = Returned([worker[n] EXCEPT !.todo = @ \ {v}], ok)]
    BY <1>10 DEF SkipVolume
  <2>2. [worker[n] EXCEPT !.todo = @ \ {v}] \in Worker
    BY DEF Worker
  <2>3. worker' \in [Nodes -> Worker]
    <3>1. Returned([worker[n] EXCEPT !.todo = @ \ {v}], ok) \in Worker
      BY <2>2, ReturnedType
    <3> QED
      BY <2>1, <3>1
  <2> QED
    BY <1>10, <2>3 DEF SkipVolume, nodeVars, boundVars
<1>11. ASSUME NEW n \in Nodes, MountVolume(n) PROVE TypeOK'
  <2> DEFINE u == worker[n].pod.uid
  <2>1. PICK v \in worker[n].todo \cap ready[u] :
          /\ mounted' \in {mounted, [mounted EXCEPT ![u] = @ \cup {v}]}
          /\ \E ok \in BOOLEAN : worker' = [worker EXCEPT ![n] = AfterMount(@, v, ok)]
          /\ UNCHANGED boundVars \/ Fault
    BY <1>11 DEF MountVolume
  <2>2. PICK ok \in BOOLEAN : worker' = [worker EXCEPT ![n] = AfterMount(@, v, ok)]
    BY <2>1
  <2>3. v \in Volumes
    BY DEF Worker
  <2>4. AfterMount(worker[n], v, ok) \in Worker
    <3>1. [worker[n] EXCEPT !.todo = @ \ {v}] \in Worker
      BY DEF Worker
    <3>2. [worker[n] EXCEPT !.pc = "patch", !.todo = @ \ {v}, !.patches = {v}] \in Worker
      BY <2>3 DEF Worker
    <3> QED
      BY <3>1, <3>2, ReturnedType DEF AfterMount
  <2>5. mounted' \in [Uids -> SUBSET Volumes]
    BY <2>1, <2>3
  <2>6. made' \in 0..MaxPods /\ updates' \in 0..MaxUpdates /\ faults' \in 0..MaxFaults
    BY <2>1 DEF Fault, boundVars
  <2> QED
    BY <1>11, <2>2, <2>4, <2>5, <2>6 DEF MountVolume
<1>12. ASSUME NEW n \in Nodes, AnnotateMounted(n) PROVE TypeOK'
  <2>1. PatchedAnnotations(worker[n]) \subseteq Volumes
    BY DEF PatchedAnnotations, Worker, Pod
  <2>2. ASSUME ApplyPatch(n) PROVE pod' \in Pod
    <3>1. CASE pod' = pod
      BY <3>1
    <3>2. CASE pod' = [pod EXCEPT !.annotated = @ \cup PatchedAnnotations(worker[n]), !.rv = @ + 1]
      <4>1. pod' = [uid |-> pod.uid, rv |-> pod.rv + 1,
                    annotated |-> pod.annotated \cup PatchedAnnotations(worker[n]),
                    deleting |-> pod.deleting]
        BY <3>2 DEF Pod
      <4> QED
        BY <2>1, <4>1 DEF Pod
    <3> QED
      BY <2>2, <3>1, <3>2 DEF ApplyPatch
  <2>3. pod' \in Pod
    BY <1>12, <2>2 DEF AnnotateMounted
  <2>4. PICK ok \in BOOLEAN : PatchAnswered(n, ok)
    BY <1>12 DEF AnnotateMounted
  <2>5. [worker[n] EXCEPT !.pc = "sync", !.patches = {}] \in Worker
    BY DEF Worker
  <2>6. worker' \in [Nodes -> Worker]
    BY <2>4, <2>5, ReturnedType DEF PatchAnswered
  <2>7. UNCHANGED boundVars \/ Fault
    BY <1>12 DEF AnnotateMounted
  <2>8. made' \in 0..MaxPods /\ updates' \in 0..MaxUpdates /\ faults' \in 0..MaxFaults
    BY <2>7 DEF Fault, boundVars
  <2> QED
    BY <1>12, <2>3, <2>6, <2>8 DEF AnnotateMounted, nodeVars
<1>13. ASSUME NEW n \in Nodes, EndSync(n) PROVE TypeOK'
  BY <1>13, IdleTypes DEF EndSync, QueuedAfter, nodeVars, boundVars
<1>14. ASSUME NEW n \in Nodes, RestartManager(n) PROVE TypeOK'
  BY <1>14, IdleTypes, OnNodeType DEF RestartManager, Fault, nodeVars
<1>15. ASSUME NEW u \in Uids, StartSidecar(u) PROVE TypeOK'
  <2>1. [pc |-> "idle", seen |-> pod, queued |-> pod.uid # 0] \in Sidecar
    BY DEF Sidecar
  <2> QED
    BY <1>15, <2>1 DEF StartSidecar, nodeVars, managerVars, boundVars
<1>16. ASSUME NEW u \in Uids, ObserveOwnPod(u) PROVE TypeOK'
  BY <1>16 DEF ObserveOwnPod, Sidecar, nodeVars, managerVars, boundVars
<1>17. ASSUME NEW u \in Uids, SyncSidecar(u) PROVE TypeOK'
  BY <1>17 DEF SyncSidecar, Sidecar, nodeVars, managerVars, boundVars
<1>18. ASSUME NEW u \in Uids, TouchFile(u) PROVE TypeOK'
  <2>1. UNCHANGED boundVars \/ Fault
    BY <1>18 DEF TouchFile
  <2>2. made' \in 0..MaxPods /\ updates' \in 0..MaxUpdates /\ faults' \in 0..MaxFaults
    BY <2>1 DEF Fault, boundVars
  <2>3. sidecar' \in [Uids -> Sidecar]
    BY <1>18 DEF TouchFile, Sidecar
  <2>4. signal' \subseteq Uids
    BY <1>18 DEF TouchFile
  <2> QED
    BY <1>18, <2>2, <2>3, <2>4 DEF TouchFile, nodeVars, managerVars
<1>19. ASSUME NEW u \in Uids, CrashSidecar(u) PROVE TypeOK'
  BY <1>19, IdleTypes DEF CrashSidecar, Fault, nodeVars, managerVars
<1>20. CASE UNCHANGED vars
  BY <1>20 DEF vars, nodeVars, managerVars, boundVars
<1> QED
  BY <1>1, <1>2, <1>3, <1>4, <1>5, <1>6, <1>7, <1>8, <1>9, <1>10, <1>11, <1>12, <1>13,
     <1>14, <1>15, <1>16, <1>17, <1>18, <1>19, <1>20 DEF Next, Environment, Syncing, Waiting

(***************************************************************************)
(* Type correctness: the variables of the volume managers and the sidecars *)
(* keep their types.                                                       *)
(***************************************************************************)
THEOREM TypeCorrect == Spec => []TypeOK
  BY InitType, NextType, PTL DEF Spec

-----------------------------------------------------------------------------
(***************************************************************************)
(* The annotations.  A copy that has the pod's version is the pod, and     *)
(* what a sync is about to annotate is mounted for the pod it started      *)
(* with, as long as that pod is there: so a patch that is accepted tells   *)
(* the truth of the pod it reaches.                                        *)
(***************************************************************************)
CopyOf(seen, current) ==
    /\ seen.rv <= current.rv
    /\ seen.uid # 0 /\ current.uid # 0 /\ seen.rv = current.rv => seen = current

CopiesAreVersions ==
    \A n \in Nodes : CopyOf(cached[n], pod) /\ CopyOf(worker[n].pod, pod)

PatchesAreMounted ==
    \A n \in Nodes :
        LET u == worker[n].pod.uid
        IN  worker[n].pc # "idle" =>
              u # 0 /\ (phase[u] = "gone" \/ worker[n].patches \subseteq mounted[u])

PhasesKnown == \A u \in Uids : phase[u] # "none" <=> u <= made

AnnotatedInv ==
    TypeOK /\ PhasesKnown /\ CopiesAreVersions /\ PatchesAreMounted /\ AnnotatedForItself

LEMMA InitAnnotated == Init => AnnotatedInv
<1> SUFFICES ASSUME Init PROVE AnnotatedInv
  OBVIOUS
<1>1. TypeOK
  BY InitType
<1>2. CopiesAreVersions
  <2>1. pod = NoPod(0) /\ NoPod(0).rv = 0 /\ 0 <= 0
    BY DEF Init, NoPod
  <2>2. \A n \in Nodes : cached[n] = NoPod(0) /\ worker[n].pod = NoPod(0)
    BY DEF Init, IdleWorker
  <2> QED
    BY <2>1, <2>2 DEF CopiesAreVersions, CopyOf
<1>3. PhasesKnown /\ PatchesAreMounted /\ AnnotatedForItself
  BY DEF Init, PhasesKnown, PatchesAreMounted, AnnotatedForItself, NoPod, IdleWorker, Uids
<1> QED
  BY <1>1, <1>2, <1>3 DEF AnnotatedInv

\* A step keeps the pod, gives it a new version, or removes it.
LEMMA Versions ==
    ASSUME TypeOK, [Next]_vars
    PROVE  pod' = pod \/ pod'.rv > pod.rv \/ (pod'.uid = 0 /\ pod'.rv = pod.rv)
<1> DEFINE Version == pod' = pod \/ pod'.rv > pod.rv \/ (pod'.uid = 0 /\ pod'.rv = pod.rv)
<1>0. pod \in Pod /\ pod.rv \in Nat
  BY DEF TypeOK, Pod
<1>1. CASE CreatePod
  BY <1>0, <1>1 DEF CreatePod, NoPod
<1>2. CASE UpdatePod
  BY <1>0, <1>2 DEF UpdatePod, Pod
<1>3. CASE DeletePod
  BY <1>0, <1>3 DEF DeletePod, Pod
<1>4. CASE RemovePod
  BY <1>0, <1>4 DEF RemovePod, NoPod
<1>5. ASSUME NEW n \in Nodes, AnnotateMounted(n) PROVE Version
  <2>1. CASE ApplyPatch(n)
    BY <1>0, <2>1 DEF ApplyPatch, Pod
  <2> QED
    BY <1>5, <2>1 DEF AnnotateMounted
<1>6. ASSUME NEW n \in Nodes,
             ObservePod(n) \/ SyncPod(n) \/ SkipVolume(n) \/ MountVolume(n)
               \/ EndSync(n) \/ RestartManager(n)
      PROVE  Version
  BY <1>6 DEF ObservePod, SyncPod, SkipVolume, MountVolume, EndSync, RestartManager
<1>7. ASSUME NEW u \in Uids, ObserveOwnPod(u) \/ Waiting(u) \/ CrashSidecar(u) PROVE Version
  BY <1>7 DEF ObserveOwnPod, Waiting, StartSidecar, SyncSidecar, TouchFile, CrashSidecar
<1>8. ASSUME NEW u \in Uids, StopContainers(u) \/ TearDown(u) PROVE Version
  BY <1>8 DEF StopContainers, TearDown
<1>9. ASSUME NEW u \in Uids, NEW v \in Volumes, VolumeReady(u, v) PROVE Version
  BY <1>9 DEF VolumeReady
<1>10. CASE UNCHANGED vars
  BY <1>10 DEF vars
<1> QED
  BY <1>1, <1>2, <1>3, <1>4, <1>5, <1>6, <1>7, <1>8, <1>9, <1>10 DEF Next, Environment, Syncing

\* So a copy of the pod stays one.
LEMMA CopyKept ==
    ASSUME TypeOK, TypeOK', [Next]_vars, NEW seen \in Pod, CopyOf(seen, pod)
    PROVE  CopyOf(seen, pod')
<1>1. seen.rv \in Nat /\ pod.rv \in Nat /\ pod'.rv \in Nat
  BY DEF TypeOK, Pod
<1> QED
  BY <1>1, Versions DEF CopyOf

LEMMA CopyListed == ASSUME TypeOK, NEW n \in Nodes
                    PROVE  CopyOf(OnNode(n), pod) /\ CopyOf(NoPod(0), pod)
<1>1. pod.rv \in Nat
  BY DEF TypeOK, Pod
<1> QED
  BY <1>1 DEF CopyOf, OnNode, NoPod

\* Where the copies come from.
LEMMA CopySources ==
    ASSUME TypeOK, [Next]_vars, NEW m \in Nodes
    PROVE  /\ cached'[m] \in {cached[m], OnNode(m)}
           /\ worker'[m].pod \in {worker[m].pod, cached[m], NoPod(0)}
<1> DEFINE Sources == /\ cached'[m] \in {cached[m], OnNode(m)}
                      /\ worker'[m].pod \in {worker[m].pod, cached[m], NoPod(0)}
<1>0. cached \in [Nodes -> Pod] /\ worker \in [Nodes -> Worker]
  BY DEF TypeOK
<1>1. CASE UNCHANGED managerVars
  BY <1>1 DEF managerVars
<1>2. ASSUME NEW n \in Nodes, ObservePod(n) PROVE Sources
  BY <1>0, <1>2 DEF ObservePod
<1>3. ASSUME NEW n \in Nodes, SyncPod(n) PROVE Sources
  BY <1>0, <1>3 DEF SyncPod, IdleWorker
<1>4. ASSUME NEW n \in Nodes, SkipVolume(n) PROVE Sources
  BY <1>0, <1>4 DEF SkipVolume, Returned, Worker
<1>5. ASSUME NEW n \in Nodes, MountVolume(n) PROVE Sources
  <2>1. PICK v \in worker[n].todo, ok \in BOOLEAN : worker' = [worker EXCEPT ![n] = AfterMount(@, v, ok)]
    BY <1>5 DEF MountVolume
  <2>2. AfterMount(worker[n], v, ok).pod = worker[n].pod
    BY <1>0 DEF AfterMount, Returned, Worker
  <2> QED
    BY <1>0, <1>5, <2>1, <2>2 DEF MountVolume
<1>6. ASSUME NEW n \in Nodes, AnnotateMounted(n) PROVE Sources
  <2>1. PICK ok \in BOOLEAN : PatchAnswered(n, ok)
    BY <1>6 DEF AnnotateMounted
  <2>2. Returned([worker[n] EXCEPT !.pc = "sync", !.patches = {}], ok).pod = worker[n].pod
    BY <1>0 DEF Returned, Worker
  <2> QED
    BY <1>0, <1>6, <2>1, <2>2 DEF AnnotateMounted, PatchAnswered
<1>7. ASSUME NEW n \in Nodes, EndSync(n) PROVE Sources
  BY <1>0, <1>7 DEF EndSync, IdleWorker
<1>8. ASSUME NEW n \in Nodes, RestartManager(n) PROVE Sources
  BY <1>0, <1>8 DEF RestartManager, IdleWorker
<1>9. CASE CreatePod \/ UpdatePod \/ DeletePod \/ RemovePod
  BY <1>9, <1>1 DEF CreatePod, UpdatePod, DeletePod, RemovePod
<1>10. ASSUME NEW u \in Uids,
              StopContainers(u) \/ TearDown(u) \/ ObserveOwnPod(u) \/ Waiting(u) \/ CrashSidecar(u)
       PROVE  Sources
  BY <1>10, <1>1 DEF StopContainers, TearDown, ObserveOwnPod, Waiting, StartSidecar, SyncSidecar,
                     TouchFile, CrashSidecar
<1>11. ASSUME NEW u \in Uids, NEW v \in Volumes, VolumeReady(u, v) PROVE Sources
  BY <1>11 DEF VolumeReady
<1>12. CASE UNCHANGED vars
  BY <1>12, <1>1 DEF vars
<1> QED
  BY <1>2, <1>3, <1>4, <1>5, <1>6, <1>7, <1>8, <1>9, <1>10, <1>11, <1>12
  DEF Next, Environment, Syncing

LEMMA CopiesKept ==
    ASSUME TypeOK, TypeOK', CopiesAreVersions, [Next]_vars
    PROVE  CopiesAreVersions'
<1> SUFFICES ASSUME NEW n \in Nodes
             PROVE  CopyOf(cached'[n], pod') /\ CopyOf(worker'[n].pod, pod')
  BY DEF CopiesAreVersions
<1>1. CopyOf(cached[n], pod) /\ CopyOf(worker[n].pod, pod)
  BY DEF CopiesAreVersions
<1>2. CopyOf(OnNode(n), pod) /\ CopyOf(NoPod(0), pod)
  BY CopyListed
<1>3. cached[n] \in Pod /\ worker[n].pod \in Pod /\ OnNode(n) \in Pod /\ NoPod(0) \in Pod
  BY OnNodeType, NoPodType DEF TypeOK, Worker
<1>4. /\ CopyOf(cached[n], pod') /\ CopyOf(worker[n].pod, pod')
      /\ CopyOf(OnNode(n), pod') /\ CopyOf(NoPod(0), pod')
  BY <1>1, <1>2, <1>3, CopyKept
<1> QED
  BY <1>4, CopySources

\* What is mounted stays mounted until the pod is gone, and a pod comes to an end.
LEMMA Lifecycle ==
    ASSUME TypeOK, PhasesKnown, [Next]_vars
    PROVE  /\ PhasesKnown'
           /\ \A u \in Uids :
                /\ phase[u] = "gone" => phase'[u] = "gone"
                /\ phase'[u] = "gone" \/ mounted[u] \subseteq mounted'[u]
                /\ phase'[u] = "running" /\ ~CreatePod => phase[u] = "running"
<1> USE DEF TypeOK, PhasesKnown, Uids
<1> DEFINE Course == /\ PhasesKnown'
                     /\ \A u \in Uids :
                          /\ phase[u] = "gone" => phase'[u] = "gone"
                          /\ phase'[u] = "gone" \/ mounted[u] \subseteq mounted'[u]
                          /\ phase'[u] = "running" /\ ~CreatePod => phase[u] = "running"
<1>1. CASE UNCHANGED <<phase, mounted, made>>
  BY <1>1
<1>2. CASE CreatePod
  BY <1>2 DEF CreatePod
<1>3. CASE UpdatePod \/ DeletePod \/ RemovePod
  BY <1>1, <1>3 DEF UpdatePod, DeletePod, RemovePod, nodeVars, boundVars
<1>4. ASSUME NEW u \in Uids, StopContainers(u) \/ TearDown(u) PROVE Course
  BY <1>4 DEF StopContainers, TearDown, boundVars
<1>5. ASSUME NEW u \in Uids, NEW v \in Volumes, VolumeReady(u, v) PROVE Course
  BY <1>1, <1>5 DEF VolumeReady, boundVars
<1>6. ASSUME NEW n \in Nodes, MountVolume(n) PROVE Course
  <2>1. UNCHANGED <<phase, made>>
    BY <1>6 DEF MountVolume, boundVars, Fault
  <2>2. \A u \in Uids : mounted[u] \subseteq mounted'[u]
    BY <1>6 DEF MountVolume
  <2> QED
    BY <2>1, <2>2
<1>7. ASSUME NEW n \in Nodes,
             ObservePod(n) \/ SyncPod(n) \/ SkipVolume(n) \/ AnnotateMounted(n)
               \/ EndSync(n) \/ RestartManager(n)
      PROVE  Course
  BY <1>1, <1>7 DEF ObservePod, SyncPod, SkipVolume, AnnotateMounted, EndSync, RestartManager,
                    nodeVars, boundVars, Fault
<1>8. ASSUME NEW u \in Uids, ObserveOwnPod(u) \/ Waiting(u) \/ CrashSidecar(u) PROVE Course
  BY <1>1, <1>8 DEF ObserveOwnPod, Waiting, StartSidecar, SyncSidecar, TouchFile, CrashSidecar,
                    nodeVars, boundVars, Fault
<1>9. CASE UNCHANGED vars
  BY <1>1, <1>9 DEF vars, nodeVars, boundVars
<1> QED
  BY <1>2, <1>3, <1>4, <1>5, <1>6, <1>7, <1>8, <1>9 DEF Next, Environment, Syncing

\* A sync keeps its pod, or starts or ends without a patch.
LEMMA Syncs ==
    ASSUME AnnotatedInv, [Next]_vars, NEW m \in Nodes
    PROVE  \/ worker'[m].pc = "idle"
           \/ worker'[m].pod.uid # 0 /\ worker'[m].patches = {}
           \/ /\ worker[m].pc # "idle"
              /\ worker'[m].pod = worker[m].pod
              /\ \/ worker'[m].patches \subseteq worker[m].patches
                 \/ worker'[m].patches \subseteq mounted'[worker[m].pod.uid]
<1> DEFINE u == worker[m].pod.uid
           Kept == \/ worker'[m].pc = "idle"
                   \/ worker'[m].pod.uid # 0 /\ worker'[m].patches = {}
                   \/ /\ worker[m].pc # "idle"
                      /\ worker'[m].pod = worker[m].pod
                      /\ \/ worker'[m].patches \subseteq worker[m].patches
                         \/ worker'[m].patches \subseteq mounted'[u]
<1>0. worker \in [Nodes -> Worker] /\ (worker[m].pc # "idle" => u \in Uids)
  BY DEF AnnotatedInv, TypeOK, PatchesAreMounted, Worker, Pod, Uids
<1>1. CASE worker' = worker
  BY <1>0, <1>1
<1>2. ASSUME NEW n \in Nodes, SyncPod(n) PROVE Kept
  BY <1>0, <1>1, <1>2 DEF SyncPod, IdleWorker
<1>3. ASSUME NEW n \in Nodes, SkipVolume(n) PROVE Kept
  BY <1>0, <1>3 DEF SkipVolume, Returned, Worker
<1>4. ASSUME NEW n \in Nodes, MountVolume(n) PROVE Kept
  <2>1. CASE m # n
    BY <1>0, <1>4, <2>1 DEF MountVolume
  <2>2. CASE m = n
    <3>1. PICK v \in worker[n].todo, ok \in BOOLEAN :
             /\ worker' = [worker EXCEPT ![n] = AfterMount(@, v, ok)]
             /\ ok => mounted' = [mounted EXCEPT ![u] = @ \cup {v}]
      BY <1>4, <2>2 DEF MountVolume
    <3>2. worker[m].pc = "sync" /\ u \in Uids
      BY <1>0, <1>4, <2>2 DEF MountVolume
    <3>3. CASE ok
      <4>1. v \in mounted'[u]
        BY <3>1, <3>2, <3>3 DEF AnnotatedInv, TypeOK
      <4>2. worker'[m] = [worker[m] EXCEPT !.pc = "patch", !.todo = @ \ {v}, !.patches = {v}]
        BY <1>0, <2>2, <3>1, <3>3 DEF AfterMount
      <4> QED
        BY <1>0, <3>2, <4>1, <4>2 DEF Worker
    <3>4. CASE ~ok
      BY <1>0, <2>2, <3>1, <3>2, <3>4 DEF AfterMount, Returned, Worker
    <3> QED
      BY <3>3, <3>4
  <2> QED
    BY <2>1, <2>2
<1>5. ASSUME NEW n \in Nodes, AnnotateMounted(n) PROVE Kept
  <2>1. PICK ok \in BOOLEAN : PatchAnswered(n, ok)
    BY <1>5 DEF AnnotateMounted
  <2>2. worker[n].pc = "patch"
    BY <1>5 DEF AnnotateMounted
  <2> QED
    BY <1>0, <2>1, <2>2 DEF PatchAnswered, Returned, Worker
<1>6. ASSUME NEW n \in Nodes, EndSync(n) \/ RestartManager(n) PROVE Kept
  BY <1>0, <1>6 DEF EndSync, RestartManager, IdleWorker
<1>7. ASSUME NEW n \in Nodes, ObservePod(n) PROVE Kept
  BY <1>1, <1>7 DEF ObservePod
<1>8. CASE Environment \/ UNCHANGED vars
  BY <1>1, <1>8 DEF Environment, CreatePod, UpdatePod, DeletePod, RemovePod, StopContainers,
                    TearDown, VolumeReady, vars, managerVars
<1>9. ASSUME NEW w \in Uids, ObserveOwnPod(w) \/ Waiting(w) \/ CrashSidecar(w) PROVE Kept
  BY <1>1, <1>9 DEF ObserveOwnPod, Waiting, StartSidecar, SyncSidecar, TouchFile, CrashSidecar,
                    managerVars
<1> QED
  BY <1>2, <1>3, <1>4, <1>5, <1>6, <1>7, <1>8, <1>9 DEF Next, Syncing

LEMMA PatchesKept ==
    ASSUME AnnotatedInv, [Next]_vars
    PROVE  PatchesAreMounted'
<1> SUFFICES ASSUME NEW n \in Nodes, worker'[n].pc # "idle"
             PROVE  LET u == worker'[n].pod.uid
                    IN  u # 0 /\ (phase'[u] = "gone" \/ worker'[n].patches \subseteq mounted'[u])
  BY DEF PatchesAreMounted
<1> DEFINE u == worker[n].pod.uid
<1>1. CASE worker'[n].pod.uid # 0 /\ worker'[n].patches = {}
  BY <1>1
<1>2. CASE /\ worker[n].pc # "idle" /\ worker'[n].pod = worker[n].pod
           /\ \/ worker'[n].patches \subseteq worker[n].patches
              \/ worker'[n].patches \subseteq mounted'[u]
  <2>1. u \in Uids /\ (phase[u] = "gone" \/ worker[n].patches \subseteq mounted[u])
    BY <1>2 DEF AnnotatedInv, TypeOK, PatchesAreMounted, Worker, Pod, Uids
  <2>2. /\ phase[u] = "gone" => phase'[u] = "gone"
        /\ phase'[u] = "gone" \/ mounted[u] \subseteq mounted'[u]
    BY <2>1, Lifecycle DEF AnnotatedInv
  <2>3. u # 0 /\ worker'[n].pod.uid = u
    BY <1>2, <2>1 DEF Uids
  <2>4. CASE worker'[n].patches \subseteq worker[n].patches
    BY <2>1, <2>2, <2>3, <2>4
  <2>5. CASE worker'[n].patches \subseteq mounted'[u]
    BY <2>3, <2>5
  <2> QED
    BY <1>2, <2>4, <2>5
<1> QED
  BY <1>1, <1>2, Syncs

\* Only an accepted patch annotates, and only what is mounted.
LEMMA Annotations ==
    ASSUME AnnotatedInv, TypeOK', [Next]_vars, pod'.uid # 0
    PROVE  \/ CreatePod
           \/ /\ pod'.uid = pod.uid
              /\ \/ phase[pod.uid] = "gone"
                 \/ pod'.annotated \subseteq pod.annotated \cup mounted[pod.uid]
<1> DEFINE Told == /\ pod'.uid = pod.uid
                   /\ \/ phase[pod.uid] = "gone"
                      \/ pod'.annotated \subseteq pod.annotated \cup mounted[pod.uid]
<1>0. pod \in Pod
  BY DEF AnnotatedInv, TypeOK
<1>1. CASE pod' = pod
  BY <1>1
<1>2. CASE UpdatePod \/ DeletePod
  BY <1>0, <1>2 DEF UpdatePod, DeletePod, Pod
<1>3. CASE RemovePod
  BY <1>3 DEF RemovePod, NoPod
<1>4. ASSUME NEW n \in Nodes, AnnotateMounted(n) PROVE Told
  <2>1. CASE Accepted(worker[n].pod) /\ ApplyPatch(n)
    <3>1. worker[n].pc = "patch"
      BY <1>4 DEF AnnotateMounted
    <3>2. worker[n].pod.uid # 0
      BY <3>1 DEF AnnotatedInv, PatchesAreMounted
    <3>3. worker[n].pod = pod
      BY <2>1, <3>2 DEF Accepted, AnnotatedInv, CopiesAreVersions, CopyOf
    <3>4. PatchedAnnotations(worker[n]) = pod.annotated \cup worker[n].patches
      BY <3>3 DEF PatchedAnnotations
    <3>5. phase[pod.uid] = "gone" \/ worker[n].patches \subseteq mounted[pod.uid]
      BY <3>1, <3>3 DEF AnnotatedInv, PatchesAreMounted
    <3>6. pod'.uid = pod.uid /\ pod'.annotated \subseteq pod.annotated \cup PatchedAnnotations(worker[n])
      BY <1>0, <2>1 DEF ApplyPatch, Pod
    <3> QED
      BY <3>4, <3>5, <3>6
  <2> QED
    BY <1>1, <1>4, <2>1 DEF AnnotateMounted
<1>5. ASSUME NEW n \in Nodes,
             ObservePod(n) \/ SyncPod(n) \/ SkipVolume(n) \/ MountVolume(n)
               \/ EndSync(n) \/ RestartManager(n)
      PROVE  Told
  BY <1>1, <1>5 DEF ObservePod, SyncPod, SkipVolume, MountVolume, EndSync, RestartManager
<1>6. ASSUME NEW u \in Uids,
             StopContainers(u) \/ TearDown(u) \/ ObserveOwnPod(u) \/ Waiting(u) \/ CrashSidecar(u)
      PROVE  Told
  BY <1>1, <1>6 DEF StopContainers, TearDown, ObserveOwnPod, Waiting, StartSidecar, SyncSidecar,
                    TouchFile, CrashSidecar
<1>7. ASSUME NEW u \in Uids, NEW v \in Volumes, VolumeReady(u, v) PROVE Told
  BY <1>1, <1>7 DEF VolumeReady
<1>8. CASE UNCHANGED vars
  BY <1>1, <1>8 DEF vars
<1> QED
  BY <1>2, <1>3, <1>4, <1>5, <1>6, <1>7, <1>8 DEF Next, Environment, Syncing

LEMMA NextAnnotated == AnnotatedInv /\ [Next]_vars => AnnotatedInv'
<1> SUFFICES ASSUME AnnotatedInv, [Next]_vars PROVE AnnotatedInv'
  OBVIOUS
<1>1. TypeOK'
  BY NextType DEF AnnotatedInv
<1>2. CopiesAreVersions'
  BY <1>1, CopiesKept DEF AnnotatedInv
<1>3. PatchesAreMounted'
  BY PatchesKept
<1>4. PhasesKnown'
  BY Lifecycle DEF AnnotatedInv
<1>5. AnnotatedForItself'
  <2> SUFFICES ASSUME pod'.uid # 0, phase'[pod'.uid] = "running"
               PROVE  pod'.annotated \subseteq mounted'[pod'.uid]
    BY DEF AnnotatedForItself
  <2>1. CASE CreatePod
    BY <2>1 DEF CreatePod, NoPod
  <2>2. CASE /\ ~CreatePod
             /\ pod'.uid = pod.uid
             /\ \/ phase[pod.uid] = "gone"
                \/ pod'.annotated \subseteq pod.annotated \cup mounted[pod.uid]
    <3>1. pod.uid \in Uids
      BY <2>2 DEF AnnotatedInv, TypeOK, Pod, Uids
    <3>2. phase[pod.uid] = "running" /\ mounted[pod.uid] \subseteq mounted'[pod.uid]
      BY <2>2, <3>1, Lifecycle DEF AnnotatedInv
    <3>3. pod.annotated \subseteq mounted[pod.uid]
      BY <2>2, <3>2 DEF AnnotatedInv, AnnotatedForItself
    <3> QED
      BY <2>2, <3>2, <3>3
  <2> QED
    BY <1>1, <2>1, <2>2, Annotations
<1> QED
  BY <1>1, <1>2, <1>3, <1>4, <1>5 DEF AnnotatedInv

(***************************************************************************)
(* The annotations of a pod speak of its own mounts: the volume manager    *)
(* patches by name what it mounted for a pod it may have read long ago,    *)
(* sync_volume.go:174-184.                                                 *)
(***************************************************************************)
THEOREM AnnotatedAlwaysForItself == Spec => []AnnotatedForItself
<1>1. AnnotatedInv => AnnotatedForItself
  BY DEF AnnotatedInv
<1> QED
  BY <1>1, InitAnnotated, NextAnnotated, PTL DEF Spec

-----------------------------------------------------------------------------
(***************************************************************************)
(* The signal.  Without forced deletion the containers of one pod of the   *)
(* name run at a time, so what a sidecar reads by name is its own pod.     *)
(***************************************************************************)
OnePodRuns == \A u \in Uids : phase[u] \in {"running", "stopped"} => pod.uid = u

SidecarsSeeTheirs ==
    \A u \in Uids :
        sidecar[u].pc # "off" =>
            /\ phase[u] = "running"
            /\ sidecar[u].seen.annotated \subseteq mounted[u]
            /\ sidecar[u].pc = "touch" => Required \subseteq mounted[u]

SignalledInv == AnnotatedInv /\ OnePodRuns /\ SidecarsSeeTheirs /\ SignalledIsMounted

LEMMA InitSignalled == Init => SignalledInv
  BY InitAnnotated DEF Init, SignalledInv, OnePodRuns, SidecarsSeeTheirs, SignalledIsMounted,
                       NoSidecar

\* A pod leaves the API server when its node is done with it.
LEMMA OnePodKept ==
    ASSUME ~ForcedDeletion, SignalledInv, [Next]_vars
    PROVE  OnePodRuns'
<1> USE DEF OnePodRuns
<1>0. /\ pod \in Pod /\ phase \in [Uids -> {"none", "running", "stopped", "gone"}]
      /\ made \in Nat /\ OnePodRuns
      /\ \A u \in Uids : u # 0
  BY BoundAssumption DEF SignalledInv, AnnotatedInv, TypeOK, Uids
<1>1. CASE UNCHANGED <<phase, pod>>
  BY <1>0, <1>1
<1>2. CASE CreatePod
  BY <1>0, <1>2 DEF CreatePod, NoPod
<1>3. CASE UpdatePod \/ DeletePod
  BY <1>0, <1>3 DEF UpdatePod, DeletePod, Pod, nodeVars
<1>4. CASE RemovePod
  BY <1>0, <1>4 DEF RemovePod, nodeVars
<1>5. ASSUME NEW u \in Uids, StopContainers(u) \/ TearDown(u) PROVE OnePodRuns'
  BY <1>0, <1>5 DEF StopContainers, TearDown
<1>6. ASSUME NEW n \in Nodes, AnnotateMounted(n) PROVE OnePodRuns'
  <2>1. pod'.uid = pod.uid
    BY <1>0, <1>6 DEF AnnotateMounted, ApplyPatch, Pod
  <2> QED
    BY <1>0, <1>6, <2>1 DEF AnnotateMounted, nodeVars
<1>7. ASSUME NEW n \in Nodes,
             ObservePod(n) \/ SyncPod(n) \/ SkipVolume(n) \/ MountVolume(n)
               \/ EndSync(n) \/ RestartManager(n)
      PROVE  OnePodRuns'
  BY <1>1, <1>7 DEF ObservePod, SyncPod, SkipVolume, MountVolume, EndSync, RestartManager, nodeVars
<1>8. ASSUME NEW u \in Uids, ObserveOwnPod(u) \/ Waiting(u) \/ CrashSidecar(u) PROVE OnePodRuns'
  BY <1>1, <1>8 DEF ObserveOwnPod, Waiting, StartSidecar, SyncSidecar, TouchFile, CrashSidecar,
                    nodeVars
<1>9. ASSUME NEW u \in Uids, NEW v \in Volumes, VolumeReady(u, v) PROVE OnePodRuns'
  BY <1>1, <1>9 DEF VolumeReady
<1>10. CASE UNCHANGED vars
  BY <1>1, <1>10 DEF vars, nodeVars
<1> QED
  BY <1>2, <1>3, <1>4, <1>5, <1>6, <1>7, <1>8, <1>9, <1>10 DEF Next, Environment, Syncing

\* Stopping and tearing down a pod, and what the sidecars do themselves, is all
\* that changes phase away from "running", mounted to less, and the sidecars.
LEMMA Others ==
    ASSUME SignalledInv, [Next]_vars,
           \A u \in Uids : ~(StopContainers(u) \/ TearDown(u) \/ ObserveOwnPod(u)
                               \/ Waiting(u) \/ CrashSidecar(u))
    PROVE  /\ UNCHANGED <<sidecar, signal>>
           /\ \A u \in Uids : /\ phase[u] = "running" => phase'[u] = "running"
                              /\ mounted[u] \subseteq mounted'[u]
<1> DEFINE Rest == /\ UNCHANGED <<sidecar, signal>>
                   /\ \A u \in Uids : /\ phase[u] = "running" => phase'[u] = "running"
                                      /\ mounted[u] \subseteq mounted'[u]
<1>0. /\ phase \in [Uids -> {"none", "running", "stopped", "gone"}]
      /\ mounted \in [Uids -> SUBSET Volumes]
  BY DEF SignalledInv, AnnotatedInv, TypeOK
<1>1. CASE CreatePod \/ UpdatePod \/ DeletePod \/ RemovePod
  BY <1>0, <1>1 DEF CreatePod, UpdatePod, DeletePod, RemovePod, nodeVars
<1>2. ASSUME NEW u \in Uids, NEW v \in Volumes, VolumeReady(u, v) PROVE Rest
  BY <1>2 DEF VolumeReady
<1>3. ASSUME NEW n \in Nodes, MountVolume(n) PROVE Rest
  BY <1>0, <1>3 DEF MountVolume
<1>4. ASSUME NEW n \in Nodes,
             ObservePod(n) \/ SyncPod(n) \/ SkipVolume(n) \/ AnnotateMounted(n)
               \/ EndSync(n) \/ RestartManager(n)
      PROVE  Rest
  BY <1>4 DEF ObservePod, SyncPod, SkipVolume, AnnotateMounted, EndSync, RestartManager, nodeVars
<1>5. CASE UNCHANGED vars
  BY <1>5 DEF vars, nodeVars
<1> QED
  BY <1>1, <1>2, <1>3, <1>4, <1>5 DEF Next, Environment, Syncing

\* A step of a pod's sidecar, or the end of a pod, disturbs that pod only.
LEMMA OwnSteps ==
    ASSUME ~ForcedDeletion, SignalledInv, TypeOK', NEW u \in Uids,
           StopContainers(u) \/ TearDown(u) \/ ObserveOwnPod(u) \/ Waiting(u) \/ CrashSidecar(u)
    PROVE  SidecarsSeeTheirs' /\ SignalledIsMounted'
<1>0. /\ phase \in [Uids -> {"none", "running", "stopped", "gone"}]
      /\ mounted \in [Uids -> SUBSET Volumes] /\ sidecar \in [Uids -> Sidecar]
      /\ signal \subseteq Uids
      /\ SidecarsSeeTheirs /\ SignalledIsMounted
  BY DEF SignalledInv, AnnotatedInv, TypeOK
<1> USE DEF SidecarsSeeTheirs, SignalledIsMounted
<1>1. phase[u] = "running" => pod.uid = u /\ u # 0 /\ pod.annotated \subseteq mounted[u]
  BY DEF SignalledInv, OnePodRuns, AnnotatedInv, AnnotatedForItself, Uids
<1>2. CASE StopContainers(u)
  BY <1>0, <1>2 DEF StopContainers, NoSidecar
<1>3. CASE TearDown(u)
  BY <1>0, <1>3 DEF TearDown
<1>4. CASE ObserveOwnPod(u)
  BY <1>0, <1>1, <1>4 DEF ObserveOwnPod, Sidecar, nodeVars
<1>5. CASE StartSidecar(u)
  BY <1>0, <1>1, <1>5 DEF StartSidecar, nodeVars
<1>6. CASE SyncSidecar(u)
  BY <1>0, <1>6 DEF SyncSidecar, EvaluateAnnotations, Sidecar, nodeVars
<1>7. CASE TouchFile(u)
  BY <1>0, <1>7 DEF TouchFile, Sidecar, nodeVars
<1>8. CASE CrashSidecar(u)
  BY <1>0, <1>8 DEF CrashSidecar, NoSidecar, nodeVars
<1> QED
  BY <1>2, <1>3, <1>4, <1>5, <1>6, <1>7, <1>8 DEF Waiting

LEMMA NextSignalled ==
    ASSUME ~ForcedDeletion, SignalledInv, [Next]_vars
    PROVE  SignalledInv'
<1>1. AnnotatedInv' /\ TypeOK'
  BY NextAnnotated DEF SignalledInv, AnnotatedInv
<1>2. OnePodRuns'
  BY OnePodKept
<1>3. SidecarsSeeTheirs' /\ SignalledIsMounted'
  <2>1. ASSUME NEW u \in Uids,
               StopContainers(u) \/ TearDown(u) \/ ObserveOwnPod(u) \/ Waiting(u) \/ CrashSidecar(u)
        PROVE  SidecarsSeeTheirs' /\ SignalledIsMounted'
    BY <1>1, <2>1, OwnSteps
  <2>2. CASE \A u \in Uids : ~(StopContainers(u) \/ TearDown(u) \/ ObserveOwnPod(u)
                                 \/ Waiting(u) \/ CrashSidecar(u))
    <3>1. signal \subseteq Uids /\ SidecarsSeeTheirs /\ SignalledIsMounted
      BY DEF SignalledInv, AnnotatedInv, TypeOK
    <3> QED
      BY <2>2, <3>1, Others DEF SidecarsSeeTheirs, SignalledIsMounted
  <2> QED
    BY <2>1, <2>2
<1> QED
  BY <1>1, <1>2, <1>3 DEF SignalledInv

(***************************************************************************)
(* A pod that has its signal file has its volumes: wait/controller.go's    *)
(* sync reads the pod by name, and only an orderly deletion makes that     *)
(* name its own pod's.                                                     *)
(***************************************************************************)
THEOREM SignalledAlwaysMounted ==
    ASSUME ~ForcedDeletion
    PROVE  Spec => []SignalledIsMounted
<1>1. SignalledInv => SignalledIsMounted
  BY DEF SignalledInv
<1>2. SignalledInv /\ [Next]_vars => SignalledInv'
  BY NextSignalled
<1> QED
  BY <1>1, <1>2, InitSignalled, PTL DEF Spec

-----------------------------------------------------------------------------
(***************************************************************************)
(* No wake-up of the volume manager is lost.  A copy that is not behind is *)
(* the pod itself, so a sync of a key that was not queued again since it   *)
(* began works on the pod as it is: the volumes it has yet to come to, and *)
(* the one it is annotating, are all that is outstanding, or it has failed *)
(* and will put its key back.                                              *)
(***************************************************************************)
Outstanding == ready[pod.uid] \ pod.annotated

\* The manager of node n knows all there is of the pod, and has no reason to look again.
UpToDate(n) ==
    pod.uid # 0 /\ NodeOf[pod.uid] = n /\ ~pod.deleting /\ n \notin queued /\ cached[n] = pod

Covers(w) ==
    /\ w.pc = "idle" => Outstanding = {}
    /\ w.pc # "idle" => w.pod = pod /\ (w.failed \/ Outstanding \subseteq w.todo \cup w.patches)

SyncCovers(n) ==
    /\ worker[n].pc = "sync" => worker[n].patches = {}
    /\ UpToDate(n) => Covers(worker[n])

CoveredInv == TypeOK /\ CopiesAreVersions /\ \A n \in Nodes : SyncCovers(n)

\* A new version is not what any manager has cached.
LEMMA NotYetSeen ==
    ASSUME TypeOK, CopiesAreVersions, NEW n \in Nodes, pod'.rv > pod.rv, cached'[n] = cached[n]
    PROVE  cached'[n] # pod'
<1>1. cached[n].rv <= pod.rv /\ cached[n].rv \in Nat /\ pod.rv \in Nat
  BY DEF CopiesAreVersions, CopyOf, TypeOK, Pod
<1> QED
  BY <1>1

\* A step that neither syncs on node n nor makes anything ready leaves it covered.
LEMMA CoverStays ==
    ASSUME CoveredInv, [Next]_vars, NEW n \in Nodes,
           UNCHANGED <<cached, worker>>, queued \subseteq queued',
           \A u \in Uids : u = pod.uid /\ UpToDate(n) /\ n \notin queued' => ready'[u] \subseteq ready[u]
    PROVE  SyncCovers(n)'
<1>1. worker'[n] = worker[n] /\ cached'[n] = cached[n] /\ SyncCovers(n)
  BY DEF CoveredInv
<1>2. CASE pod' = pod
  <2>1. UpToDate(n)' => UpToDate(n) /\ n \notin queued'
    BY <1>1, <1>2 DEF UpToDate
  <2>2. pod.uid # 0 => pod.uid \in Uids
    BY DEF CoveredInv, TypeOK, Pod, Uids
  <2>3. UpToDate(n)' => Outstanding' \subseteq Outstanding
    BY <1>2, <2>1, <2>2 DEF Outstanding, UpToDate
  <2> QED
    BY <1>1, <1>2, <2>1, <2>3 DEF SyncCovers, Covers
<1>3. CASE pod'.rv > pod.rv
  <2>1. ~UpToDate(n)'
    BY <1>1, <1>3, NotYetSeen DEF UpToDate, CoveredInv
  <2> QED
    BY <1>1, <2>1 DEF SyncCovers
<1>4. CASE pod'.uid = 0
  BY <1>1, <1>4 DEF SyncCovers, UpToDate
<1> QED
  BY <1>2, <1>3, <1>4, Versions DEF CoveredInv

\* What happens on another node, to the pod or to a sidecar makes nothing outstanding.
LEMMA OthersKeepCover ==
    ASSUME CoveredInv, [Next]_vars, NEW n \in Nodes,
           \/ Environment
           \/ \E u \in Uids : ObserveOwnPod(u) \/ Waiting(u) \/ CrashSidecar(u)
           \/ UNCHANGED vars
    PROVE  SyncCovers(n)'
<1>0. ready \in [Uids -> SUBSET Volumes]
  BY DEF CoveredInv, TypeOK
<1>1. CASE UNCHANGED <<ready, cached, worker, queued>>
  BY <1>1, CoverStays
<1>2. CASE CreatePod \/ UpdatePod \/ DeletePod \/ RemovePod
  BY <1>1, <1>2 DEF CreatePod, UpdatePod, DeletePod, RemovePod, nodeVars, managerVars
<1>3. ASSUME NEW u \in Uids, StopContainers(u) PROVE SyncCovers(n)'
  BY <1>1, <1>3 DEF StopContainers, managerVars
<1>4. ASSUME NEW u \in Uids, TearDown(u) PROVE SyncCovers(n)'
  <2>1. UNCHANGED <<cached, worker, queued>> /\ \A w \in Uids : ready'[w] \subseteq ready[w]
    BY <1>0, <1>4 DEF TearDown, managerVars
  <2> QED
    BY <2>1, CoverStays
<1>5. ASSUME NEW u \in Uids, NEW v \in Volumes, VolumeReady(u, v) PROVE SyncCovers(n)'
  <2>1. UNCHANGED <<cached, worker>> /\ queued \subseteq queued'
    BY <1>5 DEF VolumeReady
  <2>2. ASSUME NEW w \in Uids, w = pod.uid, UpToDate(n), n \notin queued'
        PROVE  ready'[w] \subseteq ready[w]
    <3>1. w # u
      BY <1>5, <2>2 DEF VolumeReady, UpToDate
    <3> QED
      BY <1>0, <1>5, <3>1 DEF VolumeReady
  <2> QED
    BY <2>1, <2>2, CoverStays
<1>6. ASSUME NEW u \in Uids, ObserveOwnPod(u) \/ Waiting(u) \/ CrashSidecar(u)
      PROVE  SyncCovers(n)'
  BY <1>1, <1>6 DEF ObserveOwnPod, Waiting, StartSidecar, SyncSidecar, TouchFile, CrashSidecar,
                    nodeVars, managerVars
<1>7. CASE UNCHANGED vars
  BY <1>1, <1>7 DEF vars, nodeVars, managerVars
<1> QED
  BY <1>2, <1>3, <1>4, <1>5, <1>6, <1>7 DEF Environment

\* The manager's own steps.
LEMMA SyncsCover ==
    ASSUME CoveredInv, TypeOK', [Next]_vars, NEW n \in Nodes, NEW m \in Nodes,
           ObservePod(m) \/ Syncing(m) \/ RestartManager(m)
    PROVE  SyncCovers(n)'
<1>0. /\ worker \in [Nodes -> Worker] /\ cached \in [Nodes -> Pod]
      /\ worker[n] \in Worker /\ pod \in Pod
      /\ SyncCovers(n)
  BY DEF CoveredInv, TypeOK
<1>1. UNCHANGED ready
  BY DEF ObservePod, Syncing, SyncPod, SkipVolume, MountVolume, AnnotateMounted, EndSync,
         RestartManager, nodeVars
<1>2. CASE m # n
  <2>1. /\ cached'[n] = cached[n] /\ worker'[n] = worker[n]
        /\ n \in queued' <=> n \in queued
    BY <1>0, <1>2
    DEF ObservePod, Syncing, SyncPod, SkipVolume, MountVolume, AnnotateMounted, PatchAnswered,
        EndSync, QueuedAfter, RestartManager
  <2>2. CASE pod' = pod
    BY <1>0, <1>1, <2>1, <2>2 DEF SyncCovers, UpToDate, Covers, Outstanding
  <2>3. CASE pod'.rv > pod.rv
    <3>1. ~UpToDate(n)'
      BY <2>1, <2>3, NotYetSeen DEF UpToDate, CoveredInv
    <3> QED
      BY <1>0, <2>1, <3>1 DEF SyncCovers
  <2>4. CASE pod'.uid = 0
    BY <1>0, <2>1, <2>4 DEF SyncCovers, UpToDate
  <2> QED
    BY <2>2, <2>3, <2>4, Versions DEF CoveredInv
<1>3. CASE m = n
  <2>1. CASE ObservePod(n)
    BY <1>0, <2>1 DEF ObservePod, SyncCovers, UpToDate
  <2>2. CASE RestartManager(n)
    <3>1. worker'[n] = IdleWorker /\ cached'[n] = OnNode(n) /\ pod' = pod
      BY <1>0, <2>2 DEF RestartManager
    <3>2. UpToDate(n)' => n \in queued'
      BY <2>2, <3>1 DEF RestartManager, UpToDate
    <3> QED
      BY <3>1, <3>2 DEF SyncCovers, UpToDate, IdleWorker
  <2>3. CASE SyncPod(n)
    <3>1. UNCHANGED <<pod, cached>>
      BY <2>3 DEF SyncPod
    <3>2. CASE cached[n].deleting
      BY <1>0, <2>3, <3>1, <3>2 DEF SyncPod, SyncCovers, UpToDate
    <3>3. CASE ~cached[n].deleting
      <4>1. worker'[n] = [IdleWorker EXCEPT !.pc = "sync", !.pod = cached[n], !.todo = Volumes]
        BY <1>0, <2>3, <3>3 DEF SyncPod
      <4>2. /\ worker'[n].pc = "sync" /\ worker'[n].pod = cached[n]
            /\ worker'[n].todo = Volumes /\ worker'[n].patches = {}
        BY <4>1 DEF IdleWorker
      <4>3. pod.uid # 0 => Outstanding' \subseteq Volumes
        BY <1>1, <3>1 DEF Outstanding, CoveredInv, TypeOK, Pod, Uids
      <4> QED
        BY <3>1, <4>2, <4>3 DEF SyncCovers, UpToDate, Covers
    <3> QED
      BY <3>2, <3>3
  <2>4. CASE SkipVolume(n)
    <3>1. PICK v \in worker[n].todo \ ready[worker[n].pod.uid], ok \in BOOLEAN :
             worker' = [worker EXCEPT ![n] = Returned([worker[n] EXCEPT !.todo = @ \ {v}], ok)]
      BY <2>4 DEF SkipVolume
    <3>2. /\ worker'[n].pc = worker[n].pc /\ worker'[n].pod = worker[n].pod
          /\ worker'[n].todo = worker[n].todo \ {v} /\ worker'[n].patches = worker[n].patches
          /\ worker[n].failed => worker'[n].failed
      BY <1>0, <3>1 DEF Returned, Worker
    <3>3. UNCHANGED <<pod, cached, queued>>
      BY <2>4 DEF SkipVolume
    <3>4. Outstanding' = Outstanding /\ (UpToDate(n)' <=> UpToDate(n))
      BY <1>1, <3>3 DEF Outstanding, UpToDate
    <3>5. worker[n].pod = pod => v \notin Outstanding
      BY <3>1 DEF Outstanding
    <3> QED
      BY <1>0, <3>1, <3>2, <3>3, <3>4, <3>5 DEF SyncCovers, Covers
  <2>5. CASE MountVolume(n)
    <3>1. PICK v \in worker[n].todo, ok \in BOOLEAN :
             worker' = [worker EXCEPT ![n] = AfterMount(@, v, ok)]
      BY <2>5 DEF MountVolume
    <3>2. /\ worker[n].pc = "sync" /\ UNCHANGED <<pod, cached, queued>>
      BY <2>5 DEF MountVolume
    <3>3. Outstanding' = Outstanding /\ (UpToDate(n)' <=> UpToDate(n))
      BY <1>1, <3>2 DEF Outstanding, UpToDate
    <3>4. /\ worker'[n].pod = worker[n].pod
          /\ worker[n].failed => worker'[n].failed
          /\ \/ worker'[n].pc = "patch" /\ worker'[n].todo = worker[n].todo \ {v}
                /\ worker'[n].patches = {v}
             \/ worker'[n].pc = "sync" /\ worker'[n].failed /\ worker'[n].patches = worker[n].patches
      BY <1>0, <3>1, <3>2 DEF AfterMount, Returned, Worker
    <3> QED
      BY <1>0, <3>1, <3>2, <3>3, <3>4 DEF SyncCovers, Covers
  <2>6. CASE AnnotateMounted(n)
    <3>1. PICK ok \in BOOLEAN :
             /\ PatchAnswered(n, ok)
             /\ ok => Accepted(worker[n].pod) /\ ApplyPatch(n)
      BY <2>6 DEF AnnotateMounted
    <3>2. /\ worker'[n].pc = "sync" /\ worker'[n].patches = {} /\ worker'[n].pod = worker[n].pod
          /\ worker'[n].todo = worker[n].todo
          /\ worker'[n].failed = (worker[n].failed \/ ~ok)
      BY <1>0, <3>1 DEF PatchAnswered, Returned, Worker
    <3>3. UNCHANGED <<cached, queued>> /\ worker[n].pc = "patch"
      BY <2>6 DEF AnnotateMounted
    <3>4. CASE pod' = pod
      <4>1. Outstanding' = Outstanding /\ (UpToDate(n)' <=> UpToDate(n))
        BY <1>1, <3>3, <3>4 DEF Outstanding, UpToDate
      <4>2. CASE ok
        <5>1. worker[n].patches \subseteq pod.annotated
          BY <1>0, <3>1, <3>4, <4>2 DEF ApplyPatch, PatchedAnnotations, Pod
        <5> QED
          BY <1>0, <3>2, <3>3, <3>4, <4>1, <5>1 DEF SyncCovers, Covers, Outstanding
      <4>3. CASE ~ok
        BY <1>0, <3>2, <3>3, <3>4, <4>1, <4>3 DEF SyncCovers, Covers
      <4> QED
        BY <4>2, <4>3
    <3>5. CASE pod'.rv > pod.rv
      <4>1. ~UpToDate(n)'
        BY <3>3, <3>5, NotYetSeen DEF UpToDate, CoveredInv
      <4> QED
        BY <3>2, <4>1 DEF SyncCovers
    <3>6. CASE pod'.uid = 0
      BY <3>2, <3>6 DEF SyncCovers, UpToDate
    <3> QED
      BY <3>4, <3>5, <3>6, Versions DEF CoveredInv
  <2>7. CASE EndSync(n)
    <3>1. /\ worker'[n] = IdleWorker /\ UNCHANGED <<pod, cached>>
          /\ worker[n].pc = "sync" /\ worker[n].todo = {}
          /\ queued' = QueuedAfter(n)
      BY <1>0, <2>7 DEF EndSync
    <3>2. UpToDate(n)' => UpToDate(n) /\ ~worker[n].failed
      BY <3>1 DEF QueuedAfter, UpToDate
    <3>3. UpToDate(n)' => Outstanding' = {}
      BY <1>0, <1>1, <3>1, <3>2 DEF SyncCovers, Covers, Outstanding
    <3> QED
      BY <3>1, <3>3 DEF SyncCovers, Covers, IdleWorker
  <2> QED
    BY <1>3, <2>1, <2>2, <2>3, <2>4, <2>5, <2>6, <2>7 DEF Syncing
<1> QED
  BY <1>2, <1>3

LEMMA CoveredStep ==
    ASSUME CoveredInv, [Next]_vars
    PROVE  CoveredInv'
<1>1. TypeOK'
  BY NextType DEF CoveredInv
<1>2. CopiesAreVersions'
  BY <1>1, CopiesKept DEF CoveredInv
<1>3. ASSUME NEW n \in Nodes PROVE SyncCovers(n)'
  BY <1>1, OthersKeepCover, SyncsCover DEF Next
<1> QED
  BY <1>1, <1>2, <1>3 DEF CoveredInv

LEMMA CoveredInit == Init => CoveredInv
<1>1. Init => TypeOK /\ CopiesAreVersions
  BY InitAnnotated DEF AnnotatedInv
<1>2. Init => \A n \in Nodes : SyncCovers(n)
  <2> SUFFICES ASSUME Init, NEW n \in Nodes PROVE SyncCovers(n)
    OBVIOUS
  <2>1. pod.uid = 0 /\ worker[n].pc = "idle"
    BY DEF Init, IdleWorker, NoPod
  <2> QED
    BY <2>1 DEF SyncCovers, UpToDate
<1> QED
  BY <1>1, <1>2 DEF CoveredInv

(***************************************************************************)
(* A pod that stays, with a volume that is ready and not annotated, is     *)
(* queued or being synced, or the event of its new version is on its way;  *)
(* forced deletions and pods of the name on other nodes included.          *)
(***************************************************************************)
THEOREM UnannotatedPodAlwaysQueued == Spec => []UnannotatedPodIsQueued
<1>1. CoveredInv => UnannotatedPodIsQueued
  <2> SUFFICES ASSUME CoveredInv, NEW u \in Uids, Stays(u), ~(ready[u] \subseteq pod.annotated),
                      NodeOf[u] \notin queued, worker[NodeOf[u]].pc = "idle",
                      ~Differs(cached[NodeOf[u]], OnNode(NodeOf[u]))
               PROVE  FALSE
    BY DEF UnannotatedPodIsQueued
  <2>1. u # 0 /\ pod.uid = u /\ ~pod.deleting /\ NodeOf[u] \in Nodes
    BY NodeOfAssumption DEF Stays, Uids
  <2>2. OnNode(NodeOf[u]) = pod
    BY <2>1 DEF OnNode
  <2>3. cached[NodeOf[u]] = pod
    BY <2>1, <2>2 DEF Differs, CoveredInv, CopiesAreVersions, CopyOf
  <2> QED
    BY <2>1, <2>3 DEF CoveredInv, SyncCovers, UpToDate, Covers, Outstanding
<1> QED
  BY <1>1, CoveredInit, CoveredStep, PTL DEF Spec

-----------------------------------------------------------------------------
(***************************************************************************)
(* Nor is one of a sidecar lost: what it has seen complete without looking *)
(* again is signalled.                                                     *)
(***************************************************************************)
SidecarWaits(u) ==
    sidecar[u].pc # "off" =>
        /\ phase[u] = "running"
        /\ CopyOf(sidecar[u].seen, pod)
        /\ /\ sidecar[u].pc = "idle" /\ ~sidecar[u].queued
           /\ sidecar[u].seen.uid # 0 /\ Required \subseteq sidecar[u].seen.annotated
           => u \in signal

SidecarsInv == TypeOK /\ \A u \in Uids : SidecarWaits(u)

\* A step that leaves a pod's sidecar alone, and its containers, leaves its file.
LEMMA WaitStays ==
    ASSUME SidecarsInv, TypeOK', [Next]_vars, NEW u \in Uids,
           sidecar'[u] = sidecar[u], phase[u] = "running" => phase'[u] = "running",
           u \in signal /\ phase[u] = "running" => u \in signal'
    PROVE  SidecarWaits(u)'
<1>1. sidecar[u].seen \in Pod
  BY DEF SidecarsInv, TypeOK, Sidecar
<1>2. CopyOf(sidecar[u].seen, pod) => CopyOf(sidecar[u].seen, pod')
  BY <1>1, CopyKept DEF SidecarsInv
<1> QED
  BY <1>2 DEF SidecarsInv, SidecarWaits, CopyOf

LEMMA OwnStepsWait ==
    ASSUME SidecarsInv, TypeOK', [Next]_vars, NEW w \in Uids,
           StopContainers(w) \/ TearDown(w) \/ ObserveOwnPod(w) \/ Waiting(w) \/ CrashSidecar(w),
           NEW u \in Uids
    PROVE  SidecarWaits(u)'
<1>0. /\ phase \in [Uids -> {"none", "running", "stopped", "gone"}]
      /\ sidecar \in [Uids -> Sidecar] /\ signal \subseteq Uids /\ pod \in Pod
      /\ SidecarWaits(u)
  BY DEF SidecarsInv, TypeOK
<1>1. UNCHANGED pod /\ CopyOf(pod, pod)
  <2>1. pod.rv <= pod.rv
    BY <1>0 DEF Pod
  <2> QED
    BY <2>1 DEF CopyOf, StopContainers, TearDown, ObserveOwnPod, Waiting, StartSidecar, SyncSidecar,
                TouchFile, CrashSidecar
<1>2. CASE u # w
  BY <1>0, <1>2, WaitStays
  DEF StopContainers, TearDown, ObserveOwnPod, Waiting, StartSidecar, SyncSidecar, TouchFile,
      CrashSidecar, nodeVars
<1>3. CASE u = w
  <2>1. CASE StopContainers(u) \/ CrashSidecar(u)
    BY <1>0, <2>1 DEF StopContainers, CrashSidecar, NoSidecar, SidecarWaits
  <2>2. CASE TearDown(u)
    BY <1>0, <2>2 DEF TearDown, SidecarWaits
  <2>3. CASE ObserveOwnPod(u)
    BY <1>0, <1>1, <2>3 DEF ObserveOwnPod, Sidecar, SidecarWaits, nodeVars
  <2>4. CASE StartSidecar(u)
    BY <1>0, <1>1, <2>4 DEF StartSidecar, SidecarWaits, nodeVars
  <2>5. CASE SyncSidecar(u)
    <3>1. /\ sidecar'[u].seen = sidecar[u].seen /\ UNCHANGED <<phase, signal>>
          /\ sidecar[u].pc # "off"
          /\ sidecar'[u].pc = IF EvaluateAnnotations(sidecar[u].seen) THEN "touch" ELSE "idle"
      BY <1>0, <2>5 DEF SyncSidecar, Sidecar, nodeVars
    <3> QED
      BY <1>0, <1>1, <3>1 DEF SidecarWaits, EvaluateAnnotations, CopyOf
  <2>6. CASE TouchFile(u)
    <3>1. /\ sidecar'[u].seen = sidecar[u].seen /\ UNCHANGED phase /\ sidecar[u].pc # "off"
          /\ u \in signal' \/ sidecar'[u].queued
      BY <1>0, <2>6 DEF TouchFile, Sidecar, nodeVars
    <3> QED
      BY <1>0, <1>1, <3>1 DEF SidecarWaits, CopyOf
  <2> QED
    BY <1>3, <2>1, <2>2, <2>3, <2>4, <2>5, <2>6 DEF Waiting
<1> QED
  BY <1>2, <1>3

LEMMA SidecarsStep ==
    ASSUME SidecarsInv, [Next]_vars
    PROVE  SidecarsInv'
<1>1. TypeOK'
  BY NextType DEF SidecarsInv
<1>2. ASSUME NEW u \in Uids, UNCHANGED <<sidecar, signal>>,
             phase[u] = "running" => phase'[u] = "running"
      PROVE  SidecarWaits(u)'
  BY <1>1, <1>2, WaitStays
<1>3. CASE CreatePod
  <2>1. \A u \in Uids : phase[u] = "running" => phase'[u] = "running"
    BY <1>3 DEF CreatePod, SidecarsInv, TypeOK
  <2> QED
    BY <1>1, <1>2, <1>3, <2>1 DEF CreatePod, SidecarsInv
<1>4. CASE UpdatePod \/ DeletePod \/ RemovePod
  BY <1>1, <1>2, <1>4 DEF UpdatePod, DeletePod, RemovePod, nodeVars, SidecarsInv
<1>5. ASSUME NEW u \in Uids, NEW v \in Volumes, VolumeReady(u, v) PROVE SidecarsInv'
  BY <1>1, <1>2, <1>5 DEF VolumeReady, SidecarsInv
<1>6. ASSUME NEW n \in Nodes, ObservePod(n) \/ Syncing(n) \/ RestartManager(n) PROVE SidecarsInv'
  BY <1>1, <1>2, <1>6 DEF ObservePod, Syncing, SyncPod, SkipVolume, MountVolume, AnnotateMounted,
                          EndSync, RestartManager, nodeVars, SidecarsInv
<1>7. ASSUME NEW w \in Uids,
             StopContainers(w) \/ TearDown(w) \/ ObserveOwnPod(w) \/ Waiting(w) \/ CrashSidecar(w)
      PROVE  SidecarsInv'
  BY <1>1, <1>7, OwnStepsWait DEF SidecarsInv
<1>8. CASE UNCHANGED vars
  BY <1>1, <1>2, <1>8 DEF vars, nodeVars, SidecarsInv
<1> QED
  BY <1>3, <1>4, <1>5, <1>6, <1>7, <1>8 DEF Next, Environment

(***************************************************************************)
(* A sidecar whose pod has all the annotations, and no file, is queued or  *)
(* about to make the file, or the event of the last annotation is on its   *)
(* way; whatever becomes of the calls and the containers in between.       *)
(***************************************************************************)
THEOREM UnsignalledPodAlwaysQueued == Spec => []UnsignalledPodIsQueued
<1>1. Init => SidecarsInv
  BY InitType DEF Init, SidecarsInv, SidecarWaits, NoSidecar
<1>2. SidecarsInv => UnsignalledPodIsQueued
  <2> SUFFICES ASSUME SidecarsInv, NEW u \in Uids, sidecar[u].pc # "off", u \notin signal,
                      pod.uid = u, Required \subseteq pod.annotated,
                      ~sidecar[u].queued, sidecar[u].pc # "touch", ~Differs(sidecar[u].seen, pod)
               PROVE  FALSE
    BY DEF UnsignalledPodIsQueued
  <2>1. u # 0 /\ sidecar[u].pc = "idle" /\ SidecarWaits(u)
    BY DEF SidecarsInv, TypeOK, Sidecar, Uids
  <2>2. sidecar[u].seen = pod
    BY <2>1 DEF Differs, SidecarWaits, CopyOf
  <2> QED
    BY <2>1, <2>2 DEF SidecarWaits
<1> QED
  BY <1>1, <1>2, SidecarsStep, PTL DEF Spec
=============================================================================
