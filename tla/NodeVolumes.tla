---------------------------- MODULE NodeVolumes ----------------------------
(***************************************************************************)
(* The node-server: the CSI node service the kubelet calls and the volume  *)
(* manager's pod controller, two sets of goroutines over the same three    *)
(* state managers (BindState), and the crash and restart of the process.   *)
(*                                                                         *)
(* One step is one access to a map or a file, one call of the backend      *)
(* driver, or one event of an informer.  A volume is a proxy volume; what  *)
(* it is bound to, its staging path and its pods' target paths never       *)
(* change, so they are left out of the entries.                            *)
(***************************************************************************)
EXTENDS Naturals

CONSTANTS
    Pods,           \* pod UIDs
    Volumes,        \* proxy volume handles
    VolumeOf,       \* the proxy volume each pod uses
    StagingDrivers, \* volumes whose backend driver has STAGE_UNSTAGE_VOLUME
    MaxFaults       \* bound on failed calls, crashes and kubelet restarts

ASSUME VolumeOfAssumption == VolumeOf \in [Pods -> Volumes]
ASSUME StagingDriversAssumption == StagingDrivers \subseteq Volumes
ASSUME DisjointAssumption == Pods \cap Volumes = {}
ASSUME MaxFaultsAssumption == MaxFaults \in Nat

VARIABLES
    file, open, memory,     \* the state managers, see BindState
    up,                     \* whether the process runs
    podCall,                \* per pod, where its publish or unpublish call is
    volumeCall,             \* per volume, where its stage or unstage call is
    manager,                \* per pod, where its sync is
    queue,                  \* the pods to be synced
    cached,                 \* the pod informer's cache
    known,                  \* per volume, the other objects the informers have seen
    pod,                    \* the pods as the API server has them
    annotated,              \* pods that carry volume-mounted
    mount, device,          \* what the kubelet believes of its publish and stage calls
    dir,                    \* pods whose target path exists
    published,              \* pods with the backend volume mounted at their target path
    staged,                 \* volume handles the backend driver has staged
    raced,                  \* history: pods whose sync overlapped the end of an unpublish
    faults

\* The directories of the state managers, and an entry's name in them.
StagingTargetPath(v) == <<"stagingtargetpath", v>>
TargetPath(p) == <<"targetpath", p>>
Bind(v) == <<"bind", v>>

Entries == {StagingTargetPath(v) : v \in Volumes} \cup {Bind(v) : v \in Volumes}
             \cup {TargetPath(p) : p \in Pods}

INSTANCE BindState WITH Keys <- Entries, Writers <- Pods \cup Volumes

entryVars == <<file, open, memory>>
callVars == <<podCall, volumeCall>>
kubeletVars == <<pod, mount, device>>
cacheVars == <<cached, known>>
backendVars == <<dir, published, staged>>
vars == <<entryVars, up, callVars, manager, queue, cacheVars, kubeletVars, annotated,
          backendVars, raced, faults>>

\* The handles a backend driver may be asked about.
ProxyHandle(v) == <<"proxy", v>>
BackendHandle(v) == <<"backend", v>>
Handles == {ProxyHandle(v) : v \in Volumes} \cup {BackendHandle(v) : v \in Volumes}

PodsOf(v) == {p \in Pods : VolumeOf[p] = v}

\* The bound proxy claim, the backend claim with its volume, that volume, and
\* a VolumeAttachment that is attached.
Objects == {"claim", "backend", "volume", "attachment"}

PodStates == {"absent", "wanted", "leaving", "gone"}
PublishSteps == {"create", "encode", "remember"}
UnpublishSteps == {"unpublish", "teardown", "remove", "forget"}
StageSteps == {"encode", "remember"}
UnstageSteps == {"unstage", "delete", "forgetbind", "unbind", "forgetpath"}
BeforePublish == {"save", "encode", "remember", "stage", "publish"}

(***************************************************************************)
(* The type invariant.                                                     *)
(***************************************************************************)
TypeOK ==
    /\ BindStateTypeOK
    /\ up \in BOOLEAN
    /\ podCall \in [Pods -> {"idle"} \cup PublishSteps \cup UnpublishSteps]
    /\ volumeCall \in [Volumes -> {"idle"} \cup StageSteps \cup UnstageSteps]
    /\ manager \in [Pods -> {"idle", "annotate"} \cup BeforePublish]
    /\ queue \subseteq Pods
    /\ cached \in [Pods -> PodStates]
    /\ known \in [Volumes -> SUBSET Objects]
    /\ pod \in [Pods -> PodStates]
    /\ annotated \subseteq Pods
    /\ mount \in [Pods -> {"none", "uncertain", "mounted"}]
    /\ device \in [Volumes -> {"none", "uncertain", "staged"}]
    /\ dir \subseteq Pods
    /\ published \subseteq Pods
    /\ staged \subseteq Handles
    /\ raced \subseteq Pods
    /\ faults \in 0..MaxFaults

Init ==
    /\ BindStateInit
    /\ up = TRUE
    /\ podCall = [p \in Pods |-> "idle"]
    /\ volumeCall = [v \in Volumes |-> "idle"]
    /\ manager = [p \in Pods |-> "idle"]
    /\ queue = {}
    /\ cached = [p \in Pods |-> "absent"]
    /\ known \in [Volumes -> SUBSET Objects]
    /\ pod = [p \in Pods |-> "absent"]
    /\ annotated = {}
    /\ mount = [p \in Pods |-> "none"]
    /\ device = [v \in Volumes |-> "none"]
    /\ dir = {}
    /\ published = {}
    /\ staged = {}
    /\ raced = {}
    /\ faults = 0

Fault ==
    /\ faults < MaxFaults
    /\ faults' = faults + 1

PodCall(p, from, to) ==
    /\ podCall[p] = from
    /\ podCall' = [podCall EXCEPT ![p] = to]
    /\ UNCHANGED volumeCall

VolumeCall(v, from, to) ==
    /\ volumeCall[v] = from
    /\ volumeCall' = [volumeCall EXCEPT ![v] = to]
    /\ UNCHANGED podCall

-----------------------------------------------------------------------------
(***************************************************************************)
(* The API server's pods and the kubelet.  The kubelet runs one call per   *)
(* volume at a time, but for unpublish calls of different pods.  It        *)
(* publishes when it believes the volume staged, unstages when no pod has  *)
(* or wants the volume, and takes for uncertain whatever it began to       *)
(* change and was not told the end of.                                     *)
(***************************************************************************)

NoCalls(v) == volumeCall[v] = "idle" /\ \A p \in PodsOf(v) : podCall[p] = "idle"

CreatePod(p) ==
    /\ pod[p] = "absent"
    /\ pod' = [pod EXCEPT ![p] = "wanted"]
    /\ UNCHANGED <<entryVars, up, callVars, manager, queue, cacheVars, mount, device,
                   annotated, backendVars, raced, faults>>

DeletePod(p) ==
    /\ pod[p] = "wanted"
    /\ pod' = [pod EXCEPT ![p] = "leaving"]
    /\ UNCHANGED <<entryVars, up, callVars, manager, queue, cacheVars, mount, device,
                   annotated, backendVars, raced, faults>>

\* The kubelet lets go of a pod once its volumes are torn down.
RemovePod(p) ==
    /\ pod[p] = "leaving"
    /\ mount[p] = "none"
    /\ podCall[p] = "idle"
    /\ pod' = [pod EXCEPT ![p] = "gone"]
    /\ UNCHANGED <<entryVars, up, callVars, manager, queue, cacheVars, mount, device,
                   annotated, backendVars, raced, faults>>

KubeletRestart ==
    /\ Fault
    /\ \A v \in Volumes : NoCalls(v)
    /\ mount' = [p \in Pods |-> IF mount[p] = "none" THEN "none" ELSE "uncertain"]
    /\ device' = [v \in Volumes |-> IF device[v] = "none" THEN "none" ELSE "uncertain"]
    /\ UNCHANGED <<entryVars, up, callVars, manager, queue, cacheVars, pod, annotated,
                   backendVars, raced>>

-----------------------------------------------------------------------------
(***************************************************************************)
(* NodeStageVolume.                                                        *)
(***************************************************************************)

\* The request, and the file BindStagingTargetPath creates.
NodeStageVolume(v) ==
    /\ up
    /\ NoCalls(v)
    /\ device[v] # "staged"
    /\ \E p \in PodsOf(v) : pod[p] = "wanted"
    /\ device' = [device EXCEPT ![v] = "uncertain"]
    /\ VolumeCall(v, "idle", "encode")
    /\ CreateFile(StagingTargetPath(v), v)
    /\ UNCHANGED <<up, manager, queue, cacheVars, pod, mount, annotated, backendVars,
                   raced, faults>>

BindStagingTargetPath(v) ==
    /\ \/ /\ VolumeCall(v, "encode", "remember")
          /\ EncodeFile(StagingTargetPath(v), v)
          /\ UNCHANGED <<device, faults>>
       \/ /\ VolumeCall(v, "encode", "idle")
          /\ Fault
          /\ EncodeFails(StagingTargetPath(v), v)
          /\ UNCHANGED device
       \/ /\ VolumeCall(v, "remember", "idle")
          /\ Remember(StagingTargetPath(v))
          /\ device' = [device EXCEPT ![v] = "staged"]
          /\ UNCHANGED faults
    /\ UNCHANGED <<up, manager, queue, cacheVars, pod, mount, annotated, backendVars, raced>>

(***************************************************************************)
(* NodePublishVolume.                                                      *)
(***************************************************************************)

\* The request, and setUpPath, for which a directory that exists will do.
NodePublishVolume(p) ==
    LET v == VolumeOf[p]
    IN  /\ up
        /\ NoCalls(v)
        /\ pod[p] = "wanted"
        /\ device[v] = "staged"
        /\ mount[p] # "mounted"
        /\ mount' = [mount EXCEPT ![p] = "uncertain"]
        /\ dir' = dir \cup {p}
        /\ PodCall(p, "idle", "create")
        /\ UNCHANGED <<entryVars, up, manager, queue, cacheVars, pod, device, annotated,
                       published, staged, raced, faults>>

SaveTargetPathBind(p) ==
    /\ \/ /\ PodCall(p, "create", "encode")
          /\ CreateFile(TargetPath(p), p)
          /\ UNCHANGED mount
       \/ /\ PodCall(p, "encode", "remember")
          /\ EncodeFile(TargetPath(p), p)
          /\ UNCHANGED mount
       \/ /\ PodCall(p, "remember", "idle")
          /\ Remember(TargetPath(p))
          /\ mount' = [mount EXCEPT ![p] = "mounted"]
    /\ UNCHANGED <<up, manager, queue, cacheVars, pod, device, annotated, backendVars, raced,
                   faults>>

\* Faulty variant: the error of the save is lost.
SetUpTargetPathFailsSilently(p) ==
    /\ Fault
    /\ \/ PodCall(p, "create", "idle")
       \/ PodCall(p, "encode", "idle")
    /\ EncodeFails(TargetPath(p), p)
    /\ mount' = [mount EXCEPT ![p] = "mounted"]
    /\ UNCHANGED <<up, manager, queue, cacheVars, pod, device, annotated, backendVars, raced>>

\* A failed save takes the directory away again; it stays if it is a mount point.
SetUpTargetPathFails(p) ==
    /\ Fault
    /\ \/ PodCall(p, "create", "idle")
       \/ PodCall(p, "encode", "idle")
    /\ EncodeFails(TargetPath(p), p)
    /\ dir' = dir \ ({p} \ published)
    /\ UNCHANGED <<up, manager, queue, cacheVars, kubeletVars, annotated, published, staged,
                   raced>>

(***************************************************************************)
(* NodeUnpublishVolume.                                                    *)
(***************************************************************************)

\* The request, and GetVolumeBind.
NodeUnpublishVolume(p) ==
    LET v == VolumeOf[p]
    IN  /\ up
        /\ volumeCall[v] = "idle"
        /\ \A q \in PodsOf(v) : podCall[q] \notin PublishSteps
        /\ pod[p] = "leaving"
        /\ mount[p] # "none"
        /\ mount' = [mount EXCEPT ![p] = "uncertain"]
        /\ PodCall(p, "idle", IF memory[Bind(v)] THEN "unpublish" ELSE "teardown")
        /\ UNCHANGED <<entryVars, up, manager, queue, cacheVars, pod, device, annotated,
                       backendVars, raced, faults>>

\* Faulty variant: the bind is deleted with the first pod that is unpublished.
UnpublishBackendAndDeleteBind(p) ==
    /\ PodCall(p, "unpublish", "teardown")
    /\ published' = published \ {p}
    /\ file' = [file EXCEPT ![Bind(VolumeOf[p])] = "absent"]
    /\ memory' = [memory EXCEPT ![Bind(VolumeOf[p])] = FALSE]
    /\ UNCHANGED <<open, up, manager, queue, cacheVars, kubeletVars, annotated, dir, staged,
                   raced, faults>>

\* The backend's NodeUnpublishVolume, with the backend's handle.  The driver
\* may remove the target path.
UnpublishBackend(p) ==
    /\ \/ /\ PodCall(p, "unpublish", "teardown")
          /\ published' = published \ {p}
          /\ dir' \in {dir, dir \ {p}}
          /\ UNCHANGED faults
       \/ /\ PodCall(p, "unpublish", "idle")
          /\ Fault
          /\ published' \in {published, published \ {p}}
          /\ UNCHANGED dir
    /\ UNCHANGED <<entryVars, up, manager, queue, cacheVars, kubeletVars, annotated, staged,
                   raced>>

\* Faulty variant: any error of os.Remove is as good as "does not exist".
TearDownTargetPathIgnoringErrors(p) ==
    /\ dir' = dir \ ({p} \ published)
    /\ raced' = IF manager[p] \in BeforePublish THEN raced \cup {p} ELSE raced
    /\ IF memory[TargetPath(p)]
       THEN PodCall(p, "teardown", "remove") /\ UNCHANGED mount
       ELSE /\ PodCall(p, "teardown", "idle")
            /\ mount' = [mount EXCEPT ![p] = "none"]
    /\ UNCHANGED <<entryVars, up, manager, queue, cacheVars, pod, device, annotated,
                   published, staged, faults>>

\* tearDownPath, which cannot remove a mount point, and what
\* DeleteTargetPathBind looks up: an entry it does not know is nothing to do.
TearDownTargetPath(p) ==
    /\ \/ /\ p \in published
          /\ PodCall(p, "teardown", "idle")
          /\ UNCHANGED <<dir, mount, raced>>
       \/ /\ p \notin published
          /\ dir' = dir \ {p}
          /\ raced' = IF manager[p] \in BeforePublish THEN raced \cup {p} ELSE raced
          /\ IF memory[TargetPath(p)]
             THEN PodCall(p, "teardown", "remove") /\ UNCHANGED mount
             ELSE /\ PodCall(p, "teardown", "idle")
                  /\ mount' = [mount EXCEPT ![p] = "none"]
    /\ UNCHANGED <<entryVars, up, manager, queue, cacheVars, pod, device, annotated,
                   published, staged, faults>>

DeleteTargetPathBind(p) ==
    /\ \/ /\ PodCall(p, "remove", "forget")
          /\ RemoveFile(TargetPath(p))
          /\ UNCHANGED mount
       \/ /\ PodCall(p, "forget", "idle")
          /\ Forget(TargetPath(p))
          /\ mount' = [mount EXCEPT ![p] = "none"]
    /\ UNCHANGED <<up, manager, queue, cacheVars, pod, device, annotated, backendVars, raced,
                   faults>>

(***************************************************************************)
(* NodeUnstageVolume.                                                      *)
(***************************************************************************)

\* Faulty variant: the bind is only deleted after an unstage call of the backend.
NodeUnstageVolumeKeepingBind(v) ==
    /\ up
    /\ NoCalls(v)
    /\ device[v] # "none"
    /\ \A p \in PodsOf(v) : mount[p] = "none" /\ pod[p] # "wanted"
    /\ device' = [device EXCEPT ![v] = "uncertain"]
    /\ VolumeCall(v, "idle", IF memory[Bind(v)] /\ v \in StagingDrivers
                             THEN "unstage" ELSE "unbind")
    /\ UNCHANGED <<entryVars, up, manager, queue, cacheVars, pod, mount, annotated,
                   backendVars, raced, faults>>

\* The request, and GetVolumeBind.
NodeUnstageVolume(v) ==
    /\ up
    /\ NoCalls(v)
    /\ device[v] # "none"
    /\ \A p \in PodsOf(v) : mount[p] = "none" /\ pod[p] # "wanted"
    /\ device' = [device EXCEPT ![v] = "uncertain"]
    /\ VolumeCall(v, "idle", IF ~memory[Bind(v)] THEN "unbind"
                             ELSE IF v \in StagingDrivers THEN "unstage" ELSE "delete")
    /\ UNCHANGED <<entryVars, up, manager, queue, cacheVars, pod, mount, annotated,
                   backendVars, raced, faults>>

\* The backend's NodeUnstageVolume, with the handle of the proxy volume.
UnstageBackend(v) ==
    LET left == staged \ {ProxyHandle(v)}
    IN  /\ \/ /\ VolumeCall(v, "unstage", "delete")
              /\ staged' = left
              /\ UNCHANGED faults
           \/ /\ VolumeCall(v, "unstage", "idle")
              /\ Fault
              /\ staged' \in {staged, left}
        /\ UNCHANGED <<entryVars, up, manager, queue, cacheVars, kubeletVars, annotated,
                       dir, published, raced>>

\* The call returns here if the backend driver does not stage volumes.
DeleteVolumeBind(v) ==
    /\ \/ /\ VolumeCall(v, "delete", "forgetbind")
          /\ RemoveFile(Bind(v))
          /\ UNCHANGED device
       \/ /\ v \in StagingDrivers
          /\ VolumeCall(v, "forgetbind", "unbind")
          /\ Forget(Bind(v))
          /\ UNCHANGED device
       \/ /\ v \notin StagingDrivers
          /\ VolumeCall(v, "forgetbind", "idle")
          /\ Forget(Bind(v))
          /\ device' = [device EXCEPT ![v] = "none"]
    /\ UNCHANGED <<up, manager, queue, cacheVars, pod, mount, annotated, backendVars, raced,
                   faults>>

UnbindStagingTargetPath(v) ==
    /\ \/ /\ VolumeCall(v, "unbind", "forgetpath")
          /\ RemoveFile(StagingTargetPath(v))
          /\ UNCHANGED device
       \/ /\ VolumeCall(v, "forgetpath", "idle")
          /\ Forget(StagingTargetPath(v))
          /\ device' = [device EXCEPT ![v] = "none"]
    /\ UNCHANGED <<up, manager, queue, cacheVars, pod, mount, annotated, backendVars, raced,
                   faults>>

-----------------------------------------------------------------------------
(***************************************************************************)
(* The informers and the handlers that queue pods.                         *)
(***************************************************************************)

Alive(p) == cached[p] \in {"wanted", "leaving"}

\* podHasProxyVolume: the claim is a proxy's and bound.
DeliverPod(p) ==
    /\ up
    /\ cached[p] # pod[p]
    /\ cached' = [cached EXCEPT ![p] = pod[p]]
    /\ queue' = IF "claim" \in known[VolumeOf[p]] THEN queue \cup {p} ELSE queue
    /\ UNCHANGED <<entryVars, up, callVars, manager, known, kubeletVars, annotated,
                   backendVars, raced, faults>>

\* A pod's status changed, or the informer resynced.
PodUpdated(p) ==
    /\ up
    /\ Alive(p)
    /\ "claim" \in known[VolumeOf[p]]
    /\ queue' = queue \cup {p}
    /\ UNCHANGED <<entryVars, up, callVars, manager, cacheVars, kubeletVars, annotated,
                   backendVars, raced, faults>>

\* What each handler has to find in the caches to get from its object to the
\* proxy claim, and from there to the pods.
HandlerNeeds(object) ==
    CASE object = "claim"      -> {"claim"}
      [] object = "backend"    -> {"backend", "claim"}
      [] object = "volume"     -> {"volume", "backend", "claim"}
      [] object = "attachment" -> Objects

DeliverObject(v, object) ==
    /\ up
    /\ object \notin known[v]
    /\ known' = [known EXCEPT ![v] = @ \cup {object}]
    /\ queue' = IF HandlerNeeds(object) \subseteq known'[v]
                THEN queue \cup {p \in PodsOf(v) : Alive(p)} ELSE queue
    /\ UNCHANGED <<entryVars, up, callVars, manager, cached, kubeletVars, annotated,
                   backendVars, raced, faults>>

-----------------------------------------------------------------------------
(***************************************************************************)
(* The volume manager's sync of a pod.                                     *)
(***************************************************************************)

ManagerStep(p, from, to) ==
    /\ manager[p] = from
    /\ manager' = [manager EXCEPT ![p] = to]

\* The sync returns an error, and the key is put back with a delay.
Requeue(p, from) ==
    /\ ManagerStep(p, from, "idle")
    /\ queue' = queue \cup {p}

\* Faulty variant: a target path that is not there yet is not an error.
NothingToSyncWithoutTargetPath(p) ==
    \/ cached[p] = "leaving"
    \/ /\ cached[p] = "wanted"
       /\ \/ ~({"claim", "backend"} \subseteq known[VolumeOf[p]])
          \/ ~memory[TargetPath(p)]

\* Nothing to do for a pod that is leaving, nor before the claims are bound.
NothingToSync(p) ==
    \/ cached[p] = "leaving"
    \/ cached[p] = "wanted" /\ ~({"claim", "backend"} \subseteq known[VolumeOf[p]])

ReadyToMount(p) ==
    /\ cached[p] = "wanted"
    /\ known[VolumeOf[p]] = Objects
    /\ memory[TargetPath(p)]

\* sync and syncVolume up to the attachment.  The third case, a pod, volume or
\* target path that is missing or an attachment to wait for, puts the key back.
SyncPod(p) ==
    /\ up
    /\ p \in queue
    /\ manager[p] = "idle"
    /\ \/ /\ NothingToSync(p)
          /\ queue' = queue \ {p}
          /\ UNCHANGED <<manager, raced>>
       \/ /\ ReadyToMount(p)
          /\ queue' = queue \ {p}
          /\ ManagerStep(p, "idle", "save")
          /\ raced' = IF podCall[p] \in {"remove", "forget"} THEN raced \cup {p} ELSE raced
       \/ /\ ~NothingToSync(p)
          /\ ~ReadyToMount(p)
          /\ UNCHANGED <<queue, manager, raced>>
    /\ UNCHANGED <<entryVars, up, callVars, cacheVars, kubeletVars, annotated, backendVars,
                   faults>>

SaveVolumeBind(p) ==
    LET v == VolumeOf[p]
    IN  /\ \/ /\ ManagerStep(p, "save", "encode")
              /\ CreateFile(Bind(v), p)
              /\ UNCHANGED <<queue, faults>>
           \/ /\ ManagerStep(p, "encode", "remember")
              /\ EncodeFile(Bind(v), p)
              /\ UNCHANGED <<queue, faults>>
           \/ /\ Requeue(p, "encode")
              /\ Fault
              /\ EncodeFails(Bind(v), p)
           \/ /\ ManagerStep(p, "remember", IF v \in StagingDrivers THEN "stage" ELSE "publish")
              /\ Remember(Bind(v))
              /\ UNCHANGED <<queue, faults>>
        /\ UNCHANGED <<up, callVars, cacheVars, kubeletVars, annotated, backendVars, raced>>

\* A backend driver that stages volumes gets the path the kubelet staged at.
StagingPathKnown(v) == v \in StagingDrivers => memory[StagingTargetPath(v)]

mountDevice(p) ==
    LET v == VolumeOf[p]
        more == staged \cup {BackendHandle(v)}
    IN  /\ \/ /\ StagingPathKnown(v)
              /\ ManagerStep(p, "stage", "publish")
              /\ staged' = more
              /\ UNCHANGED <<queue, faults>>
           \/ /\ StagingPathKnown(v)
              /\ Requeue(p, "stage")
              /\ Fault
              /\ staged' \in {staged, more}
           \/ /\ ~StagingPathKnown(v)
              /\ Requeue(p, "stage")
              /\ UNCHANGED <<staged, faults>>
        /\ UNCHANGED <<entryVars, up, callVars, cacheVars, kubeletVars, annotated, dir,
                       published, raced>>

\* Faulty variant: the error of the backend's NodePublishVolume is lost.
setUpAtIgnoringError(p) ==
    /\ \/ /\ ManagerStep(p, "publish", "annotate")
          /\ published' = published \cup {p}
          /\ dir' = dir \cup {p}
          /\ UNCHANGED <<queue, faults>>
       \/ /\ ManagerStep(p, "publish", "annotate")
          /\ Fault
          /\ UNCHANGED <<queue, published, dir>>
    /\ UNCHANGED <<entryVars, up, callVars, cacheVars, kubeletVars, annotated, staged, raced>>

\* The backend's NodePublishVolume; the driver makes the target path if it is
\* not there, and refuses a volume it has not staged.
setUpAt(p) ==
    LET v == VolumeOf[p]
        accepted == /\ StagingPathKnown(v)
                    /\ v \in StagingDrivers => BackendHandle(v) \in staged
    IN  /\ \/ /\ accepted
              /\ ManagerStep(p, "publish", "annotate")
              /\ published' = published \cup {p}
              /\ dir' = dir \cup {p}
              /\ UNCHANGED <<queue, faults>>
           \/ /\ accepted
              /\ Requeue(p, "publish")
              /\ Fault
              /\ \/ published' = published \cup {p} /\ dir' = dir \cup {p}
                 \/ UNCHANGED <<published, dir>>
           \/ /\ ~accepted
              /\ Requeue(p, "publish")
              /\ UNCHANGED <<published, dir, faults>>
        /\ UNCHANGED <<entryVars, up, callVars, cacheVars, kubeletVars, annotated, staged,
                       raced>>

\* The patch of the pod.  It carries the version of the pod it was prepared
\* from, so it is refused once the pod is being deleted.  A pod that did not
\* have the annotation yet comes back as an update.
annotateMounted(p) ==
    /\ \/ /\ pod[p] = "wanted"
          /\ ManagerStep(p, "annotate", "idle")
          /\ annotated' = annotated \cup {p}
          /\ queue' = IF p \in annotated THEN queue ELSE queue \cup {p}
          /\ UNCHANGED faults
       \/ /\ pod[p] # "wanted"
          /\ Requeue(p, "annotate")
          /\ UNCHANGED <<annotated, faults>>
       \/ /\ Requeue(p, "annotate")
          /\ Fault
          /\ annotated' \in {annotated} \cup IF pod[p] = "wanted" THEN {annotated \cup {p}} ELSE {}
    /\ UNCHANGED <<entryVars, up, callVars, cacheVars, kubeletVars, backendVars, raced>>

-----------------------------------------------------------------------------
(***************************************************************************)
(* The process.  Mounts and files outlive it.                              *)
(***************************************************************************)

Crash ==
    /\ up
    /\ Fault
    /\ up' = FALSE
    /\ LoseMemory
    /\ podCall' = [p \in Pods |-> "idle"]
    /\ volumeCall' = [v \in Volumes |-> "idle"]
    /\ manager' = [p \in Pods |-> "idle"]
    /\ queue' = {}
    /\ cached' = [p \in Pods |-> "absent"]
    /\ UNCHANGED <<known, kubeletVars, annotated, backendVars, raced>>

\* The three managers read their files, and the informers list what there is
\* by now: every pod whose claim is bound is queued, whichever comes first.
Start ==
    /\ ~up
    /\ Recreate
    /\ up' = TRUE
    /\ cached' = pod
    /\ known' \in [Volumes -> SUBSET Objects]
    /\ \A v \in Volumes : known[v] \subseteq known'[v]
    /\ queue' = {p \in Pods : pod[p] \in {"wanted", "leaving"} /\ "claim" \in known'[VolumeOf[p]]}
    /\ UNCHANGED <<callVars, manager, kubeletVars, annotated, backendVars, raced, faults>>

-----------------------------------------------------------------------------
KubeletCall(p) ==
    \/ NodePublishVolume(p)
    \/ SaveTargetPathBind(p)
    \/ SetUpTargetPathFails(p)
    \/ NodeUnpublishVolume(p)
    \/ UnpublishBackend(p)
    \/ TearDownTargetPath(p)
    \/ DeleteTargetPathBind(p)

KubeletDeviceCall(v) ==
    \/ NodeStageVolume(v)
    \/ BindStagingTargetPath(v)
    \/ NodeUnstageVolume(v)
    \/ UnstageBackend(v)
    \/ DeleteVolumeBind(v)
    \/ UnbindStagingTargetPath(v)

VolumeManager(p) ==
    \/ SyncPod(p)
    \/ SaveVolumeBind(p)
    \/ mountDevice(p)
    \/ setUpAt(p)
    \/ annotateMounted(p)

Next ==
    \/ \E p \in Pods :
        \/ CreatePod(p)
        \/ DeletePod(p)
        \/ RemovePod(p)
        \/ DeliverPod(p)
        \/ PodUpdated(p)
        \/ KubeletCall(p)
        \/ VolumeManager(p)
    \/ \E v \in Volumes :
        \/ KubeletDeviceCall(v)
        \/ \E object \in Objects : DeliverObject(v, object)
    \/ KubeletRestart
    \/ Crash
    \/ Start

Spec == Init /\ [][Next]_vars

(***************************************************************************)
(* The kubelet retries its calls and runs them to their end, the workers   *)
(* of the volume manager take every key in turn, the informers receive,    *)
(* and a container that exits is started again.  Nothing says that claims  *)
(* are bound, volumes attached or pods deleted.                            *)
(***************************************************************************)
Fairness ==
    /\ \A p \in Pods :
        /\ WF_vars(KubeletCall(p))
        /\ WF_vars(RemovePod(p))
        /\ WF_vars(DeliverPod(p))
        /\ WF_vars(VolumeManager(p))
    /\ \A v \in Volumes : WF_vars(KubeletDeviceCall(v))
    /\ WF_vars(Start)

FairSpec == Spec /\ Fairness

-----------------------------------------------------------------------------
(***************************************************************************)
(* Properties.                                                             *)
(***************************************************************************)

\* A mount can be undone after any crash: while the backend volume is mounted
\* at a pod's target path the bind names it, on disk and in the map, so that
\* NodeUnpublishVolume knows whom to call (nodeserver.go:222).  This needs the
\* bind to be saved before the first backend call (sync_volume.go:123) and to
\* be deleted after the last pod is unpublished.  Pods whose sync overlapped
\* the end of their unpublish are excepted; see README.
MountedIsRecorded ==
    \A p \in published \ raced :
        /\ file[Bind(VolumeOf[p])] # "absent"
        /\ up => memory[Bind(VolumeOf[p])]

\* What the kubelet was told is done stays recorded, through crashes, repeated
\* calls and failed saves: a published pod has its target path (without it
\* the volume manager would wait forever, sync_volume.go:50), a staged volume
\* its staging path.
AcknowledgedIsRecorded ==
    /\ \A p \in Pods : mount[p] = "mounted" =>
        /\ file[TargetPath(p)] = "valid"
        /\ up => memory[TargetPath(p)]
    /\ \A v \in Volumes : device[v] = "staged" =>
        /\ file[StagingTargetPath(v)] = "valid"
        /\ up => memory[StagingTargetPath(v)]

\* When the kubelet was told that a pod's volume is unpublished nothing of it
\* is left: no mount, no directory, no entry; and when it was told that the
\* volume is unstaged no entry of it is left (a driver that does not stage
\* keeps its staging path, nodeserver.go:118-127).
NothingLeftBehind ==
    /\ \A p \in Pods \ raced : mount[p] = "none" =>
        /\ p \notin published
        /\ p \notin dir
        /\ file[TargetPath(p)] # "valid"
        /\ ~memory[TargetPath(p)]
    /\ \A v \in Volumes : (device[v] = "none" /\ PodsOf(v) \cap raced = {}) =>
        /\ file[Bind(v)] # "valid"
        /\ ~memory[Bind(v)]
        /\ v \in StagingDrivers => /\ file[StagingTargetPath(v)] = "absent"
                                   /\ ~memory[StagingTargetPath(v)]

\* The volume-mounted annotation, on which the wait sidecar lets the pod's
\* containers go, is on a pod that stays only while its volume is mounted
\* (sync_volume.go:174-184), however often calls are repeated or fail.
AnnotatedIsMounted ==
    \A p \in annotated : pod[p] = "wanted" => p \in published

\* Only a crash in the middle of a save, or a save that failed, leaves a file
\* that keeps the process from starting.
NotStartable == ~up /\ \E k \in Entries : file[k] = "torn"

\* A pod whose claims are bound and whose volume is attached gets its volume
\* and the annotation: no order of events, kubelet calls, failures and
\* restarts makes the volume manager forget it.
PodGetsItsVolume ==
    \A p \in Pods :
        (pod[p] = "wanted" /\ known[VolumeOf[p]] = Objects)
            ~> (p \in annotated \/ pod[p] # "wanted" \/ NotStartable)

\* A pod that is deleted goes, even if the volume manager mounts its volume
\* again while the kubelet unpublishes it; and its volume's device follows.
TeardownCompletes ==
    /\ \A p \in Pods : (pod[p] = "leaving") ~> (pod[p] = "gone" \/ NotStartable)
    /\ \A v \in Volumes :
        (\A p \in PodsOf(v) : pod[p] = "gone") ~> (device[v] = "none" \/ NotStartable)

\* "so that the driver can proxy NodeUnstageVolume calls to backend drivers"
\* (nodeserver.go:277): a volume the kubelet was told is unstaged is not
\* staged by the backend driver.
UnstageIsProxied ==
    \A v \in Volumes :
        (device[v] = "none" /\ PodsOf(v) \cap raced = {}) => BackendHandle(v) \notin staged

\* No lost wake-up in the volume manager: a pod whose claims are bound and which is
\* not annotated is queued, being synced, or about to be delivered, although a
\* sync that finds a claim unbound ends without an error (sync.go:97) and only the
\* handlers of the other objects bring the pod back.
WaitingPodIsQueued ==
    \A p \in Pods :
        (/\ up /\ pod[p] = "wanted" /\ p \notin annotated
         /\ {"claim", "backend"} \subseteq known[VolumeOf[p]])
            => p \in queue \/ manager[p] # "idle" \/ cached[p] # pod[p]
-----------------------------------------------------------------------------
(***************************************************************************)
(* The abstract specification under the refinement mapping.  Pods whose    *)
(* sync overlapped the end of their unpublish are not taken for mounted.   *)
(***************************************************************************)

recorded == {v \in Volumes : file[Bind(v)] # "absent"}
mounted == published \ raced

Mounts == INSTANCE PodMounts WITH recorded <- recorded, mounted <- mounted

\* The kubelet's calls, the volume manager's syncs and the managers' files
\* implement PodMounts, with the crashes, failures and repeated calls of both sides.
ImplementsPodMounts == Mounts!Spec
=============================================================================
