# TLA+ for proxy-csi-driver

Specifications of the proxy CSI driver, their model checking with TLC and their
proofs with TLAPS. Each part of the driver has a module: the controllers that bind
*proxy* PersistentVolumeClaims to *backend* PersistentVolumeClaims (`PVCBinding`), the
controller that attaches the backend's volume to the pod's node (`AttachDetach`), the
node-server that mounts it where the kubelet wants the proxy's (`NodeVolumes`), what it tells
the backend's driver and how it gives the files to the pod's group (`VolumeSetup`), the signal that
starts the pod's containers (`StartSignal`), and the CSI controller service (`ProxyVolumes`).
Paths below are relative to the repository root (`src/` here).

A pod uses a **proxy** claim, provisioned by `proxy.csi.scylladb.com`. The proxy
names a **backend** claim in an annotation; once the backend exists and is free
the driver binds the two, attaches the backend's volume to the pod's node and
mounts it under the directory the kubelet was told to use for the proxy. So a pod
may be scheduled and started before the storage it is going to use is there.

## 1. Inventory

| component | state | operations | talks to |
|---|---|---|---|
| proxy PVC controller `pkg/attachdetach/controller/persistentvolumeclaim/proxy` | workqueue; informer cache (shared by the three PVC controllers) | `sync`, `syncUnbound`, `bind` (two Updates: `proxy-pvc-ref` on the backend, `delayed-pvc-bind-completed` on the proxy) | API server |
| backend PVC controller `.../backend` | workqueue | `sync` (two cached reads, one live read), `releaseBackendPVC` | API server |
| backend protection controller `.../backend/protection` | workqueue | `sync`, `addFinalizer`, `removeFinalizer` | API server |
| attach/detach pod controller `pkg/attachdetach/controller/pod` | workqueue; caches of pods, PVCs, PVs, VolumeAttachments, CSIDrivers | `sync`, `syncVolume`, `makeVolumeAttachment`, multi-attach check | API server |
| CSI controller service `pkg/driver/controllerserver.go` | none | `CreateVolume` (validation), no-ops, the rest unimplemented | external-provisioner, external-attacher |
| CSI node service `pkg/driver/nodeserver.go` | the three managers below | `NodeStageVolume`, `NodePublishVolume`, `NodeUnpublishVolume`, `NodeUnstageVolume` | kubelet, backend driver, managers |
| target path binder `pkg/targetpathbind` | target path by pod and volume, in memory and one JSON file each | `SetUpTargetPath`, `TearDownTargetPath`, `GetTargetPath` | disk |
| volume bind state `pkg/volume/bindstate` | backend volume by proxy volume, memory and file | `Save`, `Delete`, `Get` | disk |
| staging target path bind state `pkg/stagingtargetpathbindstate` | staging path by proxy volume, memory and file | `Bind`, `Unbind`, `Get` | disk |
| volume manager pod controller `pkg/volumemanager/controller/pod` | workqueue; caches | `sync`, `syncVolume` (wait for the attachment, stage, publish, annotate the pod) | API server, backend driver, managers |
| CSI client and driver registry `pkg/volume/csi` | socket address by driver, fixed at start | Node* calls, capability questions, access mode mapping | backend drivers |
| volume ownership `pkg/thirdparty/.../volume_linux.go` | the volume's file system | `SetVolumeOwnership`, `requiresPermissionChange`, the walk | disk |
| wait sidecar `pkg/wait` | signal file | `sync`, `evaluateAnnotations` | API server, the pod's own container |
| processes `pkg/cmd/proxy-csi-driver` | - | start, restart | all of the above |

The controllers of one process share nothing but the informer caches; controllers
and processes interact through the API objects only, the node service and the
volume manager also through the managers' files and maps.

What is hard about it:

* every decision is made on a **cached copy** and carried out later, under the
  API server's optimistic concurrency (`resourceVersion`);
* a **binding is two writes** to two objects, and a third controller undoes the
  first of them;
* calls conflict, fail, or **fail after they were applied**; a process dies
  between any two steps and starts again with what the API server holds;
* a claim that cannot be served is dropped from the queue: **events of other
  objects** have to bring it back;
* on the node, kubelet calls and the volume manager work on the same files
  concurrently, and files and memory are updated in two steps;
* pods **follow each other under one name**, while the driver reads and patches by name;
* a walk over a file system can end anywhere, and the next one **looks at the root only**;
* the backend's driver is asked for its capabilities several times, and may be **replaced by another version in between**;
* the kubelet **repeats its calls** over what is mounted already, and one of them changes the mode of the target path.

What makes each component correct:

* PVC controllers: exclusive bindings; a bound proxy holds its backend; no backend
  is taken from a live proxy; the backend stays protected while it is claimed;
  waiting proxies and orphaned backends are served in the end.
* attach/detach: no volume attached to a second node while a single-node volume is
  in use; an attachment for every pod that waits for one.
* node service, managers and volume manager: what is staged and published is what is
  unpublished and unstaged, across restarts; memory and disk agree.
* CSI client and ownership: the driver and the volume manager come to the same volume though they
  answer and ask several times; when the pod has its volume all the files are its group's.
* wait: the signal is given only when every volume the pod waits for is mounted, and in the end it is.
* CSI controller service: what it creates can be published, and on one node at a time.
* every controller: it may drop a key that it cannot serve yet only because a later event is sure to queue it
  again (no *wake-up* is lost).

The hazards, line by line, are in `PROJECT.json`.

## 2. Modules

| module | what it is |
|---|---|
| `PVCBinding` | the three PVC controllers, their shared informer, the API server |
| `ExclusiveBinding` | what they promise together, without caches, queues and failures |
| `MCPVCBinding` | instances for TLC |
| `PVCBindingProofs` | type correctness, no lost wake-up of the proxy and protection controllers |
| `PVCBindingSafetyProofs` | the safety properties, no lost wake-up of the backend controller, and that `PVCBinding` implements `ExclusiveBinding` |
| `BindState` | the three managers that keep a map in memory and one file per entry |
| `NodeVolumes` | CSI node service, target path binder, volume manager and process of the node-server, over `BindState`; kubelet, backend driver and informers as they see them |
| `PodMounts` | what the node-server promises, without process, caches and failures |
| `MCNodeVolumes` | instances for TLC |
| `NodeVolumesProofs` | type correctness, the annotation, what the kubelet was told, no lost wake-up of the volume manager |
| `NodeVolumesMountProofs` | while a volume is mounted its bind is recorded; what was unmounted and unstaged left nothing; `NodeVolumes` implements `PodMounts` |
| `AttachDetach`, `MCAttachDetach` | attach/detach pod controller, VolumeAttachments and who else writes them |
| `ExclusiveAttachment` | what the controller-server promises of a volume for one node |
| `AttachDetachProofs` | type correctness, exclusive attachment, that `AttachDetach` implements `ExclusiveAttachment`, no lost wake-up |
| `StartSignal`, `MCStartSignal` | volume managers that annotate, wait sidecars that signal, pods of one name |
| `StartSignalProofs` | type correctness, what annotations and signals speak of, no lost wake-up of manager and sidecar |
| `VolumeSetup`, `MCVolumeSetup` | one volume's staging, publishing and ownership for pods that follow each other |
| `VolumeSetupProofs` | type correctness, who owns the files, what the root says of them |
| `ProxyVolumes`, `MCProxyVolumes` | a proxy volume from `CreateVolume` to `NodePublishVolume` |
| `ProxyVolumesProofs` | its types, one node at a time, what was created is published |

The parts meet in the API server's objects, and each module takes from the others what they bring
about. That a proxy claim is bound to a backend claim (`PVCBinding`) is for `NodeVolumes` and
`AttachDetach` an object that informers come to see; that the backend is attached (`AttachDetach`)
another one. `AttachDetach` lets the proxy volume be attached to one node at a time, which
is `OneNode` of `ProxyVolumes`. In `StartSignal` a volume is *ready* when `NodeVolumes` has the target path and
the attachment, and in `VolumeSetup` one sync of `NodeVolumes` between `SaveVolumeBind` and
`annotateMounted` is taken apart.

### PVCBinding and the code

* `store` is what the API server holds under each name; a `PVC` is the part of the
  object the controllers look at. `rv` is the resourceVersion; a deleted name keeps
  its last version, so no version comes back.
* `watch`, `cached`: the events the informer has not yet seen, and its cache.
  client-go's DeltaFIFO keeps the order of events per object and not across objects,
  so there is one sequence per name. `Deliver` updates the cache and runs the event
  handlers of the three controllers; each handler is the function of its name in
  `controller.go`.
* `queue`: per controller, the keys to be synced. Like the workqueue it is a set and
  gives a key to one worker at a time (`Dequeue`); errors, `AddRateLimited` in the
  code, put the key back (`Requeue`), delays are abstracted from.
* `proxyWorker`, `backendWorker`, `protectionWorker`: the sync in progress for each
  key, with the object copies it has read and where it is. One action is one lister
  read or one API call: `ProxySync`, `syncUnbound`, `bindBackendPVCToProxyPVC`,
  `completeProxyPVCBind`; `BackendSync`, `BackendGetProxy`, `releaseBackendPVC`;
  `ProtectionSync`, `addFinalizer`, `removeFinalizer`. `BackendSync` makes both lister
  reads at once: the second only decides whether to go on to the live read.
* `Write` is a call that changes an object: it is answered, refused (conflict, not
  found), fails before it was applied, or fails after. The API server accepts a write
  only at the version it was prepared from (`Accepted`), which holds for the two
  controllers that `Update` a copied object and for the patches of `finalizers.go`,
  which carry the version.
* The environment: users create claims, delete them (a mark first, then `Expunge`,
  since Kubernetes puts its own protection finalizer on every claim), and anyone
  may change the rest of an object (`EditClaim`), which only moves its version. `Resync`
  is the periodic resync (12 h). `Restart` is the death and the start of the process,
  anywhere; it lists every object. The handlers' panic on a tombstone (a deletion
  missed by the watch, `proxy/controller.go:191`) is a `Restart` too.

Left out on purpose: a claim enters the model when it has its provisioner annotation,
so "is a proxy" is `backendRef # None`; an empty reference annotation counts as none; the request
annotation of a claim does not change while the claim exists; handlers run together
with the cache update (client-go may run them later, when the cache is only newer); a
broken watch resumes where it stopped, and a relist is part of `Restart` only.

### BindState, NodeVolumes and the code

* `pkg/volume/bindstate`, `pkg/targetpathbind/state` and `pkg/stagingtargetpathbindstate` are
  the same code three times, and `BindState` is it once, over keys that say which of
  the three they belong to. A `Save` is `CreateFile` (`os.Create`, which also empties a file),
  `EncodeFile`, `Remember` (the map); a `Delete` is `RemoveFile`, `Forget`. Only the map is under
  the mutex, so any of these interleave. `file` is `torn` from the first step to the second, and
  stays so if the process dies or the encoding fails. `open` says whose descriptor is still of
  the file at that path. `LoseMemory` is the death of the process, `Recreate` is
  `NewPersistentStateManager`, which refuses to start on a file it cannot decode.
* `podCall`, `volumeCall`: where the call the kubelet has in progress for a pod or a volume is.
  One action is one access to a map, a file, the directory, or one call of the backend driver,
  in the order of `nodeserver.go` and `targetpathbind/manager.go`: `NodePublishVolume`
  (request and directory), `SaveTargetPathBind`, `SetUpTargetPathFails`; `NodeUnpublishVolume`
  (request and lookup of the bind), `UnpublishBackend`, `TearDownTargetPath`,
  `DeleteTargetPathBind`; `NodeStageVolume`, `BindStagingTargetPath`; `NodeUnstageVolume`,
  `UnstageBackend`, `DeleteVolumeBind`, `UnbindStagingTargetPath`.
* `manager`, `queue`: the volume manager's sync of each pod and its workqueue. `SyncPod` is
  `sync` and `syncVolume` up to the attachment (dropped, put back, or carried on), then
  `SaveVolumeBind`, `mountDevice`, `setUpAt`, `annotateMounted`. A sync that returns an error puts
  the key back (`Requeue`).
* `cached` is the pod informer's cache, `known` which of the other objects (`Objects`: bound proxy
  claim, backend claim with its volume name, the volume, an attached VolumeAttachment) the
  informers have shown. `DeliverPod`, `DeliverObject`, `PodUpdated` run the handlers of
  `controller.go`; `HandlerNeeds` is what each handler must find in the caches to get to the pods.
* `dir`, `published`, `staged`: what the target path and the backend driver are in. They and
  the files outlive `Crash`.
* `pod`, `mount`, `device`: the API server's pod, and what the kubelet believes. The kubelet and the
  backend driver are external: they are modelled by what the code relies on. The kubelet runs one call
  per volume at a time, unpublish calls of different pods in parallel; it holds a
  volume for *uncertain* from the start of a call until it was told the end; it publishes what
  it believes staged, unstages what no pod has or wants, and repeats calls, also after its own
  restart. A backend call succeeds, fails, or fails after it was applied.
* `raced` is a history variable: the pods whose sync was between the lookup of the target path
  (`sync_volume.go:50`) and the mount while their unpublish call took that path down. See below.

Left out: a pod has one proxy volume; what is in the objects (access modes, affinity, lifecycle mode,
fsGroup); the deletion of claims and attachments under a pod that uses them; pods that end without
being deleted; the mode of the directory (`setUpPath`, which `VolumeSetup` has); backend drivers without attach; `os.Remove` and
reads do not fail; a crash is of the process, not of the machine (the code never syncs its files);
an entry is encoded by one write.

### AttachDetach and the code

* `views` is the history of the VolumeAttachments from what the informer has cached (its head) to what the API
  server holds (its last): `proxy` is the UID of the attachment Kubernetes made for the proxy volume on each
  node, `backend` the one the controller makes next to it. `ObserveAttachment` drops the head and runs
  the handler.
* `worker`: the sync of each pod. `SyncDone` is a sync that is dropped, `SyncVolume` one that gets through the
  multi-attach check of `syncVolume`; `ReadAttachment` and `Apply` are the cached read and the call of
  `ApplyVolumeAttachment`. The lister reads of one sync are one step, except the read
  of the attachment it is about to apply. A sync that fails leaves its key queued and takes no step.
* `seen`: which claims, bindings, volumes and driver object the other informers have shown; `Observe`
  runs the handler of each, which finds pods through the other caches.
* Environment: Kubernetes attaches the proxy volume for a running pod and detaches it when no running
  pod wants it; `CollectGarbage` deletes an object whose owner is gone; `Attach` and `Detach` are
  the external-attacher with its finalizer; `storage` is where the backend's storage is attached.
* `orphan` is a history field: when the owner reference was written, no proxy attachment had that UID.

Left out: several volumes of a pod (one is followed); claims and volumes do not go away; backends
without attach (`AttachRequired` is TRUE in every run).

### StartSignal and the code

* `pod` is what the API server holds under one name; `phase`, `ready`, `mounted`, `signal` say what became of
  each UID on its node. `ForcedDeletion` removes a pod from the API server while it runs.
* `worker[n]` is the sync of the volume manager of a node (`sync.go`, `sync_volume.go:174-190`): it takes
  the volumes one after the other (`SkipVolume`, `MountVolume`, in any order), and prepares each annotation patch
  from the copy it started with (`AnnotateMounted`), so that the second of a sync conflicts.
* `sidecar[u]`: `StartSidecar` is `Validate`, `Complete` and `Execute`, which refuse to start over a
  signal file; `SyncSidecar` evaluates the annotations of the pod under the name, `TouchFile` creates
  the file, and may fail after it has. `Watched` are the pods with a sidecar.

Simplified: an informer delivery jumps to the pod the API server holds now; when a volume
gets ready is left to `NodeVolumes`.

### VolumeSetup and the code

* `staged` and `published` say whether `NodeStageVolume` and `NodePublishVolume` have taken effect for the pod.
  `mountDevice`, `setUpAt` are `sync_volume.go`'s functions step by step, each question to the driver
  (`Supports`, `client.go:268`) an action of its own, since another version of the driver, newer or older, may
  answer the next one (`ReplaceDriver`). `told` is a history variable: a publishing that took effect carried the
  pod's group, so the driver has it in hand.
* `setUpPath` is what `NodePublishVolume` of the proxy does to a target path that exists (`targetpathbind/manager.go:87-109`): when
  the kubelet repeats the call, it is the root of the mounted backend, and it loses setgid and the group's bits. It
  may come at any time, in the middle of a walk too. The rest of that call is in `NodeVolumes`.
* `exists`, `group`, `open`: the files, their groups, and those that have the mode bits of the mask, setgid
  included, of which the code looks at nothing finer. `SetVolumeOwnership`, `EnterDirectory`, `Lchown`, `Chmod`
  are the walk: the children of a directory are listed when it is entered, the directory itself is changed after them.
* `passed` is a history variable, the files that nobody vouches for: those for which an error of `Lchown` or `Chmod` was
  logged and passed over (`volume_linux.go:71-102`), the root after `setUpPath`, what containers make in either, and what
  they make while a volume whose driver was told the group is walked over, see below. A file leaves it when it is changed as it
  should be. A file that is the group's or passed is `Settled`, which is the most a walk can do for it.
* `EndSync` is any error or crash in a sync; a call that failed after it took effect is `EndSync` after its step.
  `VolumeInUse`, `CreateFile`, `RemoveFile` are the pod's containers.

Simplified: one pod at a time, the next one while no sync runs; directories are fixed, containers make and
remove plain files; raw block, `readOnly`, the access mode of a call, secrets and attributes are data that no step
depends on (`mountDevice`, `sync_volume.go:311-314`, and `setUpAt`, `:444-463`, work the access mode out each for itself; the
question about `SINGLE_NODE_MULTI_WRITER`, `client.go:217`, can only fail, as the others can). The API server sets the
defaults of CSIDriver. The time between the answer about `VOLUME_MOUNT_GROUP` and the call that relies on it is not modelled
as the driver's: `told` is what the call carried.

### ProxyVolumes and the code

`claim` is the claim and what its storage class adds; `CreateVolumeAccepts` is the validation of `CreateVolume`,
one capability per access mode; `ControllerPublishVolume` accepts every node and is guarded by the
attach/detach controller's own check of the access modes; `NodePublishVolume` validates the
capability of the first mode and the volume context, which the kubelet fills because
`deploy/kubernetes/10_csidriver.yaml` sets `podInfoOnMount`. `CreateStatic` is a PersistentVolume nobody provisioned.

Definitions commented as *faulty variant* are not used by the specification. Each is
what a plausible mistake would make of the definition below it, and the property it
breaks is named in `PROJECT.json` (`mutants`): the properties can fail.

## 3. What the runs check

The properties are at the end of each module:

* `PVCBinding`: `BoundProxyHoldsBackend`, `NoSharedBackend`, `ClaimNotStolen`, `FinalizerGuardsClaim` (safety);
  `WaitingProxyIsQueued`, `UnsettledBackendIsQueued`, `OrphanIsQueued` (no lost wake-up); `OrphanReleased`,
  `BindingCompletes`, `ProtectionSettles` (liveness); `BindingInvariant` (the inductive invariant);
  `ImplementsExclusiveBinding` (refinement).
* `NodeVolumes`: `MountedIsRecorded`, `AcknowledgedIsRecorded`, `NothingLeftBehind`, `AnnotatedIsMounted` (safety);
  `WaitingPodIsQueued` (no lost wake-up); `PodGetsItsVolume`, `TeardownCompletes` (liveness); `ImplementsPodMounts` (refinement).
* `AttachDetach`: `ExclusivelyAttached` (safety); `UnservedPodIsQueued` (no lost wake-up); `PodGetsItsAttachment`,
  `AttachmentFollowsProxy` (liveness); `ImplementsExclusiveAttachment` (refinement).
* `StartSignal`: `SignalledIsMounted`, `AnnotatedForItself` (safety); `UnannotatedPodIsQueued`,
  `UnsignalledPodIsQueued` (no lost wake-up); `PodIsSignalled`, `SyncsSettle` (liveness).
* `VolumeSetup`: `OwnedByGroup`, `RootSpeaksForAll` (safety); `PodGetsVolume` (liveness).
* `ProxyVolumes`: `OneNode`, `CreatedIsPublishable` (safety).

`TypeOK` of each module is proved for all instances (section 4), so no run spends its time on it.

*No lost wake-up*: work that is there to be done is queued, in a sync, or an event that is not yet delivered
will queue it. It is the part of each liveness property that is not fairness, and the part in which the mistakes are:
which handler queues which key, what it must find in the caches to do so, and when a sync may return without an
error. Unlike the liveness properties it is an invariant, so it is proved for all instances.

| run | instance | shows |
|---|---|---|
| `binding` | two proxies, one backend, 4 acts of others, 2 failures, no name used twice | the safety properties, the inductive invariant and the refinement; no controller loses a wake-up |
| `binding_progress` | the same with no failure, or one proxy with 1 failure, fairness | binding, release and protection come about; the loser gets the backend when the winner goes |
| `shared` (violation) | the name of a proxy is used again | `NoSharedBackend` fails |
| `node_crash` | one pod, with a driver that stages or one that does not, 3 faults, fairness | the safety properties on the node and the refinement of `PodMounts`; a pod gets its volume and is never forgotten, and a deleted pod goes |
| `node_twopods` | two pods of one volume that is attached, 1 fault | two syncs and two calls on one bind, which outlives the last mount and no longer |
| `node_unstage` (violation) | one pod, no fault | `NodeUnstageVolume` does not unstage what was staged |
| `attach` | two pods on two nodes, an exclusive volume, nothing in the caches, 1 fault, fairness | attachments made in time are on one node, and pass from node to node by the rules of `ExclusiveAttachment`; the volume moves, and whichever object is seen last the pod is queued and attached |
| `ad_handle` (violation) | a PersistentVolume not named as its handle | the multi-attach check finds nothing |
| `ad_unpublish` (violation) | one pod that comes back, fairness | an applied attachment loses its finalizer and the detach |
| `signal` | two pods of one name and two volumes on a node, 1 fault, fairness | annotations and signals speak of their pod, every pod is signalled and neither process forgets one, the manager comes to rest |
| `setup` | two pods, four kinds of volumes, every driver, 1 change of it to any other, any number of repeated `NodePublishVolume` calls, 1 fault, fairness | the files are the group's, the root speaks for all, and the pod gets its volume |
| `proxy_lifecycle` | every claim, two nodes | created volumes are publishable and on one node |

**Bounds.** `MaxOps` bounds what users and other writers do, `MaxFaults` the failed calls,
resyncs and restarts together. Three acts create the claims; the fourth (and the fifth in `shared`) is
enough to delete the winner or one more claim, or to move a version in the middle of
anybody's sync. One fault covers each single failure at each point, two a failure
while recovering from another. Nothing else is
bounded: versions, queues and the watch are finite because commits are. The names
of the proxies are symmetric in `binding`. In `binding_progress` the constraint `FailureOfOnePair` leaves out the
behaviours in which two proxies meet a failure, which are too many for the liveness check; what it cuts off is begun by
users or failures, which have no fairness, so every behaviour it leaves is one of the system. The proofs lift the bounds.

On the node a pod lives once, `MaxFaults` bounds failed calls, crashes and kubelet restarts
together, and nothing else is bounded. Three faults are a failure, a crash after it and another one
while recovering. The state of a volume concerns its own pods only, so one volume at a time is enough: `node_crash` has
one of each kind of driver, and its constraint `OnePod` keeps the pod of the other one from coming. Two pods are what it takes
for one to be mounted while the other is unmounted, and their names are
symmetric. `node_twopods` starts with the volume attached and seen: the order in which objects are
seen is what `node_crash` varies.

In `AttachDetach` `MaxLag` bounds how many attachment events the informer is behind: two, so that a sync can see the old
proxy attachment and the deletion before it; `MaxUid` and `MaxPods` bound the proxy attachments and pods ever made: two, one
before and one after the volume has moved or its pod has come back. In `StartSignal` `MaxPods` is how many pods have the name one after the other
(two: one to be mistaken for the other), and `MaxUpdates` writes by others, which make patches conflict. In
`VolumeSetup` the tree has a file in the root, which pods may remove and make again, a directory, and in it a file that they make, so
that a walk can stop above, in and below a directory and files appear in a root whose mode was set back; one change of the driver, from
any version to any, is one upgrade or one rollback between any two calls; the second pod meets what the first, and the fault, have left. `ProxyVolumes` needs no bound.

**Fairness.** Weak fairness for the delivery of each name's events and for each
controller's work on each key: the reflector is a goroutine that keeps receiving, and each
controller runs 50 workers (`defaultConcurrentSyncs`) in loops that take every
queued key in turn. None for users, resyncs and restarts, so liveness never
relies on a resync, and a claim marked for deletion may stay marked. `CHECK_DEADLOCK FALSE`
because the system really is at rest once the bounded users are done.

On the node (`FairSpec`): weak fairness for the kubelet's calls of each pod and of each volume (its
reconciler retries until it is told the end), for the removal of a torn-down pod, for the pod
informer, for the workers on each key, and for the start of the container (it is always restarted).
Failures are bounded, so calls eventually succeed. None for the creation and deletion
of pods, for binding or attaching, and none for `PodUpdated`: no status update or resync is
relied on. Both liveness properties except `NotStartable`, the states in which the process is down and a
file is torn: the code has no way out of them (`bindstate/persistentstatemanager.go:43-45`),
and `PROJECT.json` lists that among the hazards.

All other fairness is weak too. `AttachDetach`: the garbage collector and the external-attacher reconcile, informers
deliver, 50 workers serve a queue that hands out its keys in order. `StartSignal`: informers deliver, syncs
go on, the kubelet restarts the sidecar's container. `VolumeSetup`: a sync in progress goes on, and one that failed
is started again, which is all that the queue promises; no fairness for the sync of a mounted pod.

**The exception `raced`.** The volume manager reads the target path once and mounts some calls
later. An unpublish call that gets past its own unmount in between (or found no bind and skips it) takes
the directory down and answers; the mount that follows is one nobody will undo. Nothing in the code
checks the pod or the path again, and no document says this cannot happen, so
`MountedIsRecorded` and `NothingLeftBehind` except exactly those pods. Without the exception
TLC finds both violated with no fault at all.

**Four disagreements with the code's own words.**

* `shared`: the backend controller finds the proxy gone with a live read
  (`backend/sync.go:46`) and releases the backend in a later call (`:53`), which only the
  backend's version guards. A proxy recreated under the same name in between finds the
  stale claim, takes it for its own (`proxy/sync.go:109`), does not write to the backend
  (`:156`) and completes its binding (`:190`). The backend's version has not moved, the
  release succeeds, and another proxy binds the backend as well. `bindstate`
  (`pkg/volume/bindstate/persistentstatemanager.go:78`) counts on the 1:1 binding.
* `node_unstage`: the volume manager stages the volume under the backend's handle
  (`sync_volume.go:329`), `NodeUnstageVolume` asks the backend to unstage the proxy's
  (`nodeserver.go:129`). A driver that goes by the id keeps the volume staged, while
  `nodeserver.go:277` claims the capability "so that the driver can proxy NodeUnstageVolume calls".

* `ad_handle`: the multi-attach check compares the name of the PersistentVolume in an attachment with the volume
  *handle* (`sync_volume.go:125`). Dynamic provisioners name the two differently, so the check lets every pod pass that
  `sync_volume.go` says "can't be attached to another node".
* `ad_unpublish`: the apply replaces the finalizers of an attachment that exists (`sync_volume.go:90`). When it is
  given a new owner it loses the external-attacher's finalizer, is removed without a detach, and the backend's storage stays attached,
  while `controllerserver.go` says that unpublish calls are proxied "by deleting VAs of backing PVCs".

**What the code does not prevent** and no document promises; the properties are stated, checked and proved without it:

* Forced deletion (`ForcedDeletion`): the sidecar looks its pod up by name and does not compare the UID
  (`wait/controller.go:89`), so the old sidecar takes the annotations of the new pod, on another node, for its own, and
  `SignalledIsMounted` fails. `AnnotatedForItself` is proved with it.
* Two groups (`Groups`): a walk changes the root last, for its own group; if it stops before, the root still has the group of an
  earlier pod, and the next pod of that group skips the walk (`volume_linux.go:125`), over files the interrupted one
  changed. `RootSpeaksForAll` fails.
* Containers that do not wait for the signal (`ContainersWait`): a file made in a directory after its listing and before its
  setgid bit is left to the container's group, and `OwnedByGroup` fails.
* `NodePublishVolume` repeated for a pod that has its volume, as after a restart of the kubelet (`nodeserver.go:200`): `setUpPath` sees a
  mode that is not 0440 and sets it (`targetpathbind/manager.go:101-104`), on the root of the mounted backend. Group
  and setgid bits are gone until a later sync walks, and nothing makes sure of one; files made in the root meanwhile keep the
  container's group, and after a walk that had listed the root before, for good. Both are excused (`passed`); without
  that `OwnedByGroup` fails. What holds is that no other file is lost to it, and that such a root does not pass the check of `OnRootMismatch`.
* A rollback of the backend's driver to one without `VOLUME_MOUNT_GROUP`. Between the questions at `sync_volume.go:317` and `:508` the
  volume is staged with the group and then walked over, so that the group is applied twice. After the pod has its volume, a repeated
  sync walks over files that its containers use and whose directories have no setgid bit: a file made in a directory after its
  listing keeps the container's group, and the root speaks for it in the end. Such files are excused too; without that
  TLC finds `RootSpeaksForAll` violated. After the answer at `:508` and before the call, nobody applies the group.
* A proxy recreated with another `backend-pvc-ref`, or one that is itself named as a backend: the handler of a deleted proxy queues
  the backend of the last state it knows (`backend/controller.go:180-213`), so the backend that an earlier claim of
  that name was bound to may never be queued, and stays claimed. TLC finds `OrphanIsQueued` violated by each of the two alone
  (`SameRequestOnReuse`, `BackendsAskForNone` in `PVCBinding` exclude them).
* The handler of the backend controller queues the backend of any proxy (`backend/controller.go:202-213`), so a sync does meet
  claims without `proxy-pvc-ref`, of which `backend/sync.go:34` says that it should not. It logs an error and does nothing else.

A side result: when names are not reused the live read of the backend controller is
not needed for any of the properties, since a proxy is in the cache before it can be
claimed for. It is there for reused names, and narrows that window without closing it.
Another one: the `queue.Add` at `sync_volume.go:107`, marked *FIXME: fix handlers instead*, is not
needed for `PodGetsItsVolume` as far as the attachment goes, since the handler of the last object to be
seen always finds the pods.

## 4. What is proved

### PVCBinding

For every set of claims, every set of requests and all bounds, from the four named
assumptions of `PVCBinding` (no claim is called `None`, requests and reusable names are
claims, the bounds are natural numbers):

| theorem | says |
|---|---|
| `TypeCorrect` | `Spec => []TypeOK` |
| `FinalizerSafe` | `Spec => FinalizerGuardsClaim` |
| `BindingInvariantAlways` | `Spec => []BindingInvariant`, if `Reusable = {}` |
| `BoundProxyHolds`, `BackendsNotShared`, `ClaimsNotStolen` | the three binding properties, if `Reusable = {}` |
| `RefinesExclusiveBinding` | `Spec => ImplementsExclusiveBinding`, if `Reusable = {}` |
| `WaitingProxyAlwaysQueued` | `Spec => []WaitingProxyIsQueued` |
| `UnsettledBackendAlwaysQueued` | `Spec => []UnsettledBackendIsQueued` |
| `OrphanAlwaysQueued` | `Spec => []OrphanIsQueued`, if `SameRequestOnReuse` and `BackendsAskForNone` |

`Reusable = {}` says that no name is given to a second claim; run `shared` shows that
the binding theorems need it.

The argument. *Type correctness* needs one more fact (a proxy being synced asks for a
backend). Then `Effects`: a step changes at most one object, in one of six ways (created,
expunged, touched in its deletion mark or finalizer, claimed, bound, released), and each
write was prepared from the current object. That rests on `VersionsAgree`: whatever
anybody has seen of a claim (`Seen`: the cache, the pending events, every sync in progress)
is at most as new as the object, and if it is equally new it *is* the object.
`SeenGrows` says nothing else ever becomes visible. These facts (`CopiesAgree`) are inductive
with or without reuse of names and give `FinalizerSafe`.

Exclusiveness is not inductive by itself: a proxy that claimed the backend and has not yet
completed, or a stale copy that still shows a claim, can make it fail two steps later.
So `ClaimantsAgree` speaks of everybody who has ever been seen to hold the backend and still
exists (`Claimant`): they all are the one holder. A release is the only step that could take
the claim away, and `ReleaseJustified` says that the proxy it found gone is gone, which is
where `Reusable = {}` comes in. The refinement maps each of the six ways to an action of
`ExclusiveBinding`; the guard of `Complete` is `ClaimantsAgree`.

*No lost wake-up.* A sync may drop its key when the cache is behind, so the invariant says what the cache is when nothing
is on its way: a name without pending events is cached as it is (`WatchFollows`), and a sync whose key has not been queued
again since it began works on the present request (`ProxySyncsCurrent`). With names used again these hold as well, so
the two theorems need no hypothesis. An orphan is harder, since the key that has to be queued is not the name that went: `OrphanInvariant`
adds that whatever is seen of a name asks for the same backend (`RequestsAgree`, `AskedOnce`), that the informer sees a claim before it
sees it gone (`GoneWasThere`), so that the handler of the deletion knows the backend to queue, and that a sync nobody will
repeat looks for the present holder (`BackendSyncsCurrent`).

### NodeVolumes

For any pods, volumes, assignment of pods to volumes, set of staging drivers and number of
faults, from the assumptions `VolumeOfAssumption` and `MaxFaultsAssumption`:

| theorem | says |
|---|---|
| `NodeTypeCorrect` | `Spec => []TypeOK` |
| `AnnotatedAlwaysMounted` | `Spec => []AnnotatedIsMounted` |
| `AcknowledgedAlwaysRecorded` | `Spec => []AcknowledgedIsRecorded` |
| `MountedAlwaysRecorded` | `Spec => []MountedIsRecorded` |
| `NothingAlwaysLeftBehind` | `Spec => []NothingLeftBehind` |
| `RefinesPodMounts` | `Spec => ImplementsPodMounts` |
| `WaitingPodAlwaysQueued` | `Spec => []WaitingPodIsQueued` |

The argument. `AnnotationInvariant` adds that a sync about to annotate has the volume mounted, and that an
unpublish call in progress is of a pod that is leaving. `RecordInvariant` follows a save through
its steps: while a call runs the kubelet is uncertain, the writer's descriptor is of the
file at the path, and after the encoding the file is valid; `OtherEntries` says that nobody else touches
that entry. `MountInvariant` rests on it. The bind is deleted when the volume is unstaged, which
happens when the kubelet believes that no pod of it is mounted; so a pod it believes unmounted must
have no mount and no sync on its way to one (`DismountedIsSettled`), which holds because a sync starts
from a recorded target path, and recorded target paths are of pods that are not yet unmounted
(`TargetPathKept`), with the `raced` pods as the only exception. `BindKept` then says that the bind is
there from before the first backend call until the last mount is gone, on disk through crashes.

`NothingLeftBehind` is the converse, by `CleanInvariant`: the kubelet lets go of no device with mounts (`MountedIsStaged`), so once it
believes a volume unstaged, or an unstage call runs, no sync of a pod that is not raced is left to save the bind again
(`NobodySaves`); and a bind whose file is there is in the map or about to be (`BindDropped`), so the call that finds none in the
map, and skips the deletion, leaves none on disk.

`PodMounts` knows pods, recorded binds, mounts and annotations, and five rules: mount only what is recorded, erase only what
is not mounted, annotate only what is mounted, unmount only for a pod that is leaving, and let a pod go only unmounted.
A bind is recorded while its file exists, torn or not, and the
pods that are mounted are those the backend published and that are not raced. The guards are `BindKept` (mount),
`UnstagedIsUnmounted` with `DismountedIsSettled` (erase, and the pod's going) and `AnnotatingIsMounted`
(annotate). `BeliefInvariant` adds that the kubelet believes in mounts of pods that are there only, and that a raced
pod is on its way out, so that a pod never drops out of the mounted ones by being counted as raced.

`WaitingPodIsQueued` is inductive on top of `AnnotationInvariant`: a sync that finds its claim unbound ends without an error,
but only while one of the claims is not known, and the handler of the later of the two finds the pod through the other one.

### AttachDetach

From `NodeOfAssumption`, `FlagAssumption`, `KnownAssumption` and `BoundAssumption`, for any nodes, pods and bounds:
`TypeCorrect`, and `ExclusivelyAttachedAlways` for an exclusive volume that is named by its handle. A sync acts on a
cached view and an attachment is exclusive only as long as the owner it was made for exists, so the invariant
`ExclusiveInv` speaks of all the views between the cache and the API server: UIDs are new (`UidsGiven`), the proxy volume has one
attachment (`OneProxyAttachment`), between any two views in which a node has the same proxy attachment nobody else was
given one in time (`ViewsInOrder`), and the same holds between what a sync has read and now (`SyncsAreSafe`).

`ImplementsExclusiveAttachmentAlways`, under the same two hypotheses, is that an exclusive volume passes from node to node by the
rules of `ExclusiveAttachment`: *granted* are the nodes with a proxy attachment, *holders* those whose attachment was made in time.
Every write of the API server changes one node's part (`Extends`), and one that makes a holder makes it the only one
(`Alone`), which is `SyncsAreSafe` when it is a sync that writes; deletions, garbage collection and patches of an owner that is gone are releases.

`UnservedPodAlwaysQueued` needs no hypothesis. What keeps a pod out of the queue (`HasCause`) is a state of the cache:
it has no proxy attachment or an attachment for it, the volume is in use elsewhere, or its sync is at work. Every
event that ends such a cause is one of an attachment, which tells two views apart (`ViewsDiffer`) and queues
the node's pods when the rest is known. An attachment being deleted never comes back to a proxy attachment that is there
(`ForGood`), so a pod that waits for its end is not left waiting for more.

### StartSignal

For any nodes, volumes, pods, faults: `TypeCorrect`; `AnnotatedAlwaysForItself`, also with forced deletion;
`SignalledAlwaysMounted` without it. `AnnotatedInv` says what is known of every copy of the pod: it is a version there has been
(`CopiesAreVersions`), and a patch about to be sent is for a volume mounted for the UID it was prepared for
(`PatchesAreMounted`); a patch is accepted at the version of its copy only, so the pod it reaches is that UID. `SignalledInv` adds that
one pod of the name runs at a time (`OnePodRuns`, where forced deletion is excluded) and that a sidecar sees its own pod
or none (`SidecarsSeeTheirs`).

`UnannotatedPodAlwaysQueued` and `UnsignalledPodAlwaysQueued` hold with forced deletion too. `CoveredInv`: a manager that is
up to date and has no reason to look again either has nothing outstanding, or is in a sync of the pod as it is that
still has what is outstanding before it, or has failed and will put its key back (`SyncCovers`). It is
about conflicts that the manager brings upon itself: its own patch makes its copy old, and the event of that patch is what queues the key
again. `SidecarsInv`: a sidecar at rest that has seen its pod complete has made the file (`SidecarWaits`).

### VolumeSetup

For any tree of files that `TreeAssumption` allows, any drivers, volumes and bounds: `TypeCorrect`; and with one group and
containers that wait (section 3 says why) `RootAlwaysSpeaksForAll` and `AlwaysOwnedByGroup`, with errors that are passed over, any
changes of the driver and any number of `setUpPath`. `AskedInv` is what `setUpAt` knows when it comes to the files: either
the publishing carried the group, or it did not and the walk is for a volume that is due one. `OwnershipInv` is about the walk: the root is the first to be listed and the last to be
changed (`WalkIsIdle`, `RootIsListed`), directories are listed from above (`ListedFromAbove`), what has been changed was due
(`ChownedIsDue`), and every file is changed, or due in a listed directory, or below one still to be listed (`AllCovered`). What
was settled stays settled, since with one group nobody changes a file to another one, and `setUpPath` only touches the
root, which then speaks for nothing (`OwnershipSetUpPath`). When
the walk ends nothing is due, so every file is settled; when it stops before, the root does not pass the check.

### ProxyVolumes

For any nodes, access modes and file system types: `TypeCorrect`, `AlwaysOneNode`, and `CreatedAlwaysPublishable` with `podInfoOnMount`.
An existing volume is one `CreateVolume` accepted or one nobody provisioned (`AcceptedInv`); an accepted claim has no access mode
for several nodes (`AcceptedIsExclusive`), and its first mode, which the kubelet asks for, is one of those that were validated.

### Only model-checked

The liveness properties: they need fairness and `ENABLED`, which the prover cannot do. What they ask of the handlers and
of the syncs that give up is in the wake-up theorems; that syncs make progress once they run is left to TLC.

## 5. Plan

Done in the order of importance; the binding comes first because everything on the nodes
relies on it.

1. *Done:* `PVCBinding`, `ExclusiveBinding` and their proofs.
2. *Done:* `BindState` and `NodeVolumes`: managers, node service and volume manager in one
   module, because every hazard on the node is between them; proofs of all its safety properties.
3. *Done:* `PodMounts`, which `NodeVolumes` implements, and the proof of it.
4. *Done:* `AttachDetach`, `StartSignal`, `VolumeSetup` and `ProxyVolumes` with proofs of their safety properties.

5. *Done:* no lost wake-up of any controller, as invariants and theorems; `ExclusiveAttachment`, which `AttachDetach` implements.

What remains worth doing: an abstract specification of the start signal, several volumes of a pod in `AttachDetach`, and the refinement of `PodMounts` for two pods of
one volume as a run (it is proved; TLC has it for one pod).

Not modelled, and why: flags, sockets, gRPC registration, logging, metrics (I/O without state
of its own); `pkg/thirdparty` but for the ownership of files (copied Kubernetes utilities without state); `pkg/volume/csi/plugin.go` and
`driverplugin.go` (commented out); the identity service and the methods that answer `Unimplemented` or constants.
