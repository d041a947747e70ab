---------------------------- MODULE AttachDetach ----------------------------
(***************************************************************************)
(* The controller-server's attach/detach pod controller.  For a pod whose  *)
(* proxy claim is bound to a backend it keeps, next to the                 *)
(* VolumeAttachment Kubernetes made for the proxy volume, one for the      *)
(* backend volume on the same node.  The module follows one volume: one    *)
(* proxy and one backend claim, with their PersistentVolumes, used by      *)
(* pods on several nodes.  A step is one pass over the listers, one cached *)
(* read of the attachment, one API call or one informer event.  A sync     *)
(* that fails puts its key back where it was, and so takes no step.        *)
(***************************************************************************)
EXTENDS Naturals, Sequences

CONSTANTS
    Nodes,
    Pods,           \* names of pods that mount the proxy claim
    NodeOf,         \* the node each of them runs on
    AccessModes,    \* access modes of the backend PersistentVolume
    AttachRequired, \* what the CSIDriver object of the backend says
    NamedByHandle,  \* whether the backend PersistentVolume is named as its handle
    KnownAtStart,   \* the objects the informers have seen when the model starts
    MaxUid,         \* bound on the proxy attachments ever made
    MaxPods,        \* bound on the pods ever made
    MaxFaults,      \* bound on failed calls and restarts
    MaxLag          \* bound on the attachment events the informer is behind

\* What the informers learn of the claims, the volumes and the driver, in any
\* order but that a claim is bound after it exists.
Objects == {"proxyClaim", "proxyBound", "backendClaim", "backendBound",
            "proxyVolume", "backendVolume", "driver"}

ASSUME NodeOfAssumption == NodeOf \in [Pods -> Nodes]
ASSUME FlagAssumption == AttachRequired \in BOOLEAN /\ NamedByHandle \in BOOLEAN
ASSUME KnownAssumption == KnownAtStart \subseteq Objects
ASSUME BoundAssumption == /\ MaxUid \in Nat /\ MaxPods \in Nat
                          /\ MaxFaults \in Nat /\ MaxLag \in Nat

VARIABLES
    views,      \* the states of the VolumeAttachments from the one the informer
                \* has cached (the head) to the one the API server holds (the last)
    storage,    \* the nodes the backend's storage is attached to
    uid,        \* the last UID given to a proxy attachment
    pods,       \* the pods, at the API server
    podSeen,    \* and as the informer has cached them
    seen,       \* the Objects the other informers have cached
    queue,      \* keys in the workqueue
    worker,     \* the sync in progress, per key
    made, faults \* how much of MaxPods and MaxFaults is used up

apiVars == <<views, storage, uid>>
podVars == <<pods, podSeen, made>>
vars == <<views, storage, uid, pods, podSeen, seen, queue, worker, made, faults>>

(***************************************************************************)
(* A VolumeAttachment of the backend volume.  A name that holds no object  *)
(* keeps the version of the deletion, so that no version is used twice.    *)
(***************************************************************************)
VA == [ rv        : Nat,
        present   : BOOLEAN,
        owner     : Nat,        \* UID in the owner reference, of a proxy attachment
        deleting  : BOOLEAN,    \* DeletionTimestamp # nil
        finalizer : BOOLEAN,    \* the external-attacher's
        attached  : BOOLEAN,    \* Status.Attached
        orphan    : BOOLEAN ]   \* history: no proxy attachment had the owner's UID
                                \* when the owner was written

Absent(version) ==
    [ rv |-> version, present |-> FALSE, owner |-> 0, deleting |-> FALSE,
      finalizer |-> FALSE, attached |-> FALSE, orphan |-> FALSE ]

View == [ proxy   : [Nodes -> Nat],     \* UID of the proxy attachment, 0 for none
          backend : [Nodes -> VA] ]

Worker == [ pc : {"idle", "read", "create", "update"}, owner : Nat, rv : Nat ]
IdleWorker == [pc |-> "idle", owner |-> 0, rv |-> 0]

Cache == Head(views)
Api == views[Len(views)]

(***************************************************************************)
(* The type invariant.                                                     *)
(***************************************************************************)
TypeOK ==
    /\ views \in Seq(View) /\ views # <<>>
    /\ storage \subseteq Nodes
    /\ uid \in 0..MaxUid
    /\ pods \in [Pods -> {"absent", "running", "leaving"}]
    /\ podSeen \in [Pods -> {"absent", "running", "leaving"}]
    /\ seen \subseteq Objects
    /\ queue \subseteq Pods
    /\ worker \in [Pods -> Worker]
    /\ made \in 0..MaxPods
    /\ faults \in 0..MaxFaults

Init ==
    /\ views = << [proxy |-> [n \in Nodes |-> 0], backend |-> [n \in Nodes |-> Absent(0)]] >>
    /\ storage = {}
    /\ uid = 0
    /\ pods = [p \in Pods |-> "absent"]
    /\ podSeen = pods
    /\ seen = KnownAtStart
    /\ queue = {}
    /\ worker = [p \in Pods |-> IdleWorker]
    /\ made = 0
    /\ faults = 0

-----------------------------------------------------------------------------
(***************************************************************************)
(* The API server, and who else writes VolumeAttachments.                  *)
(***************************************************************************)

Commit(view) == views' = Append(views, view)
Room == Len(views) <= MaxLag

WriteBackend(n, va) ==
    Commit([Api EXCEPT !.backend[n] = [va EXCEPT !.rv = Api.backend[n].rv + 1]])
RemoveBackend(n) == Commit([Api EXCEPT !.backend[n] = Absent(@.rv + 1)])

CreatePod(p) ==
    /\ pods[p] = "absent"
    /\ made < MaxPods
    /\ made' = made + 1
    /\ pods' = [pods EXCEPT ![p] = "running"]
    /\ UNCHANGED <<apiVars, podSeen, seen, queue, worker, faults>>

DeletePod(p) ==
    /\ pods[p] = "running"
    /\ pods' = [pods EXCEPT ![p] = "leaving"]
    /\ UNCHANGED <<apiVars, podSeen, seen, queue, worker, made, faults>>

RemovePod(p) ==
    /\ pods[p] = "leaving"
    /\ pods' = [pods EXCEPT ![p] = "absent"]
    /\ UNCHANGED <<apiVars, podSeen, seen, queue, worker, made, faults>>

\* Kubernetes attaches the proxy volume for a running pod.  A proxy volume has
\* single node access modes only, so it has one attachment at a time.
CreateProxyAttachment(n) ==
    /\ Room
    /\ \E p \in Pods : pods[p] = "running" /\ NodeOf[p] = n
    /\ \A m \in Nodes : Api.proxy[m] = 0
    /\ uid < MaxUid
    /\ uid' = uid + 1
    /\ Commit([Api EXCEPT !.proxy[n] = uid + 1])
    /\ UNCHANGED <<storage, podVars, seen, queue, worker, faults>>

\* It detaches the proxy volume when no running pod of the node wants it (after
\* a timeout even if it is still mounted).  The driver's ControllerUnpublishVolume
\* has nothing to do, so the object is gone at once.
DeleteProxyAttachment(n) ==
    /\ Room
    /\ Api.proxy[n] # 0
    /\ \A p \in Pods : NodeOf[p] = n => pods[p] # "running"
    /\ Commit([Api EXCEPT !.proxy[n] = 0])
    /\ UNCHANGED <<storage, uid, podVars, seen, queue, worker, faults>>

Owned(n) == Api.proxy[n] # 0 /\ Api.proxy[n] = Api.backend[n].owner

\* An object whose owner is gone is deleted: it stays, marked, while it has a
\* finalizer.  An object without an owner is left alone.
CollectGarbage(n) ==
    /\ Room
    /\ Api.backend[n].present /\ ~Api.backend[n].deleting
    /\ Api.backend[n].owner # 0 /\ ~Owned(n)
    /\ IF Api.backend[n].finalizer
         THEN WriteBackend(n, [Api.backend[n] EXCEPT !.deleting = TRUE])
         ELSE RemoveBackend(n)
    /\ UNCHANGED <<storage, uid, podVars, seen, queue, worker, faults>>

\* The external-attacher of the backend's driver.
Attach(n) ==
    /\ Room
    /\ Api.backend[n].present /\ ~Api.backend[n].deleting /\ ~Api.backend[n].attached
    /\ WriteBackend(n, [Api.backend[n] EXCEPT !.finalizer = TRUE, !.attached = TRUE])
    /\ storage' = storage \cup {n}
    /\ UNCHANGED <<uid, podVars, seen, queue, worker, faults>>

Detach(n) ==
    /\ Room
    /\ Api.backend[n].present /\ Api.backend[n].deleting /\ Api.backend[n].finalizer
    /\ RemoveBackend(n)
    /\ storage' = storage \ {n}
    /\ UNCHANGED <<uid, podVars, seen, queue, worker, faults>>

-----------------------------------------------------------------------------
(***************************************************************************)
(* Informer events.  A handler reads the other informers' caches.          *)
(***************************************************************************)

IsBoundProxyPersistentVolumeClaim(objects) ==
    "proxyClaim" \in objects /\ "proxyBound" \in objects

\* An event of a pod, of its deletion too, queues it if its claim is bound.
ObservePod(p) ==
    /\ podSeen[p] # pods[p]
    /\ podSeen' = [podSeen EXCEPT ![p] = pods[p]]
    /\ queue' = IF IsBoundProxyPersistentVolumeClaim(seen) THEN queue \cup {p} ELSE queue
    /\ UNCHANGED <<apiVars, pods, seen, worker, made, faults>>

CachedPods == {p \in Pods : podSeen[p] # "absent"}

\* The pods an event of either claim queues.
PodsThroughClaim(objects) ==
    IF IsBoundProxyPersistentVolumeClaim(objects) THEN CachedPods ELSE {}

\* The handler of a PersistentVolume looks for a claim with the volume's name in
\* the volume's (empty) namespace and finds none; a CSIDriver has no handler.
PodsThroughObject(object, objects) ==
    IF object \in {"proxyVolume", "backendVolume", "driver"} THEN {} ELSE PodsThroughClaim(objects)

Observe(object) ==
    /\ object \notin seen
    /\ object = "proxyBound" => "proxyClaim" \in seen
    /\ object = "backendBound" => "backendClaim" \in seen
    /\ seen' = seen \cup {object}
    /\ queue' = queue \cup PodsThroughObject(object, seen')
    /\ UNCHANGED <<apiVars, podVars, worker, faults>>

\* Faulty variant: events of deleted attachments are not handled.
PodsThroughAttachmentNotDeleted(old, new) ==
    IF \E n \in Nodes : old.backend[n].present /\ ~new.backend[n].present
      THEN {}
      ELSE PodsThroughClaim(seen)

\* The pods an event of an attachment queues: through its volume, the claim the
\* volume is bound to and, for a backend claim, the proxy claim it names.
PodsThroughAttachment(old, new) ==
    IF \/ old.proxy # new.proxy /\ "proxyVolume" \in seen
       \/ old.backend # new.backend /\ {"backendVolume", "backendClaim"} \subseteq seen
      THEN PodsThroughClaim(seen)
      ELSE {}

ObserveAttachment ==
    /\ Len(views) > 1
    /\ views' = Tail(views)
    /\ queue' = queue \cup PodsThroughAttachment(views[1], views[2])
    /\ UNCHANGED <<storage, uid, podVars, seen, worker, faults>>

-----------------------------------------------------------------------------
(***************************************************************************)
(* sync and syncVolume.                                                    *)
(***************************************************************************)

Idle(p) == p \in queue /\ worker[p].pc = "idle"

\* The sync returns without an error before it looks at the volumes.  What is
\* missing here has an event that queues the pod again.
NothingToSync(p) ==
    \/ podSeen[p] = "leaving"
    \/ "proxyClaim" \notin seen
    \/ /\ "proxyVolume" \in seen
       /\ {"proxyBound", "backendClaim", "backendBound"} \ seen # {}

\* Everything there that syncVolume is called with and looks up: without a
\* volume, the proxy attachment or the driver the sync fails.
ReadyToAttach(p) ==
    /\ podSeen[p] = "running"
    /\ Objects \subseteq seen
    /\ Cache.proxy[NodeOf[p]] # 0

\* Faulty variant: a volume for one node may be attached to several.
IsMultiAttachAllowedUnlessOncePod == AccessModes # {"ReadWriteOncePod"}

\* isMultiAttachAllowed; a volume without access modes is let through.
IsMultiAttachAllowed ==
    AccessModes = {} \/ AccessModes \cap {"ReadWriteMany", "ReadOnlyMany"} # {}

\* Faulty variant: an attachment that is being deleted is not counted.
VolumeAttachedNodesNotDeleting ==
    {n \in Nodes : NamedByHandle /\ Cache.backend[n].present /\ ~Cache.backend[n].deleting}

\* getVolumeAttachedNodes compares the name of an attachment's PersistentVolume
\* with the handle of the backend volume.
VolumeAttachedNodes == {n \in Nodes : NamedByHandle /\ Cache.backend[n].present}

ExclusivelyAttachedElsewhere(n) ==
    ~IsMultiAttachAllowed /\ VolumeAttachedNodes \ {n} # {}

SyncDone(p) ==
    /\ Idle(p)
    /\ podSeen[p] # "absent"
    /\ \/ NothingToSync(p)
       \/ /\ ReadyToAttach(p)
          /\ ~AttachRequired \/ ExclusivelyAttachedElsewhere(NodeOf[p])
    /\ queue' = queue \ {p}
    /\ UNCHANGED <<apiVars, podVars, seen, worker, faults>>

\* Faulty variant: the attachment is made without an owner.
NoOwner(p) == 0

\* makeVolumeAttachment refers to the proxy attachment by the UID it has in the cache.
MakeOwner(p) == Cache.proxy[NodeOf[p]]

SyncVolume(p) ==
    /\ Idle(p)
    /\ ReadyToAttach(p)
    /\ AttachRequired
    /\ ~ExclusivelyAttachedElsewhere(NodeOf[p])
    /\ queue' = queue \ {p}
    /\ worker' = [worker EXCEPT ![p] = [IdleWorker EXCEPT !.pc = "read", !.owner = MakeOwner(p)]]
    /\ UNCHANGED <<apiVars, podVars, seen, faults>>

\* ApplyGeneric: the cached attachment decides between no call, Create and Update.
ReadAttachment(p) ==
    LET va == Cache.backend[NodeOf[p]]
    IN  /\ worker[p].pc = "read"
        /\ worker' = [worker EXCEPT ![p] =
              CASE ~va.present -> [@ EXCEPT !.pc = "create"]
                [] va.present /\ va.owner = @.owner -> IdleWorker
                [] va.present /\ va.owner # @.owner -> [@ EXCEPT !.pc = "update", !.rv = va.rv]]
        /\ UNCHANGED <<apiVars, podVars, seen, queue, faults>>

\* The owner a call writes, and whether it is gone already.
WithOwner(p, va) ==
    [va EXCEPT !.present = TRUE, !.owner = worker[p].owner,
               !.orphan = Api.proxy[NodeOf[p]] # worker[p].owner]

\* An Update replaces the metadata: owner references, and the finalizers by none.
\* An object that is being deleted and has no finalizer left is gone.
ApplyCall(p) ==
    LET n == NodeOf[p]
    IN  \/ /\ worker[p].pc = "create"
           /\ ~Api.backend[n].present
           /\ WriteBackend(n, WithOwner(p, Api.backend[n]))
        \/ /\ worker[p].pc = "update"
           /\ Api.backend[n].present
           /\ Api.backend[n].rv = worker[p].rv
           /\ IF Api.backend[n].deleting
                THEN RemoveBackend(n)
                ELSE WriteBackend(n, [WithOwner(p, Api.backend[n]) EXCEPT !.finalizer = FALSE])

\* The call is answered.
Apply(p) ==
    /\ Room
    /\ ApplyCall(p)
    /\ worker' = [worker EXCEPT ![p] = IdleWorker]
    /\ UNCHANGED <<storage, uid, podVars, seen, queue, faults>>

\* AlreadyExists, NotFound or Conflict.
ApplyRefused(p) ==
    LET va == Api.backend[NodeOf[p]]
    IN  /\ \/ worker[p].pc = "create" /\ va.present
           \/ worker[p].pc = "update" /\ (~va.present \/ va.rv # worker[p].rv)
        /\ worker' = [worker EXCEPT ![p] = IdleWorker]
        /\ queue' = queue \cup {p}
        /\ UNCHANGED <<apiVars, podVars, seen, faults>>

\* The call fails, before or after the server applied it.
ApplyFails(p) ==
    /\ worker[p].pc \in {"create", "update"}
    /\ faults < MaxFaults
    /\ faults' = faults + 1
    /\ \/ Room /\ ApplyCall(p)
       \/ UNCHANGED views
    /\ worker' = [worker EXCEPT ![p] = IdleWorker]
    /\ queue' = queue \cup {p}
    /\ UNCHANGED <<storage, uid, podVars, seen>>

\* A new process lists everything; the initial events queue the pods.
Restart ==
    /\ faults < MaxFaults
    /\ faults' = faults + 1
    /\ views' = <<Api>>
    /\ podSeen' = pods
    /\ worker' = [p \in Pods |-> IdleWorker]
    /\ queue' = IF IsBoundProxyPersistentVolumeClaim(seen)
                  THEN {p \in Pods : pods[p] # "absent"}
                  ELSE {}
    /\ UNCHANGED <<storage, uid, pods, seen, made>>

-----------------------------------------------------------------------------
Kubernetes ==
    \/ \E p \in Pods : CreatePod(p) \/ DeletePod(p) \/ RemovePod(p)
    \/ \E n \in Nodes : CreateProxyAttachment(n) \/ DeleteProxyAttachment(n)

AttacherAndGarbageCollector(n) == CollectGarbage(n) \/ Attach(n) \/ Detach(n)

Informers ==
    \/ \E p \in Pods : ObservePod(p)
    \/ \E object \in Objects : Observe(object)
    \/ ObserveAttachment

Syncing(p) ==
    \/ SyncDone(p) \/ SyncVolume(p) \/ ReadAttachment(p)
    \/ Apply(p) \/ ApplyRefused(p)

Next ==
    \/ Kubernetes
    \/ \E n \in Nodes : AttacherAndGarbageCollector(n)
    \/ Informers
    \/ \E p \in Pods : Syncing(p) \/ ApplyFails(p)
    \/ Restart

Spec == Init /\ [][Next]_vars

\* The garbage collector and the external-attacher reconcile, the informers
\* deliver, and fifty workers serve a queue that hands out its keys in order.
Fairness ==
    /\ \A n \in Nodes : WF_vars(CollectGarbage(n)) /\ WF_vars(Attach(n)) /\ WF_vars(Detach(n))
    /\ \A p \in Pods : WF_vars(ObservePod(p)) /\ WF_vars(Syncing(p))
    /\ \A object \in Objects : WF_vars(Observe(object))
    /\ WF_vars(ObserveAttachment)

FairSpec == Spec /\ Fairness

-----------------------------------------------------------------------------
(***************************************************************************)
(* Properties.                                                             *)
(***************************************************************************)

MadeInTime(va) == va.present /\ ~va.orphan

\* An exclusive volume has attachments on two nodes at most while one of them
\* was made by a sync so slow that the proxy attachment it was for is gone (the
\* garbage collector takes that one): sync_volume.go:65-80 against a cache that
\* is behind, another node's attachment that is still detaching, a restart.
ExclusivelyAttached ==
    \A m, n \in Nodes :
        MadeInTime(Api.backend[m]) /\ MadeInTime(Api.backend[n]) => m = n

\* The backend's attachment is there to stay, and is the one of the proxy attachment.
Taken(n) == Api.backend[n].present /\ ~Api.backend[n].deleting /\ Owned(n)

Claims == {"proxyClaim", "proxyBound", "backendClaim", "backendBound"}

\* More than that, the volume is handed over: whatever the caches show and however
\* long a sync takes, a node takes it only while its proxy attachment is there and
\* no other node holds it.
Attachment == INSTANCE ExclusiveAttachment WITH
    granted <- {n \in Nodes : Api.proxy[n] # 0},
    holders <- {n \in Nodes : MadeInTime(Api.backend[n])}
ImplementsExclusiveAttachment == Attachment!Spec

\* No wake-up is lost: a running pod that has the proxy attachment and not the
\* backend's is queued or being synced, or an event on its way will queue it,
\* unless the volume is in use elsewhere; so also when that ends, when the
\* attachment is removed under it, and when the proxy attachment is another one:
\* sync.go:43-118, sync_volume.go:45-79, the handlers of controller.go.
UnservedPodIsQueued ==
    \A p \in Pods :
        /\ pods[p] = "running" /\ Api.proxy[NodeOf[p]] # 0
        /\ Claims \subseteq seen
        /\ AttachRequired /\ ~ExclusivelyAttachedElsewhere(NodeOf[p])
        /\ ~Taken(NodeOf[p])
        => p \in queue \/ worker[p].pc # "idle" \/ podSeen[p] # pods[p] \/ Len(views) > 1

\* A pod that keeps running next to a proxy attachment gets the backend's
\* attachment, owned by that proxy attachment and attached, and keeps it,
\* whatever it was dropped for before: sync.go:43-118, sync_volume.go:75-79.
Served(n) == Taken(n) /\ Api.backend[n].attached /\ n \in storage

PodGetsItsAttachment ==
    \A p \in Pods :
        <>[](pods[p] = "running" /\ Api.proxy[NodeOf[p]] # 0) => <>[]Served(NodeOf[p])

\* Once the proxy volume is detached from a node for good, the backend's
\* attachment goes from it, whoever made it last: the owner reference of
\* sync_volume.go:139-146.
AttachmentFollowsProxy ==
    \A n \in Nodes : <>[](Api.proxy[n] = 0) => <>[](~Api.backend[n].present)

\* controllerserver.go says ControllerUnpublishVolume is proxied "by deleting
\* VAs of backing PVCs": once the proxy volume is detached from a node for good,
\* so is the backend's storage.
UnpublishIsProxied ==
    \A n \in Nodes : <>[](Api.proxy[n] = 0) => <>[](n \notin storage)

\* sync_volume.go says "Volume is already exclusively attached and can't be
\* attached to another node": nor is it, unless the attachment was made too late.
AttachedToOneNode ==
    \A m, n \in storage :
        m # n => \E k \in {m, n} : Api.backend[k].present /\ Api.backend[k].orphan

=============================================================================
