----------------------------- MODULE PVCBinding -----------------------------
(***************************************************************************)
(* The controller-server's three PersistentVolumeClaim controllers: proxy  *)
(* (claims a backend for a proxy), backend (releases the backend of a      *)
(* proxy that is gone) and backend protection (keeps a finalizer on        *)
(* backends).  They share one informer cache and write to the API server   *)
(* under optimistic concurrency.  A PVC is identified by its name; one     *)
(* step is one lister read, one API call or one informer event.            *)
(***************************************************************************)
EXTENDS Naturals, Sequences

CONSTANTS
    Claims,     \* names of PersistentVolumeClaims, proxies and backends alike
    None,       \* the value of a reference annotation that is not set
    Requests,   \* <<name, backend-pvc-ref>> pairs the user may create
    Reusable,   \* names the user may give to a second claim
    MaxOps,     \* bound on creations, deletions and edits by others
    MaxFaults   \* bound on failed calls, restarts and informer resyncs

ASSUME NoneAssumption == None \notin Claims
ASSUME RequestsAssumption == Requests \subseteq Claims \X (Claims \cup {None})
ASSUME ReusableAssumption == Reusable \subseteq Claims
ASSUME BoundsAssumption == MaxOps \in Nat /\ MaxFaults \in Nat

VARIABLES
    store,              \* what the API server holds under each name
    watch,              \* per name, the versions the informer has not seen, in order
    cached,             \* the informer's cache behind the lister
    queue,              \* per controller, the keys waiting in its workqueue
    proxyWorker,        \* the proxy controller's sync in progress, per key
    backendWorker,      \* the backend controller's
    protectionWorker,   \* the protection controller's
    ops, faults         \* how much of MaxOps and MaxFaults is used up

apiVars == <<store, watch>>
workerVars == <<proxyWorker, backendWorker, protectionWorker>>
budgetVars == <<ops, faults>>
vars == <<store, watch, cached, queue, workerVars, ops, faults>>

Controllers == {"proxy", "backend", "protection"}

(***************************************************************************)
(* The part of a PersistentVolumeClaim the controllers look at.  A name    *)
(* that holds no object keeps the version of the deletion, so a version    *)
(* number is never used twice under one name.                              *)
(***************************************************************************)
PVC == [ rv            : Nat,
         present       : BOOLEAN,
         deleting      : BOOLEAN,               \* DeletionTimestamp # nil
         finalizer     : BOOLEAN,               \* backend-pvc-protection
         proxyRef      : Claims \cup {None},    \* proxy-pvc-ref
         backendRef    : Claims \cup {None},    \* backend-pvc-ref
         bindCompleted : BOOLEAN ]              \* delayed-pvc-bind-completed

Absent(version) ==
    [ rv |-> version, present |-> FALSE, deleting |-> FALSE, finalizer |-> FALSE,
      proxyRef |-> None, backendRef |-> None, bindCompleted |-> FALSE ]

NewPVC(ref) == [Absent(0) EXCEPT !.present = TRUE, !.backendRef = ref]

\* A sync in progress: where it is and the objects it has read.
ProxyWorker == [pc : {"idle", "lookup", "claim", "complete"}, proxy : PVC, backend : PVC]
BackendWorker == [pc : {"idle", "get", "release"}, backend : PVC]
ProtectionWorker == [pc : {"idle", "add", "remove"}, backend : PVC]

IdleProxyWorker == [pc |-> "idle", proxy |-> Absent(0), backend |-> Absent(0)]
IdleWorker == [pc |-> "idle", backend |-> Absent(0)]

(***************************************************************************)
(* The type invariant.                                                     *)
(***************************************************************************)
TypeOK ==
    /\ store \in [Claims -> PVC]
    /\ watch \in [Claims -> Seq(PVC)]
    /\ cached \in [Claims -> PVC]
    /\ queue \in [Controllers -> SUBSET Claims]
    /\ proxyWorker \in [Claims -> ProxyWorker]
    /\ backendWorker \in [Claims -> BackendWorker]
    /\ protectionWorker \in [Claims -> ProtectionWorker]
    /\ ops \in 0..MaxOps
    /\ faults \in 0..MaxFaults

Init ==
    /\ store = [c \in Claims |-> Absent(0)]
    /\ watch = [c \in Claims |-> <<>>]
    /\ cached = [c \in Claims |-> Absent(0)]
    /\ queue = [k \in Controllers |-> {}]
    /\ proxyWorker = [c \in Claims |-> IdleProxyWorker]
    /\ backendWorker = [c \in Claims |-> IdleWorker]
    /\ protectionWorker = [c \in Claims |-> IdleWorker]
    /\ ops = 0
    /\ faults = 0

-----------------------------------------------------------------------------
(***************************************************************************)
(* The API server.                                                         *)
(***************************************************************************)

\* The next version of an object, stored and sent on the watch.
Commit(c, pvc) ==
    LET new == [pvc EXCEPT !.rv = store[c].rv + 1]
    IN  /\ store' = [store EXCEPT ![c] = new]
        /\ watch' = [watch EXCEPT ![c] = Append(@, new)]

\* Faulty variant: a write that does not carry the version it was prepared from.
AcceptedAtAnyVersion(c, read) == store[c].present

\* An Update or a Patch carries the resourceVersion of the object it was
\* prepared from; any other version answers Conflict, no object NotFound.
Accepted(c, read) == store[c].present /\ store[c].rv = read.rv

\* A call that writes `new' over `read'.  It is answered; or refused; or it
\* fails, before or after the server applied it.
Write(c, read, new, done, failed) ==
    \/ /\ Accepted(c, read)
       /\ Commit(c, new)
       /\ done
       /\ UNCHANGED faults
    \/ /\ ~Accepted(c, read)
       /\ failed
       /\ UNCHANGED <<apiVars, faults>>
    \/ /\ faults < MaxFaults
       /\ faults' = faults + 1
       /\ failed
       /\ UNCHANGED apiVars
    \/ /\ faults < MaxFaults
       /\ faults' = faults + 1
       /\ failed
       /\ Accepted(c, read)
       /\ Commit(c, new)

-----------------------------------------------------------------------------
(***************************************************************************)
(* The users of the API and the other controllers of the cluster.          *)
(***************************************************************************)

CreateClaim(c, ref) ==
    /\ ops < MaxOps
    /\ ops' = ops + 1
    /\ <<c, ref>> \in Requests
    /\ ~store[c].present
    /\ store[c].rv = 0 \/ c \in Reusable
    /\ Commit(c, NewPVC(ref))
    /\ UNCHANGED <<cached, queue, workerVars, faults>>

\* kubernetes.io/pvc-protection is on every claim: a deletion first marks it.
DeleteClaim(c) ==
    /\ ops < MaxOps
    /\ ops' = ops + 1
    /\ store[c].present /\ ~store[c].deleting
    /\ Commit(c, [store[c] EXCEPT !.deleting = TRUE])
    /\ UNCHANGED <<cached, queue, workerVars, faults>>

\* Once the other finalizers are gone, only ours keeps a marked claim.
Expunge(c) ==
    /\ store[c].deleting /\ ~store[c].finalizer
    /\ Commit(c, Absent(0))
    /\ UNCHANGED <<cached, queue, workerVars, budgetVars>>

\* Another writer changes what these controllers do not look at.
EditClaim(c) ==
    /\ ops < MaxOps
    /\ ops' = ops + 1
    /\ store[c].present
    /\ Commit(c, store[c])
    /\ UNCHANGED <<cached, queue, workerVars, faults>>

-----------------------------------------------------------------------------
(***************************************************************************)
(* The informer and the event handlers.  `view' is the cache after the     *)
(* event, `pvc' the object the handler is given.                           *)
(***************************************************************************)

\* Faulty variant: of the proxies that wait for a backend only the first is queued.
enqueueFirstProxyPVC(view, c, pvc) ==
    LET waiting == {p \in Claims : view[p].present /\ view[p].backendRef = c}
    IN  IF pvc.backendRef # None
        THEN {c}
        ELSE IF waiting = {} THEN {} ELSE {CHOOSE p \in waiting : TRUE}

enqueueProxyPVCDirectlyOrThroughAnnotation(view, c, pvc) ==
    IF pvc.backendRef # None
    THEN {c}
    ELSE {p \in Claims : view[p].present /\ view[p].backendRef = c}

\* Faulty variant: the backend of a proxy is not queued.
enqueuePVCWithProxyRefDirectly(view, c, pvc) == IF pvc.proxyRef # None THEN {c} ELSE {}

enqueuePVCWithProxyRefDirectlyOrThroughAnnotation(view, c, pvc) ==
    IF pvc.proxyRef # None
    THEN {c}
    ELSE {b \in Claims : view[b].present /\ pvc.backendRef = b}

\* Faulty variant: a released backend that still has the finalizer is not queued.
enqueueClaimedPVCDirectlyOrThroughAnnotation(view, c, pvc) ==
    IF pvc.proxyRef # None
    THEN {c}
    ELSE {b \in Claims : view[b].present /\ pvc.bindCompleted /\ pvc.backendRef = b}

enqueueBackingPVCDirectlyOrThroughAnnotation(view, c, pvc) ==
    IF pvc.proxyRef # None \/ pvc.finalizer
    THEN {c}
    ELSE {b \in Claims : view[b].present /\ pvc.bindCompleted /\ pvc.backendRef = b}

Enqueued(view, c, pvc, k) ==
    CASE k = "proxy"      -> enqueueProxyPVCDirectlyOrThroughAnnotation(view, c, pvc)
      [] k = "backend"    -> enqueuePVCWithProxyRefDirectlyOrThroughAnnotation(view, c, pvc)
      [] k = "protection" -> enqueueBackingPVCDirectlyOrThroughAnnotation(view, c, pvc)

\* One watch event: the cache, then the handlers.  The informer keeps the order
\* of the events of a name, not the order of events of two names.  A delete
\* handler is given the last known state.
Deliver(c) ==
    /\ watch[c] # <<>>
    /\ LET new == Head(watch[c])
           last == IF new.present THEN new ELSE cached[c]
           view == [cached EXCEPT ![c] = new]
       IN  /\ cached' = view
           /\ queue' = [k \in Controllers |-> queue[k] \cup Enqueued(view, c, last, k)]
    /\ watch' = [watch EXCEPT ![c] = Tail(@)]
    /\ UNCHANGED <<store, workerVars, budgetVars>>

\* The periodic resync hands every cached object to the update handlers.
Resync ==
    /\ faults < MaxFaults
    /\ faults' = faults + 1
    /\ queue' = [k \in Controllers |-> queue[k] \cup
                    UNION {Enqueued(cached, c, cached[c], k) : c \in {d \in Claims : cached[d].present}}]
    /\ UNCHANGED <<apiVars, cached, workerVars, ops>>

\* The process dies anywhere, is started again and lists every object.
Restart ==
    /\ faults < MaxFaults
    /\ faults' = faults + 1
    /\ cached' = store
    /\ watch' = [c \in Claims |-> <<>>]
    /\ queue' = [k \in Controllers |->
                    UNION {Enqueued(store, c, store[c], k) : c \in {d \in Claims : store[d].present}}]
    /\ proxyWorker' = [c \in Claims |-> IdleProxyWorker]
    /\ backendWorker' = [c \in Claims |-> IdleWorker]
    /\ protectionWorker' = [c \in Claims |-> IdleWorker]
    /\ UNCHANGED <<store, ops>>

\* The workqueue hands a key to one worker at a time.
Dequeue(k, c) == c \in queue[k] /\ queue' = [queue EXCEPT ![k] = @ \ {c}]
Requeue(k, c) == queue' = [queue EXCEPT ![k] = @ \cup {c}]

-----------------------------------------------------------------------------
(***************************************************************************)
(* The proxy controller.                                                   *)
(***************************************************************************)

ProxyGoto(c, state) == proxyWorker' = [proxyWorker EXCEPT ![c] = state]

\* sync up to syncUnbound: the first lister read.
ProxySync(c) ==
    LET pvc == cached[c]
        live == pvc.present /\ ~pvc.deleting
    IN  /\ proxyWorker[c].pc = "idle"
        /\ c \in queue["proxy"]
        /\ \/ /\ ~live \/ (pvc.backendRef # None /\ pvc.bindCompleted)
              /\ Dequeue("proxy", c)
              /\ UNCHANGED proxyWorker
           \/ /\ live /\ pvc.backendRef # None /\ ~pvc.bindCompleted
              /\ Dequeue("proxy", c)
              /\ ProxyGoto(c, [IdleProxyWorker EXCEPT !.pc = "lookup", !.proxy = pvc])
           \/ \* not a proxy any more: the sanity check's error, retried
              /\ live /\ pvc.backendRef = None
              /\ Requeue("proxy", c)
              /\ UNCHANGED proxyWorker
        /\ UNCHANGED <<apiVars, cached, backendWorker, protectionWorker, budgetVars>>

\* Faulty variant: any claim on the backend counts as one's own.
syncUnboundTakingAnyClaim(c) ==
    LET w == proxyWorker[c]
        backendPVC == cached[w.proxy.backendRef]
    IN  /\ w.pc = "lookup"
        /\ ProxyGoto(c, IF backendPVC.present
                        THEN [w EXCEPT !.pc = IF backendPVC.proxyRef = None THEN "claim" ELSE "complete",
                                       !.backend = backendPVC]
                        ELSE IdleProxyWorker)
        /\ UNCHANGED <<queue, apiVars, cached, backendWorker, protectionWorker, budgetVars>>

\* syncUnbound: the second lister read.
syncUnbound(c) ==
    LET w == proxyWorker[c]
        backendPVC == cached[w.proxy.backendRef]
    IN  /\ w.pc = "lookup"
        /\ \/ /\ ~backendPVC.present
              /\ ProxyGoto(c, IdleProxyWorker)
              /\ UNCHANGED queue
           \/ /\ backendPVC.present /\ backendPVC.proxyRef = None
              /\ ProxyGoto(c, [w EXCEPT !.pc = "claim", !.backend = backendPVC])
              /\ UNCHANGED queue
           \/ /\ backendPVC.present /\ backendPVC.proxyRef = c
              /\ ProxyGoto(c, [w EXCEPT !.pc = "complete", !.backend = backendPVC])
              /\ UNCHANGED queue
           \/ /\ backendPVC.present /\ backendPVC.proxyRef \notin {None, c}
              /\ ProxyGoto(c, IdleProxyWorker)
              /\ Requeue("proxy", c)
        /\ UNCHANGED <<apiVars, cached, backendWorker, protectionWorker, budgetVars>>

\* Faulty variant: goes on to complete the binding when the claim was refused.
bindIgnoringError(c) ==
    LET w == proxyWorker[c]
    IN  /\ w.pc = "claim"
        /\ Write(w.proxy.backendRef, w.backend, [w.backend EXCEPT !.proxyRef = c],
                 ProxyGoto(c, [w EXCEPT !.pc = "complete"]) /\ UNCHANGED queue,
                 ProxyGoto(c, [w EXCEPT !.pc = "complete"]) /\ UNCHANGED queue)
        /\ UNCHANGED <<cached, backendWorker, protectionWorker, ops>>

bindBackendPVCToProxyPVC(c) ==
    LET w == proxyWorker[c]
    IN  /\ w.pc = "claim"
        /\ Write(w.proxy.backendRef, w.backend, [w.backend EXCEPT !.proxyRef = c],
                 ProxyGoto(c, [w EXCEPT !.pc = "complete"]) /\ UNCHANGED queue,
                 ProxyGoto(c, IdleProxyWorker) /\ Requeue("proxy", c))
        /\ UNCHANGED <<cached, backendWorker, protectionWorker, ops>>

completeProxyPVCBind(c) ==
    LET w == proxyWorker[c]
    IN  /\ w.pc = "complete"
        /\ Write(c, w.proxy, [w.proxy EXCEPT !.bindCompleted = TRUE],
                 ProxyGoto(c, IdleProxyWorker) /\ UNCHANGED queue,
                 ProxyGoto(c, IdleProxyWorker) /\ Requeue("proxy", c))
        /\ UNCHANGED <<cached, backendWorker, protectionWorker, ops>>

ProxyStep(c) ==
    \/ ProxySync(c)
    \/ syncUnbound(c)
    \/ bindBackendPVCToProxyPVC(c)
    \/ completeProxyPVCBind(c)

-----------------------------------------------------------------------------
(***************************************************************************)
(* The backend controller.                                                 *)
(***************************************************************************)

BackendGoto(c, state) == backendWorker' = [backendWorker EXCEPT ![c] = state]

\* Faulty variant: releases as soon as the proxy is being deleted.
BackendSyncReleasingEarly(c) ==
    LET pvc == cached[c]
        proxy == cached[pvc.proxyRef]
        leaving == pvc.present /\ pvc.proxyRef # None /\ (~proxy.present \/ proxy.deleting)
    IN  /\ backendWorker[c].pc = "idle"
        /\ Dequeue("backend", c)
        /\ BackendGoto(c, IF leaving THEN [pc |-> "release", backend |-> pvc] ELSE IdleWorker)
        /\ UNCHANGED <<apiVars, cached, proxyWorker, protectionWorker, budgetVars>>

\* sync up to the live read: both lister reads.
BackendSync(c) ==
    LET pvc == cached[c]
        orphaned == pvc.present /\ pvc.proxyRef # None /\ ~cached[pvc.proxyRef].present
    IN  /\ backendWorker[c].pc = "idle"
        /\ Dequeue("backend", c)
        /\ IF orphaned
           THEN BackendGoto(c, [IdleWorker EXCEPT !.pc = "get", !.backend = pvc])
           ELSE UNCHANGED backendWorker
        /\ UNCHANGED <<apiVars, cached, proxyWorker, protectionWorker, budgetVars>>

\* The live read of the proxy claim.
BackendGetProxy(c) ==
    LET w == backendWorker[c]
    IN  /\ w.pc = "get"
        /\ \/ /\ store[w.backend.proxyRef].present
              /\ BackendGoto(c, IdleWorker)
              /\ UNCHANGED <<queue, faults>>
           \/ /\ ~store[w.backend.proxyRef].present
              /\ BackendGoto(c, [w EXCEPT !.pc = "release"])
              /\ UNCHANGED <<queue, faults>>
           \/ /\ faults < MaxFaults
              /\ faults' = faults + 1
              /\ BackendGoto(c, IdleWorker)
              /\ Requeue("backend", c)
        /\ UNCHANGED <<apiVars, cached, proxyWorker, protectionWorker, ops>>

releaseBackendPVC(c) ==
    LET w == backendWorker[c]
    IN  /\ w.pc = "release"
        /\ Write(c, w.backend, [w.backend EXCEPT !.proxyRef = None],
                 BackendGoto(c, IdleWorker) /\ UNCHANGED queue,
                 BackendGoto(c, IdleWorker) /\ Requeue("backend", c))
        /\ UNCHANGED <<cached, proxyWorker, protectionWorker, ops>>

BackendStep(c) == BackendSync(c) \/ BackendGetProxy(c) \/ releaseBackendPVC(c)

-----------------------------------------------------------------------------
(***************************************************************************)
(* The backend protection controller.                                      *)
(***************************************************************************)

ProtectionGoto(c, state) == protectionWorker' = [protectionWorker EXCEPT ![c] = state]

\* Faulty variant: whoever still claims the backend is not looked at.
MustRemoveFinalizerOfAny(pvc) == pvc.present /\ pvc.deleting /\ pvc.finalizer

MustRemoveFinalizer(pvc) ==
    pvc.present /\ pvc.deleting /\ pvc.finalizer /\ pvc.proxyRef = None

MustAddFinalizer(pvc) == pvc.present /\ ~pvc.deleting /\ ~pvc.finalizer

ProtectionSync(c) ==
    LET pvc == cached[c]
    IN  /\ protectionWorker[c].pc = "idle"
        /\ Dequeue("protection", c)
        /\ \/ /\ MustRemoveFinalizer(pvc)
              /\ ProtectionGoto(c, [IdleWorker EXCEPT !.pc = "remove", !.backend = pvc])
           \/ /\ MustAddFinalizer(pvc)
              /\ ProtectionGoto(c, [IdleWorker EXCEPT !.pc = "add", !.backend = pvc])
           \/ /\ ~MustRemoveFinalizer(pvc) /\ ~MustAddFinalizer(pvc)
              /\ UNCHANGED protectionWorker
        /\ UNCHANGED <<apiVars, cached, proxyWorker, backendWorker, budgetVars>>

PatchFinalizer(c, pc, value) ==
    LET w == protectionWorker[c]
    IN  /\ w.pc = pc
        /\ Write(c, w.backend, [w.backend EXCEPT !.finalizer = value],
                 ProtectionGoto(c, IdleWorker) /\ UNCHANGED queue,
                 ProtectionGoto(c, IdleWorker) /\ Requeue("protection", c))
        /\ UNCHANGED <<cached, proxyWorker, backendWorker, ops>>

addFinalizer(c) == PatchFinalizer(c, "add", TRUE)
removeFinalizer(c) == PatchFinalizer(c, "remove", FALSE)

ProtectionStep(c) == ProtectionSync(c) \/ addFinalizer(c) \/ removeFinalizer(c)

-----------------------------------------------------------------------------
EnvironmentStep(c) ==
    \/ \E ref \in Claims \cup {None} : CreateClaim(c, ref)
    \/ DeleteClaim(c)
    \/ Expunge(c)
    \/ EditClaim(c)

Next ==
    \/ \E c \in Claims :
        EnvironmentStep(c) \/ Deliver(c) \/ ProxyStep(c) \/ BackendStep(c) \/ ProtectionStep(c)
    \/ Resync
    \/ Restart

Spec == Init /\ [][Next]_vars

\* The reflector keeps receiving, and each controller has more workers than
\* the model has keys; nobody promises that a user acts or a resync comes.
Fairness ==
    \A c \in Claims :
        /\ WF_vars(Deliver(c))
        /\ WF_vars(ProxyStep(c)) /\ WF_vars(BackendStep(c)) /\ WF_vars(ProtectionStep(c))

FairSpec == Spec /\ Fairness

-----------------------------------------------------------------------------
(***************************************************************************)
(* Properties.                                                             *)
(***************************************************************************)

\* A proxy whose binding is completed holds its backend: the backend's
\* proxy-pvc-ref names that proxy as long as the backend exists, although the
\* two annotations are written by two calls to two objects (bind) and removed
\* by another controller (releaseBackendPVC).
BoundProxyHoldsBackend ==
    \A p \in Claims :
        LET b == store[p].backendRef
        IN  store[p].bindCompleted /\ store[b].present => store[b].proxyRef = p

\* The 1:1 binding the node side relies on (volume/bindstate): no two proxies
\* have completed a binding to one backend, even one that is gone meanwhile.
NoSharedBackend ==
    \A p, q \in Claims :
        store[p].bindCompleted /\ store[q].bindCompleted
            /\ store[p].backendRef = store[q].backendRef => p = q

\* A backend's claim ends only when the proxy it names is gone, or the backend
\* itself goes; no controller, acting on whatever stale copy, takes a backend
\* from a proxy that exists.
ClaimNotStolen ==
    [][\A b \in Claims :
        LET p == store[b].proxyRef
        IN  p # None /\ store[p].present /\ store'[b].present
                => store'[b].proxyRef = p]_vars

\* The protection finalizer is taken off a backend only while it is being
\* deleted and nobody claims it, although the decision is made on a cached copy
\* and the patch is sent later (removeFinalizer).
FinalizerGuardsClaim ==
    [][\A b \in Claims :
        store[b].finalizer /\ ~store'[b].finalizer
            => store[b].deleting /\ store[b].proxyRef = None]_vars

Orphaned(b) == store[b].proxyRef # None /\ ~store[store[b].proxyRef].present

\* The events alone, without a resync, get the backend of a vanished proxy
\* released, so that another proxy can claim it: in the end no backend is held for
\* a proxy that is gone (backend/sync.go:40-57, backend/controller.go:194-214).
OrphanReleased == <>[](\A b \in Claims : ~Orphaned(b))

\* A proxy and the backend it asks for, when nobody deletes either and nobody
\* else claims the backend, end up bound, whichever was created first and
\* whatever conflict or crash came between the two writes of the binding.
BindingCompletes ==
    <>[](\A p \in Claims :
        LET b == store[p].backendRef
        IN  (/\ store[p].present /\ ~store[p].deleting
             /\ b # None /\ store[b].present /\ store[b].proxyRef \in {None, p})
                => store[p].bindCompleted)

\* A claimed backend that nobody deletes comes under the finalizer, and a
\* backend that is being deleted and no longer claimed gets rid of it.
ProtectionSettles ==
    <>[](\A b \in Claims :
        /\ store[b].proxyRef # None /\ ~store[b].deleting => store[b].finalizer
        /\ store[b].deleting /\ store[b].proxyRef = None => ~store[b].finalizer)

\* A proxy of its controller's business: it is not bound, and its backend exists.
Waiting(p) ==
    LET b == store[p].backendRef
    IN  /\ store[p].present /\ ~store[p].deleting /\ ~store[p].bindCompleted
        /\ b # None /\ store[b].present /\ store[b].backendRef = None

\* No lost wake-up in the proxy controller: a proxy that is not bound although
\* its backend exists, be it claimed by another, is queued, being synced, or an
\* event of it or of the backend is on its way - although a sync that does not find
\* the backend gives up without an error (proxy/sync.go, syncUnbound).
WaitingProxyIsQueued ==
    \A p \in Claims : Waiting(p) =>
        \/ p \in queue["proxy"] \/ proxyWorker[p].pc # "idle"
        \/ watch[p] # <<>> \/ watch[store[p].backendRef] # <<>>

\* No lost wake-up in the protection controller: a backend that lacks the finalizer
\* it needs, or keeps the one it no longer needs, is queued, being patched, or an
\* event of it is on its way.
Unsettled(b) ==
    /\ store[b].present
    /\ \/ store[b].proxyRef # None /\ ~store[b].deleting /\ ~store[b].finalizer
       \/ store[b].proxyRef = None /\ store[b].deleting /\ store[b].finalizer

UnsettledBackendIsQueued ==
    \A b \in Claims : Unsettled(b) =>
        b \in queue["protection"] \/ protectionWorker[b].pc # "idle" \/ watch[b] # <<>>

\* No lost wake-up in the backend controller: a backend held for a proxy that is
\* gone is queued, being synced, or an event of it or of the proxy is on its way -
\* although the handler knows the proxy's backend only from the proxy's last known
\* state, and a sync that still finds the proxy does nothing.
OrphanIsQueued ==
    \A b \in Claims : Orphaned(b) =>
        \/ b \in queue["backend"] \/ backendWorker[b].pc # "idle"
        \/ watch[b] # <<>> \/ watch[store[b].proxyRef] # <<>>
-----------------------------------------------------------------------------
(***************************************************************************)
(* The abstract specification under the refinement mapping.                *)
(***************************************************************************)

created == {c \in Claims : store[c].rv > 0}
alive == {c \in Claims : store[c].present}
request == [c \in Claims |-> store[c].backendRef]
holder == [c \in Claims |-> store[c].proxyRef]
bound == {c \in Claims : store[c].bindCompleted}

Abstract == INSTANCE ExclusiveBinding
    WITH created <- created, alive <- alive, request <- request, holder <- holder, bound <- bound

\* The controllers, caches and lost calls included, implement the exclusive
\* binding of ExclusiveBinding.
ImplementsExclusiveBinding == Abstract!Spec

-----------------------------------------------------------------------------
(***************************************************************************)
(* The inductive invariant.                                                *)
(***************************************************************************)

\* Every version of c somebody can still act on.
Pending(c) == {watch[c][i] : i \in 1..Len(watch[c])}

Seen(c) ==
    {Absent(0), store[c], cached[c], proxyWorker[c].proxy,
     backendWorker[c].backend, protectionWorker[c].backend}
    \cup {proxyWorker[p].backend : p \in {d \in Claims : proxyWorker[d].proxy.backendRef = c}}
    \cup Pending(c)

\* A copy is as old as its version says, and a current version is no copy but
\* the object itself; a claim names a proxy that existed.
VersionsAgree ==
    \A c \in Claims : \A v \in Seen(c) :
        /\ v.rv <= store[c].rv
        /\ v.rv = store[c].rv => v = store[c]
        /\ ~v.present => v = Absent(v.rv)
        /\ v.proxyRef # None => store[v.proxyRef].rv > 0

\* What a sync in progress knows of the objects it has read.
ProxyWorkersAgree ==
    \A c \in Claims :
        LET w == proxyWorker[c]
        IN  /\ w.pc # "idle" => w.proxy.present /\ w.proxy.backendRef # None
            /\ w.pc = "claim" => w.backend.proxyRef = None
            /\ w.pc \in {"claim", "complete"} => store[w.proxy.backendRef].rv > 0

BackendWorkersAgree ==
    \A c \in Claims : backendWorker[c].pc # "idle" => backendWorker[c].backend.proxyRef # None

ProtectionWorkersAgree ==
    \A c \in Claims :
        LET w == protectionWorker[c]
        IN  /\ w.pc = "add" => MustAddFinalizer(w.backend)
            /\ w.pc = "remove" => MustRemoveFinalizer(w.backend)

BoundProxiesAsked ==
    \A c \in Claims : store[c].bindCompleted =>
        store[c].backendRef # None /\ store[store[c].backendRef].rv > 0

\* This much is inductive whether names are reused or not.
CopiesAgree ==
    /\ VersionsAgree
    /\ ProxyWorkersAgree
    /\ BackendWorkersAgree
    /\ ProtectionWorkersAgree
    /\ BoundProxiesAsked

\* Between the live read and the release nobody brings the proxy back.
ReleaseJustified ==
    \A c \in Claims : backendWorker[c].pc = "release" =>
        ~store[backendWorker[c].backend.proxyRef].present

\* The existing proxy p has been seen to hold b, or acts as if it did.
Claimant(p, b) ==
    /\ store[p].present
    /\ \/ \E v \in Seen(b) : v.proxyRef = p
       \/ proxyWorker[p].pc = "complete" /\ proxyWorker[p].proxy.backendRef = b
       \/ store[p].bindCompleted /\ store[p].backendRef = b

ClaimantsAgree ==
    \A b, p \in Claims : Claimant(p, b) =>
        /\ store[b].present => store[b].proxyRef = p
        /\ \A q \in Claims : Claimant(q, b) => q = p

\* The invariant that makes a binding exclusive: whoever can still act on an old
\* copy of a backend, or on having claimed it, agrees with the API server on its
\* one holder.  It is inductive when no name is reused.
BindingInvariant == CopiesAgree /\ ReleaseJustified /\ ClaimantsAgree

-----------------------------------------------------------------------------
(***************************************************************************)
(* What keeps the wake-ups (WaitingProxyIsQueued and the two after it).    *)
(***************************************************************************)

\* The cache lags behind the API server by what is on its way, and by no more.
WatchFollows ==
    \A c \in Claims :
        IF watch[c] = <<>> THEN cached[c] = store[c] ELSE watch[c][Len(watch[c])] = store[c]

\* A sync of a proxy that nobody will repeat has read the proxy as it is.
ProxySyncsCurrent ==
    \A p \in Claims :
        (/\ store[p].present /\ store[p].backendRef # None /\ watch[p] = <<>>
         /\ proxyWorker[p].pc # "idle" /\ p \notin queue["proxy"])
            => proxyWorker[p].proxy.backendRef = store[p].backendRef

WakeupInvariant ==
    /\ WatchFollows
    /\ ProxySyncsCurrent
    /\ WaitingProxyIsQueued
    /\ UnsettledBackendIsQueued

\* A name that is used again is used for the same request, and what is asked for
\* as a backend asks for none itself.
SameRequestOnReuse ==
    \A r, s \in Requests : r[1] = s[1] /\ r[1] \in Reusable => r = s
BackendsAskForNone ==
    \A r, s \in Requests : r[2] # None /\ s[2] # None => s[1] # r[2]

\* What is known of a claim is what somebody requested, and one name asks for one backend.
RequestsAgree ==
    \A c \in Claims : \A v \in Seen(c) :
        /\ v.present => <<c, v.backendRef>> \in Requests
        /\ v.proxyRef # None => <<v.proxyRef, c>> \in Requests

AskedOnce ==
    \A p \in Claims : \A v \in Seen(p) : v.present =>
        /\ \A u \in Seen(p) : u.present => u.backendRef = v.backendRef
        /\ \A b \in Claims : \A u \in Seen(b) : u.proxyRef = p => v.backendRef = b

\* The informer learns of an object before it learns that it is gone.
GoneWasThere ==
    \A c \in Claims :
        ~store[c].present /\ watch[c] # <<>> =>
            /\ Len(watch[c]) = 1 => cached[c].present
            /\ Len(watch[c]) > 1 => watch[c][Len(watch[c]) - 1].present

\* A sync of a backend that nobody will repeat looks for the proxy that holds it.
BackendSyncsCurrent ==
    \A b \in Claims :
        (/\ store[b].proxyRef # None /\ watch[b] = <<>>
         /\ backendWorker[b].pc # "idle" /\ b \notin queue["backend"])
            => backendWorker[b].backend.proxyRef = store[b].proxyRef

OrphanInvariant ==
    /\ RequestsAgree
    /\ AskedOnce
    /\ GoneWasThere
    /\ BackendSyncsCurrent
    /\ OrphanIsQueued
=============================================================================
