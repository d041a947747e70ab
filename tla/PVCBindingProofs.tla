-------------------------- MODULE PVCBindingProofs --------------------------
(***************************************************************************)
(* Proofs about PVCBinding, for every set of claims, every set of requests *)
(* and every bound.                                                        *)
(***************************************************************************)
EXTENDS PVCBinding, SequenceTheorems, TLAPS

-----------------------------------------------------------------------------
(***************************************************************************)
(* Type correctness.                                                       *)
(***************************************************************************)

\* The versions of claims the specification builds are claims.
LEMMA PVCTypes ==
    /\ \A n \in Nat : Absent(n) \in PVC
    /\ \A ref \in Claims \cup {None} : NewPVC(ref) \in PVC
    /\ IdleProxyWorker \in ProxyWorker
    /\ IdleWorker \in BackendWorker
    /\ IdleWorker \in ProtectionWorker
BY DEF PVC, Absent, NewPVC, IdleProxyWorker, IdleWorker, ProxyWorker, BackendWorker,
       ProtectionWorker

\* So are the ones the controllers make from a copy.
LEMMA PVCUpdates ==
    ASSUME NEW v \in PVC
    PROVE  /\ [v EXCEPT !.deleting = TRUE] \in PVC
           /\ [v EXCEPT !.bindCompleted = TRUE] \in PVC
           /\ \A f \in BOOLEAN : [v EXCEPT !.finalizer = f] \in PVC
           /\ \A ref \in Claims \cup {None} : [v EXCEPT !.proxyRef = ref] \in PVC
           /\ \A n \in Nat : [v EXCEPT !.rv = n] \in PVC
           /\ v.rv \in Nat
           /\ v.proxyRef \in Claims \cup {None}
           /\ v.backendRef \in Claims \cup {None}
BY DEF PVC

\* Committing a claim keeps the types of what the API server holds and sends.
LEMMA CommitTypes ==
    ASSUME TypeOK, NEW c \in Claims, NEW pvc \in PVC, Commit(c, pvc)
    PROVE  /\ store' \in [Claims -> PVC]
           /\ watch' \in [Claims -> Seq(PVC)]
<1>1. store[c] \in PVC
    BY DEF TypeOK
<1>2. store[c].rv + 1 \in Nat
    BY <1>1 DEF PVC
<1>3. [pvc EXCEPT !.rv = store[c].rv + 1] \in PVC
    BY <1>2, PVCUpdates
<1> QED
    BY <1>3 DEF TypeOK, Commit

\* A call changes the store by a commit or not at all.
LEMMA WriteTypes ==
    ASSUME TypeOK, NEW c \in Claims, NEW new \in PVC, Commit(c, new) \/ UNCHANGED apiVars
    PROVE  /\ store' \in [Claims -> PVC]
           /\ watch' \in [Claims -> Seq(PVC)]
<1>1. CASE Commit(c, new)
    BY <1>1, CommitTypes
<1>2. CASE UNCHANGED apiVars
    BY <1>2 DEF TypeOK, apiVars
<1> QED
    BY <1>1, <1>2

\* The handlers put only names of claims into the workqueues.
LEMMA EnqueuedTypes ==
    ASSUME NEW view, NEW c \in Claims, NEW pvc, NEW k \in Controllers
    PROVE  Enqueued(view, c, pvc, k) \in SUBSET Claims
BY DEF Controllers, Enqueued, enqueueProxyPVCDirectlyOrThroughAnnotation,
       enqueuePVCWithProxyRefDirectlyOrThroughAnnotation,
       enqueueBackingPVCDirectlyOrThroughAnnotation

\* Type correctness is inductive together with one fact: a proxy that is being
\* synced asks for a backend (isProxyPersistentVolumeClaim).
SyncedProxyAsks ==
    \A c \in Claims : proxyWorker[c].pc # "idle" => proxyWorker[c].proxy.backendRef # None

\* A proxy sync moves on to a state that keeps both.
LEMMA ProxyGotoTypes ==
    ASSUME TypeOK, SyncedProxyAsks, NEW c \in Claims, NEW state \in ProxyWorker,
           state.pc # "idle" => state.proxy.backendRef # None,
           ProxyGoto(c, state)
    PROVE  proxyWorker' \in [Claims -> ProxyWorker] /\ SyncedProxyAsks'
BY DEF TypeOK, ProxyGoto, SyncedProxyAsks

Typed == TypeOK /\ SyncedProxyAsks

LEMMA TypedAlways == Spec => []Typed
<1>1. Init => Typed
    BY PVCTypes, BoundsAssumption DEF Init, Typed, TypeOK, SyncedProxyAsks, IdleProxyWorker
<1>2. Typed /\ [Next]_vars => Typed'
    <2> SUFFICES ASSUME TypeOK, SyncedProxyAsks, [Next]_vars PROVE Typed'
        BY DEF Typed
    <2> USE DEF Typed
    <2>0. /\ store \in [Claims -> PVC] /\ cached \in [Claims -> PVC]
          /\ queue \in [Controllers -> SUBSET Claims]
          /\ \A k \in Controllers, c \in Claims :
                /\ [queue EXCEPT ![k] = @ \cup {c}] \in [Controllers -> SUBSET Claims]
                /\ [queue EXCEPT ![k] = @ \ {c}] \in [Controllers -> SUBSET Claims]
          /\ "proxy" \in Controllers /\ "backend" \in Controllers /\ "protection" \in Controllers
        BY DEF TypeOK, Controllers
    <2>1. ASSUME NEW c \in Claims, EnvironmentStep(c) PROVE Typed'
        <3>2. CASE \E ref \in Claims \cup {None} : CreateClaim(c, ref)
            <4>1. PICK ref \in Claims \cup {None} : CreateClaim(c, ref)
                BY <3>2
            <4>2. NewPVC(ref) \in PVC /\ Commit(c, NewPVC(ref))
                BY <4>1, PVCTypes DEF CreateClaim
            <4>3. store' \in [Claims -> PVC] /\ watch' \in [Claims -> Seq(PVC)]
                BY <4>2, CommitTypes
            <4> QED
                BY <4>1, <4>3, BoundsAssumption DEF CreateClaim, TypeOK, SyncedProxyAsks, workerVars
        <3>3. CASE DeleteClaim(c)
            <4>2. [store[c] EXCEPT !.deleting = TRUE] \in PVC
                BY <2>0, PVCUpdates
            <4>3. store' \in [Claims -> PVC] /\ watch' \in [Claims -> Seq(PVC)]
                BY <4>2, <3>3, CommitTypes DEF DeleteClaim
            <4> QED
                BY <3>3, <4>3, BoundsAssumption DEF DeleteClaim, TypeOK, SyncedProxyAsks, workerVars
        <3>4. CASE Expunge(c)
            <4>1. store' \in [Claims -> PVC] /\ watch' \in [Claims -> Seq(PVC)]
                BY PVCTypes, <3>4, CommitTypes DEF Expunge
            <4> QED
                BY <3>4, <4>1 DEF Expunge, TypeOK, SyncedProxyAsks, workerVars, budgetVars
        <3>5. CASE EditClaim(c)
            <4>1. store' \in [Claims -> PVC] /\ watch' \in [Claims -> Seq(PVC)]
                BY <2>0, <3>5, CommitTypes DEF EditClaim
            <4> QED
                BY <3>5, <4>1, BoundsAssumption DEF EditClaim, TypeOK, SyncedProxyAsks, workerVars
        <3> QED
            BY <2>1, <3>2, <3>3, <3>4, <3>5 DEF EnvironmentStep
    <2>2. ASSUME NEW c \in Claims, ProxyStep(c) PROVE Typed'
        <3> DEFINE w == proxyWorker[c]
        <3>0. /\ proxyWorker \in [Claims -> ProxyWorker]
              /\ w \in ProxyWorker /\ w.proxy \in PVC /\ w.backend \in PVC
              /\ w.proxy.backendRef \in Claims \cup {None}
              /\ \A state \in ProxyWorker :
                    [proxyWorker EXCEPT ![c] = state] \in [Claims -> ProxyWorker]
            BY DEF TypeOK, ProxyWorker, PVC
        <3>1. CASE ProxySync(c)
            <4>1. [IdleProxyWorker EXCEPT !.pc = "lookup", !.proxy = cached[c]] \in ProxyWorker
                BY <2>0, PVCTypes DEF ProxyWorker
            <4>2. /\ proxyWorker' \in [Claims -> ProxyWorker]
                  /\ SyncedProxyAsks'
                BY <3>1, <4>1, <3>0 DEF ProxySync, ProxyGoto, SyncedProxyAsks, IdleProxyWorker
            <4>3. queue' \in [Controllers -> SUBSET Claims]
                BY <3>1, <2>0 DEF ProxySync, Dequeue, Requeue
            <4> QED
                BY <3>1, <4>2, <4>3 DEF ProxySync, TypeOK, apiVars, budgetVars
        <3>2. CASE syncUnbound(c)
            <4>1. /\ w.pc = "lookup"
                  /\ w.proxy.backendRef \in Claims
                BY <3>2, <3>0 DEF syncUnbound, SyncedProxyAsks
            <4>2. cached[w.proxy.backendRef] \in PVC
                BY <4>1, <2>0
            <4>3. \A pc \in {"claim", "complete"} :
                    [w EXCEPT !.pc = pc, !.backend = cached[w.proxy.backendRef]] \in ProxyWorker
                BY <4>2, <3>0 DEF ProxyWorker
            <4>4. /\ proxyWorker' \in [Claims -> ProxyWorker]
                  /\ SyncedProxyAsks'
                <5>1. ProxyGoto(c, IdleProxyWorker) \/ \E pc \in {"claim", "complete"} :
                        ProxyGoto(c, [w EXCEPT !.pc = pc, !.backend = cached[w.proxy.backendRef]])
                    BY <3>2 DEF syncUnbound
                <5>2. /\ \A pc \in {"claim", "complete"} :
                        [w EXCEPT !.pc = pc, !.backend = cached[w.proxy.backendRef]].proxy = w.proxy
                      /\ IdleProxyWorker.pc = "idle"
                    BY <3>0 DEF IdleProxyWorker, ProxyWorker
                <5> QED
                    BY <4>1, <4>3, <5>1, <5>2, PVCTypes, NoneAssumption, ProxyGotoTypes
            <4>5. queue' \in [Controllers -> SUBSET Claims]
                BY <3>2, <2>0 DEF syncUnbound, Requeue
            <4> QED
                BY <3>2, <4>4, <4>5 DEF syncUnbound, TypeOK, apiVars, budgetVars
        <3>3. CASE bindBackendPVCToProxyPVC(c)
            <4>1. w.proxy.backendRef \in Claims
                BY <3>3, <3>0 DEF bindBackendPVCToProxyPVC, SyncedProxyAsks
            <4>2. [w.backend EXCEPT !.proxyRef = c] \in PVC
                BY <3>0, PVCUpdates
            <4>3. [w EXCEPT !.pc = "complete"] \in ProxyWorker
                BY <3>0 DEF ProxyWorker
            <4>4. Commit(w.proxy.backendRef, [w.backend EXCEPT !.proxyRef = c]) \/ UNCHANGED apiVars
                BY <3>3 DEF bindBackendPVCToProxyPVC, Write
            <4>5. store' \in [Claims -> PVC] /\ watch' \in [Claims -> Seq(PVC)]
                BY <4>1, <4>2, <4>4, WriteTypes
            <4>6. /\ proxyWorker' \in [Claims -> ProxyWorker]
                  /\ SyncedProxyAsks'
                <5>1. ProxyGoto(c, IdleProxyWorker) \/ ProxyGoto(c, [w EXCEPT !.pc = "complete"])
                    BY <3>3 DEF bindBackendPVCToProxyPVC, Write
                <5>2. [w EXCEPT !.pc = "complete"].proxy = w.proxy /\ IdleProxyWorker.pc = "idle"
                    BY <3>0 DEF IdleProxyWorker, ProxyWorker
                <5> QED
                    BY <4>1, <4>3, <5>1, <5>2, PVCTypes, NoneAssumption, ProxyGotoTypes
            <4>7. UNCHANGED queue \/ Requeue("proxy", c)
                BY <3>3 DEF bindBackendPVCToProxyPVC, Write
            <4>8. queue' \in [Controllers -> SUBSET Claims]
                BY <4>7, <2>0 DEF Requeue
            <4>9. faults' \in 0..MaxFaults
                BY <3>3, BoundsAssumption DEF bindBackendPVCToProxyPVC, Write, TypeOK
            <4> QED
                BY <3>3, <4>5, <4>6, <4>8, <4>9 DEF bindBackendPVCToProxyPVC, TypeOK
        <3>4. CASE completeProxyPVCBind(c)
            <4>2. [w.proxy EXCEPT !.bindCompleted = TRUE] \in PVC
                BY <3>0, PVCUpdates
            <4>4. Commit(c, [w.proxy EXCEPT !.bindCompleted = TRUE]) \/ UNCHANGED apiVars
                BY <3>4 DEF completeProxyPVCBind, Write
            <4>5. store' \in [Claims -> PVC] /\ watch' \in [Claims -> Seq(PVC)]
                BY <4>2, <4>4, WriteTypes
            <4>6. /\ proxyWorker' \in [Claims -> ProxyWorker]
                  /\ SyncedProxyAsks'
                BY <3>4, <3>0, PVCTypes
                   DEF completeProxyPVCBind, Write, ProxyGoto, SyncedProxyAsks, IdleProxyWorker
            <4>7. queue' \in [Controllers -> SUBSET Claims] /\ faults' \in 0..MaxFaults
                <5>1. queue' \in {queue, [queue EXCEPT !["proxy"] = @ \cup {c}]}
                    BY <3>4 DEF completeProxyPVCBind, Write, Requeue
                <5>2. faults' \in 0..MaxFaults
                    BY <3>4, BoundsAssumption DEF completeProxyPVCBind, Write, TypeOK
                <5> QED
                    BY <5>1, <5>2, <2>0
            <4> QED
                BY <3>4, <4>5, <4>6, <4>7 DEF completeProxyPVCBind, TypeOK
        <3> QED
            BY <2>2, <3>1, <3>2, <3>3, <3>4 DEF ProxyStep
    <2>3. ASSUME NEW c \in Claims, BackendStep(c) PROVE Typed'
        <3> DEFINE w == backendWorker[c]
        <3>0. /\ w \in BackendWorker /\ w.backend \in PVC
              /\ \A state \in BackendWorker :
                    [backendWorker EXCEPT ![c] = state] \in [Claims -> BackendWorker]
            BY DEF TypeOK, BackendWorker
        <3>1. CASE BackendSync(c)
            <4>1. [IdleWorker EXCEPT !.pc = "get", !.backend = cached[c]] \in BackendWorker
                BY <2>0, PVCTypes DEF BackendWorker
            <4>2. backendWorker' \in [Claims -> BackendWorker]
                BY <3>1, <4>1, <3>0 DEF BackendSync, BackendGoto, TypeOK
            <4>3. queue' \in [Controllers -> SUBSET Claims]
                BY <3>1, <2>0 DEF BackendSync, Dequeue
            <4> QED
                BY <3>1, <4>2, <4>3 DEF BackendSync, TypeOK, SyncedProxyAsks, apiVars, budgetVars
        <3>2. CASE BackendGetProxy(c)
            <4>1. [w EXCEPT !.pc = "release"] \in BackendWorker
                BY <3>0 DEF BackendWorker
            <4>2. backendWorker' \in [Claims -> BackendWorker]
                BY <3>2, <4>1, <3>0, PVCTypes DEF BackendGetProxy, BackendGoto
            <4>3. queue' \in [Controllers -> SUBSET Claims] /\ faults' \in 0..MaxFaults
                <5>1. queue' \in {queue, [queue EXCEPT !["backend"] = @ \cup {c}]}
                    BY <3>2 DEF BackendGetProxy, Requeue
                <5>2. faults' \in 0..MaxFaults
                    BY <3>2, BoundsAssumption DEF BackendGetProxy, TypeOK
                <5> QED
                    BY <5>1, <5>2, <2>0
            <4> QED
                BY <3>2, <4>2, <4>3 DEF BackendGetProxy, TypeOK, SyncedProxyAsks, apiVars
        <3>3. CASE releaseBackendPVC(c)
            <4>1. [w.backend EXCEPT !.proxyRef = None] \in PVC
                BY <3>0, PVCUpdates
            <4>2. Commit(c, [w.backend EXCEPT !.proxyRef = None]) \/ UNCHANGED apiVars
                BY <3>3 DEF releaseBackendPVC, Write
            <4>3. store' \in [Claims -> PVC] /\ watch' \in [Claims -> Seq(PVC)]
                BY <4>1, <4>2, WriteTypes
            <4>4. backendWorker' \in [Claims -> BackendWorker]
                BY <3>3, <3>0, PVCTypes DEF releaseBackendPVC, Write, BackendGoto
            <4>5. queue' \in [Controllers -> SUBSET Claims] /\ faults' \in 0..MaxFaults
                <5>1. queue' \in {queue, [queue EXCEPT !["backend"] = @ \cup {c}]}
                    BY <3>3 DEF releaseBackendPVC, Write, Requeue
                <5>2. faults' \in 0..MaxFaults
                    BY <3>3, BoundsAssumption DEF releaseBackendPVC, Write, TypeOK
                <5> QED
                    BY <5>1, <5>2, <2>0
            <4> QED
                BY <3>3, <4>3, <4>4, <4>5 DEF releaseBackendPVC, TypeOK, SyncedProxyAsks
        <3> QED
            BY <2>3, <3>1, <3>2, <3>3 DEF BackendStep
    <2>4. ASSUME NEW c \in Claims, ProtectionStep(c) PROVE Typed'
        <3> DEFINE w == protectionWorker[c]
        <3>0. /\ w \in ProtectionWorker /\ w.backend \in PVC
              /\ \A state \in ProtectionWorker :
                    [protectionWorker EXCEPT ![c] = state] \in [Claims -> ProtectionWorker]
            BY DEF TypeOK, ProtectionWorker
        <3>1. CASE ProtectionSync(c)
            <4>1. \A pc \in {"add", "remove"} :
                    [IdleWorker EXCEPT !.pc = pc, !.backend = cached[c]] \in ProtectionWorker
                BY <2>0, PVCTypes DEF ProtectionWorker
            <4>2. protectionWorker' \in [Claims -> ProtectionWorker]
                BY <3>1, <4>1, <3>0 DEF ProtectionSync, ProtectionGoto, TypeOK
            <4>3. queue' \in [Controllers -> SUBSET Claims]
                BY <3>1, <2>0 DEF ProtectionSync, Dequeue
            <4> QED
                BY <3>1, <4>2, <4>3 DEF ProtectionSync, TypeOK, SyncedProxyAsks, apiVars, budgetVars
        <3>2. ASSUME NEW pc, NEW value \in BOOLEAN, PatchFinalizer(c, pc, value) PROVE Typed'
            <4>1. [w.backend EXCEPT !.finalizer = value] \in PVC
                BY <3>0, PVCUpdates
            <4>2. Commit(c, [w.backend EXCEPT !.finalizer = value]) \/ UNCHANGED apiVars
                BY <3>2 DEF PatchFinalizer, Write
            <4>3. store' \in [Claims -> PVC] /\ watch' \in [Claims -> Seq(PVC)]
                BY <4>1, <4>2, WriteTypes
            <4>4. protectionWorker' \in [Claims -> ProtectionWorker]
                BY <3>2, <3>0, PVCTypes DEF PatchFinalizer, Write, ProtectionGoto
            <4>5. queue' \in [Controllers -> SUBSET Claims] /\ faults' \in 0..MaxFaults
                <5>1. queue' \in {queue, [queue EXCEPT !["protection"] = @ \cup {c}]}
                    BY <3>2 DEF PatchFinalizer, Write, Requeue
                <5>2. faults' \in 0..MaxFaults
                    BY <3>2, BoundsAssumption DEF PatchFinalizer, Write, TypeOK
                <5> QED
                    BY <5>1, <5>2, <2>0
            <4> QED
                BY <3>2, <4>3, <4>4, <4>5 DEF PatchFinalizer, TypeOK, SyncedProxyAsks
        <3> QED
            BY <2>4, <3>1, <3>2 DEF ProtectionStep, addFinalizer, removeFinalizer
    <2>5. ASSUME NEW c \in Claims, Deliver(c) PROVE Typed'
        <3> DEFINE new == Head(watch[c])
                   last == IF new.present THEN new ELSE cached[c]
                   view == [cached EXCEPT ![c] = new]
        <3>1. new \in PVC /\ Tail(watch[c]) \in Seq(PVC)
            <4>1. watch[c] \in Seq(PVC) /\ watch[c] # <<>>
                BY <2>5 DEF Deliver, TypeOK
            <4> QED
                BY <4>1, HeadTailProperties
        <3>2. view \in [Claims -> PVC] /\ watch' \in [Claims -> Seq(PVC)]
            BY <2>5, <3>1, <2>0 DEF Deliver, TypeOK
        <3>3. queue' = [k \in Controllers |-> queue[k] \cup Enqueued(view, c, last, k)]
              /\ cached' = view
            BY <2>5 DEF Deliver
        <3>4. queue' \in [Controllers -> SUBSET Claims]
            <4>1. \A k \in Controllers : Enqueued(view, c, last, k) \in SUBSET Claims
                BY EnqueuedTypes
            <4> QED
                BY <4>1, <3>3, <2>0
        <3> QED
            BY <2>5, <3>2, <3>3, <3>4
               DEF Deliver, TypeOK, SyncedProxyAsks, workerVars, budgetVars
    <2>6. CASE Resync
        <3>1. \A k \in Controllers, c \in Claims : Enqueued(cached, c, cached[c], k) \in SUBSET Claims
            BY EnqueuedTypes
        <3>2. queue' \in [Controllers -> SUBSET Claims] /\ faults' \in 0..MaxFaults
            BY <2>6, <3>1, <2>0, BoundsAssumption DEF Resync, TypeOK
        <3> QED
            BY <2>6, <3>2 DEF Resync, TypeOK, SyncedProxyAsks, workerVars, apiVars
    <2>7. CASE Restart
        <3>1. \A k \in Controllers, c \in Claims : Enqueued(store, c, store[c], k) \in SUBSET Claims
            BY EnqueuedTypes
        <3>2. queue' \in [Controllers -> SUBSET Claims] /\ faults' \in 0..MaxFaults
            BY <2>7, <3>1, <2>0, BoundsAssumption DEF Restart, TypeOK
        <3> QED
            BY <2>7, <3>2, PVCTypes DEF Restart, TypeOK, SyncedProxyAsks, IdleProxyWorker
    <2>8. CASE UNCHANGED vars
        BY <2>8 DEF vars, TypeOK, SyncedProxyAsks, workerVars
    <2> QED
        BY <2>1, <2>2, <2>3, <2>4, <2>5, <2>6, <2>7, <2>8 DEF Next
<1> QED
    BY <1>1, <1>2, PTL DEF Spec

\* Type correctness of every reachable state.
THEOREM TypeCorrect == Spec => []TypeOK
<1>1. Typed => TypeOK
    BY DEF Typed
<1> QED
    BY <1>1, TypedAlways, PTL
-----------------------------------------------------------------------------
(***************************************************************************)
(* What a step does to the watches, the workqueues and the syncs.          *)
(***************************************************************************)

\* Nothing but a commit puts anything on a watch, nothing but the informer takes
\* it off.
LEMMA WatchMoves ==
    ASSUME Typed, [Next]_vars
    PROVE  \/ UNCHANGED <<store, watch, cached>>
           \/ UNCHANGED cached /\ \E d \in Claims, pvc \in PVC : Commit(d, pvc)
           \/ \E d \in Claims : Deliver(d)
           \/ Restart
<1> USE DEF Typed, apiVars
<1>1. ASSUME NEW d \in Claims, EnvironmentStep(d)
      PROVE  UNCHANGED cached /\ \E pvc \in PVC : Commit(d, pvc)
    <2>1. /\ store[d] \in PVC /\ [store[d] EXCEPT !.deleting = TRUE] \in PVC
          /\ Absent(0) \in PVC /\ \A ref \in Claims \cup {None} : NewPVC(ref) \in PVC
        BY PVCTypes, PVCUpdates DEF TypeOK
    <2> QED
        BY <1>1, <2>1 DEF EnvironmentStep, CreateClaim, DeleteClaim, Expunge, EditClaim
<1>2. ASSUME NEW d \in Claims, ProxyStep(d)
      PROVE  /\ UNCHANGED cached
             /\ UNCHANGED <<store, watch>> \/ \E e \in Claims, pvc \in PVC : Commit(e, pvc)
    <2> DEFINE w == proxyWorker[d]
    <2>1. w.proxy \in PVC /\ w.backend \in PVC
        BY DEF TypeOK, ProxyWorker
    <2>2. /\ [w.proxy EXCEPT !.bindCompleted = TRUE] \in PVC
          /\ [w.backend EXCEPT !.proxyRef = d] \in PVC
          /\ w.proxy.backendRef \in Claims \cup {None}
        BY <2>1, PVCUpdates
    <2>3. w.pc = "claim" => w.proxy.backendRef \in Claims
        BY <2>2 DEF SyncedProxyAsks
    <2> QED
        BY <1>2, <2>2, <2>3 DEF ProxyStep, ProxySync, syncUnbound, bindBackendPVCToProxyPVC,
           completeProxyPVCBind, Write
<1>3. ASSUME NEW d \in Claims, BackendStep(d)
      PROVE  UNCHANGED cached /\ (UNCHANGED <<store, watch>> \/ \E pvc \in PVC : Commit(d, pvc))
    <2>1. [backendWorker[d].backend EXCEPT !.proxyRef = None] \in PVC
        BY PVCUpdates DEF TypeOK, BackendWorker
    <2> QED
        BY <1>3, <2>1 DEF BackendStep, BackendSync, BackendGetProxy, releaseBackendPVC, Write
<1>4. ASSUME NEW d \in Claims, ProtectionStep(d)
      PROVE  UNCHANGED cached /\ (UNCHANGED <<store, watch>> \/ \E pvc \in PVC : Commit(d, pvc))
    <2>1. \A f \in BOOLEAN : [protectionWorker[d].backend EXCEPT !.finalizer = f] \in PVC
        BY PVCUpdates DEF TypeOK, ProtectionWorker
    <2> QED
        BY <1>4, <2>1 DEF ProtectionStep, ProtectionSync, addFinalizer, removeFinalizer,
           PatchFinalizer, Write
<1>5. CASE Resync \/ UNCHANGED vars
    BY <1>5 DEF Resync, vars
<1> QED
    BY <1>1, <1>2, <1>3, <1>4, <1>5 DEF Next

KeyWaits(c) ==
    /\ \/ ProxyStep(c)
       \/ proxyWorker'[c] = proxyWorker[c] /\ (c \in queue["proxy"] => c \in queue'["proxy"])
    /\ \/ BackendStep(c)
       \/ backendWorker'[c] = backendWorker[c] /\ (c \in queue["backend"] => c \in queue'["backend"])
    /\ \/ ProtectionStep(c)
       \/ /\ protectionWorker'[c] = protectionWorker[c]
          /\ c \in queue["protection"] => c \in queue'["protection"]

\* Only its own controller takes a key from a workqueue, or moves its sync.
LEMMA KeysWait ==
    ASSUME Typed, [Next]_vars, ~Restart, NEW c \in Claims
    PROVE  KeyWaits(c)
<1> USE DEF Typed
<1>0. /\ queue \in [Controllers -> SUBSET Claims]
      /\ "proxy" \in Controllers /\ "backend" \in Controllers /\ "protection" \in Controllers
      /\ proxyWorker \in [Claims -> ProxyWorker]
      /\ backendWorker \in [Claims -> BackendWorker]
      /\ protectionWorker \in [Claims -> ProtectionWorker]
    BY DEF TypeOK, Controllers
<1>1. ASSUME NEW d \in Claims, EnvironmentStep(d) PROVE UNCHANGED <<queue, workerVars>>
    BY <1>1 DEF EnvironmentStep, CreateClaim, DeleteClaim, Expunge, EditClaim
<1>2. ASSUME NEW d \in Claims, Deliver(d) \/ Resync
      PROVE  UNCHANGED workerVars /\ \A k \in Controllers : queue[k] \subseteq queue'[k]
    BY <1>0, <1>2 DEF Deliver, Resync
<1>3. ASSUME NEW d \in Claims, ProxyStep(d)
      PROVE  /\ UNCHANGED <<backendWorker, protectionWorker>>
             /\ UNCHANGED proxyWorker \/ \E state : ProxyGoto(d, state)
             /\ UNCHANGED queue \/ Dequeue("proxy", d) \/ Requeue("proxy", d)
    BY <1>3 DEF ProxyStep, ProxySync, syncUnbound, bindBackendPVCToProxyPVC, completeProxyPVCBind,
       Write
<1>4. ASSUME NEW d \in Claims, BackendStep(d)
      PROVE  /\ UNCHANGED <<proxyWorker, protectionWorker>>
             /\ UNCHANGED backendWorker \/ \E state : BackendGoto(d, state)
             /\ UNCHANGED queue \/ Dequeue("backend", d) \/ Requeue("backend", d)
    BY <1>4 DEF BackendStep, BackendSync, BackendGetProxy, releaseBackendPVC, Write
<1>5. ASSUME NEW d \in Claims, ProtectionStep(d)
      PROVE  /\ UNCHANGED <<proxyWorker, backendWorker>>
             /\ UNCHANGED protectionWorker \/ \E state : ProtectionGoto(d, state)
             /\ UNCHANGED queue \/ Dequeue("protection", d) \/ Requeue("protection", d)
    BY <1>5 DEF ProtectionStep, ProtectionSync, addFinalizer, removeFinalizer, PatchFinalizer, Write
<1>6. CASE UNCHANGED vars
    BY <1>6 DEF KeyWaits, vars, workerVars
<1>7. ASSUME NEW d \in Claims, ProxyStep(d) \/ BackendStep(d) \/ ProtectionStep(d)
      PROVE  KeyWaits(c)
    BY <1>0, <1>3, <1>4, <1>5, <1>7 DEF KeyWaits, ProxyGoto, BackendGoto, ProtectionGoto, Dequeue, Requeue
<1> QED
    BY <1>0, <1>1, <1>2, <1>6, <1>7 DEF KeyWaits, Next, workerVars
-----------------------------------------------------------------------------
(***************************************************************************)
(* No lost wake-ups.                                                       *)
(***************************************************************************)

\* A commit leaves what it wrote at the end of the watch.
LEMMA CommitIsLast ==
    ASSUME Typed, NEW d \in Claims, NEW pvc \in PVC, Commit(d, pvc)
    PROVE  /\ watch'[d] # <<>> /\ watch'[d][Len(watch'[d])] = store'[d]
           /\ \A c \in Claims \ {d} : watch'[c] = watch[c] /\ store'[c] = store[c]
<1> DEFINE new == [pvc EXCEPT !.rv = store[d].rv + 1]
<1>1. watch[d] \in Seq(PVC) /\ watch \in [Claims -> Seq(PVC)] /\ store \in [Claims -> PVC]
    BY DEF Typed, TypeOK
<1>2. new \in PVC
    <2>1. store[d].rv + 1 \in Nat
        BY <1>1 DEF PVC
    <2> QED
        BY <2>1, PVCUpdates
<1>3. /\ watch'[d] = Append(watch[d], new) /\ store'[d] = new
      /\ \A c \in Claims \ {d} : watch'[c] = watch[c] /\ store'[c] = store[c]
    BY <1>1 DEF Commit
<1>4. Len(watch'[d]) = Len(watch[d]) + 1 /\ watch'[d][Len(watch[d]) + 1] = new
    BY <1>1, <1>2, <1>3, AppendProperties
<1>5. watch'[d] # <<>>
    BY <1>1, <1>2, <1>3, AppendProperties
<1> QED
    BY <1>3, <1>4, <1>5

\* The event that empties a watch brings the object as it is, and its handlers
\* see the cache with it.
LEMMA LastDelivered ==
    ASSUME Typed, WatchFollows, NEW d \in Claims, Deliver(d)
    PROVE  /\ UNCHANGED <<store, workerVars>>
           /\ \A k \in Controllers : queue[k] \subseteq queue'[k]
           /\ \A c \in Claims \ {d} : watch'[c] = watch[c] /\ cached'[c] = cached[c]
           /\ IF watch'[d] = <<>>
              THEN /\ cached'[d] = store[d]
                   /\ \A k \in Controllers :
                        Enqueued(cached', d, IF store[d].present THEN store[d] ELSE cached[d], k)
                            \subseteq queue'[k]
              ELSE watch'[d][Len(watch'[d])] = store[d]
<1>1. /\ watch[d] \in Seq(PVC) /\ watch[d] # <<>>
      /\ watch'[d] = Tail(watch[d]) /\ cached'[d] = Head(watch[d])
      /\ \A c \in Claims \ {d} : watch'[c] = watch[c] /\ cached'[c] = cached[c]
    BY DEF Deliver, Typed, TypeOK
<1>2. /\ Head(watch[d]) = watch[d][1] /\ Len(watch[d]) \in Nat /\ Len(watch[d]) >= 1
      /\ watch'[d] \in Seq(PVC) /\ Len(watch'[d]) = Len(watch[d]) - 1
      /\ \A i \in 1..Len(watch'[d]) : watch'[d][i] = watch[d][i + 1]
    BY <1>1, HeadTailProperties
<1>3. watch[d][Len(watch[d])] = store[d]
    BY <1>1 DEF WatchFollows
<1>4. watch'[d] = <<>> <=> Len(watch'[d]) = 0
    BY <1>2, EmptySeq
<1>5. CASE watch'[d] = <<>>
    <2>1. Head(watch[d]) = store[d]
        BY <1>2, <1>3, <1>4, <1>5
    <2> QED
        BY <1>1, <1>5, <2>1 DEF Deliver
<1>6. CASE watch'[d] # <<>>
    <2>1. Len(watch'[d]) \in 1..Len(watch'[d]) /\ Len(watch'[d]) + 1 = Len(watch[d])
        BY <1>2, <1>4, <1>6
    <2>2. watch'[d][Len(watch'[d])] = store[d]
        BY <1>2, <1>3, <2>1
    <2> QED
        BY <1>1, <1>6, <2>2 DEF Deliver
<1> QED
    BY <1>5, <1>6

LEMMA WatchFollowsInductive ==
    ASSUME Typed, WatchFollows, [Next]_vars
    PROVE  WatchFollows'
<1>1. CASE UNCHANGED <<store, watch, cached>>
    BY <1>1 DEF WatchFollows
<1>2. ASSUME UNCHANGED cached, NEW d \in Claims, NEW pvc \in PVC, Commit(d, pvc)
      PROVE  WatchFollows'
    BY <1>2, CommitIsLast DEF WatchFollows
<1>3. ASSUME NEW d \in Claims, Deliver(d) PROVE WatchFollows'
    BY <1>3, LastDelivered DEF WatchFollows
<1>4. CASE Restart
    BY <1>4 DEF Restart, WatchFollows
<1> QED
    BY <1>1, <1>2, <1>3, <1>4, WatchMoves

\* How a sync of the proxy controller ends: it is not over, or it is queued again,
\* or the read of the cache told it that there is nothing to do.
LEMMA ProxyStepOutcome ==
    ASSUME Typed, NEW p \in Claims, ProxyStep(p)
    PROVE  LET w == proxyWorker[p]
           IN  /\ \/ p \in queue'["proxy"]
                  \/ /\ proxyWorker'[p].pc # "idle"
                     /\ IF w.pc = "idle" THEN proxyWorker'[p].proxy = cached[p]
                                         ELSE proxyWorker'[p].proxy = w.proxy
                  \/ /\ w.pc = "idle" /\ proxyWorker'[p].pc = "idle"
                     /\ \/ ~cached[p].present \/ cached[p].deleting
                        \/ cached[p].backendRef # None /\ cached[p].bindCompleted
                  \/ /\ w.pc = "lookup" /\ proxyWorker'[p].pc = "idle"
                     /\ ~cached[w.proxy.backendRef].present
                  \/ proxyWorker'[p].pc = "idle" /\ \E pvc \in PVC : Commit(p, pvc)
               /\ w.pc # "idle" /\ p \in queue["proxy"] => p \in queue'["proxy"]
<1> DEFINE w == proxyWorker[p]
<1>0. /\ queue \in [Controllers -> SUBSET Claims] /\ "proxy" \in Controllers
      /\ proxyWorker \in [Claims -> ProxyWorker] /\ w \in ProxyWorker /\ w.proxy \in PVC
      /\ \A state : ProxyGoto(p, state) => proxyWorker'[p] = state
      /\ Requeue("proxy", p) => p \in queue'["proxy"]
      /\ Requeue("proxy", p) => queue["proxy"] \subseteq queue'["proxy"]
      /\ IdleProxyWorker.pc = "idle"
    BY DEF Typed, TypeOK, Controllers, ProxyWorker, ProxyGoto, Requeue, IdleProxyWorker
<1>1. CASE ProxySync(p)
    BY <1>0, <1>1 DEF ProxySync, IdleProxyWorker
<1>2. CASE syncUnbound(p)
    <2> DEFINE read == cached[w.proxy.backendRef]
    <2>2. w.pc = "lookup"
        BY <1>2 DEF syncUnbound
    <2>3. \/ ~read.present /\ ProxyGoto(p, IdleProxyWorker) /\ UNCHANGED queue
          \/ /\ UNCHANGED queue
             /\ \E pc \in {"claim", "complete"} : ProxyGoto(p, [w EXCEPT !.pc = pc, !.backend = read])
          \/ ProxyGoto(p, IdleProxyWorker) /\ Requeue("proxy", p)
        BY <1>2 DEF syncUnbound
    <2>4. CASE ~read.present /\ ProxyGoto(p, IdleProxyWorker) /\ UNCHANGED queue
        BY <1>0, <2>2, <2>4
    <2>5. ASSUME UNCHANGED queue, NEW pc \in {"claim", "complete"},
                 ProxyGoto(p, [w EXCEPT !.pc = pc, !.backend = read])
          PROVE  /\ proxyWorker'[p].pc # "idle" /\ proxyWorker'[p].proxy = w.proxy
                 /\ queue'["proxy"] = queue["proxy"]
        <3>1. proxyWorker'[p] = [w EXCEPT !.pc = pc, !.backend = read]
            BY <1>0, <2>5 DEF ProxyGoto
        <3> QED
            BY <1>0, <2>5, <3>1 DEF ProxyWorker
    <2>6. CASE ProxyGoto(p, IdleProxyWorker) /\ Requeue("proxy", p)
        BY <1>0, <2>6
    <2> QED
        BY <2>2, <2>3, <2>4, <2>5, <2>6
<1>3. CASE bindBackendPVCToProxyPVC(p)
    <2>1. [w EXCEPT !.pc = "complete"].pc = "complete" /\ [w EXCEPT !.pc = "complete"].proxy = w.proxy
        BY <1>0 DEF ProxyWorker
    <2> QED
        BY <1>0, <1>3, <2>1 DEF bindBackendPVCToProxyPVC, Write
<1>4. CASE completeProxyPVCBind(p)
    <2>1. [w.proxy EXCEPT !.bindCompleted = TRUE] \in PVC
        BY <1>0, PVCUpdates
    <2> QED
        BY <1>0, <1>4, <2>1 DEF completeProxyPVCBind, Write
<1> QED
    BY <1>1, <1>2, <1>3, <1>4 DEF ProxyStep

\* A sync that nobody will repeat has read the proxy as it is, and goes on until
\* the proxy is bound, or its backend is not there.
LEMMA ProxyWakeups ==
    ASSUME Typed, WakeupInvariant, [Next]_vars
    PROVE  ProxySyncsCurrent' /\ WaitingProxyIsQueued'
<1> USE DEF WakeupInvariant
<1>0. "proxy" \in Controllers /\ WatchFollows'
    BY WatchFollowsInductive DEF Controllers
<1>1. CASE Restart
    <2>1. \A c \in Claims : proxyWorker'[c].pc = "idle" /\ UNCHANGED store
        BY <1>1 DEF Restart, IdleProxyWorker
    <2>2. ASSUME NEW p \in Claims, store[p].present, store[p].backendRef # None
          PROVE  p \in queue'["proxy"]
        <3>1. p \in Enqueued(store, p, store[p], "proxy")
            BY <2>2 DEF Enqueued, enqueueProxyPVCDirectlyOrThroughAnnotation
        <3> QED
            BY <1>0, <1>1, <2>2, <3>1 DEF Restart
    <2> QED
        BY <2>1, <2>2 DEF ProxySyncsCurrent, WaitingProxyIsQueued, Waiting
<1>2. ASSUME NEW d \in Claims, Deliver(d) PROVE ProxySyncsCurrent' /\ WaitingProxyIsQueued'
    <2>0. /\ UNCHANGED <<store, proxyWorker>>
          /\ queue["proxy"] \subseteq queue'["proxy"]
          /\ \A c \in Claims \ {d} : watch'[c] = watch[c]
        BY <1>0, <1>2, LastDelivered DEF workerVars
    <2>1. ASSUME NEW p \in Claims, store[p].present, store[p].backendRef # None,
                 p = d, watch'[p] = <<>>
          PROVE  p \in queue'["proxy"]
        <3>1. Enqueued(cached', p, store[p], "proxy") \subseteq queue'["proxy"]
            BY <1>0, <1>2, <2>1, LastDelivered
        <3> QED
            BY <2>1, <3>1 DEF Enqueued, enqueueProxyPVCDirectlyOrThroughAnnotation
    <2>2. ASSUME NEW p \in Claims, Waiting(p), store[p].backendRef = d,
                 watch'[p] = <<>>, watch'[d] = <<>>
          PROVE  p \in queue'["proxy"]
        <3>1. Enqueued(cached', d, store[d], "proxy") \subseteq queue'["proxy"]
            BY <1>0, <1>2, <2>2, LastDelivered DEF Waiting
        <3>2. cached'[p] = store[p]
            BY <1>0, <2>0, <2>2 DEF WatchFollows
        <3> QED
            BY <2>2, <3>1, <3>2 DEF Waiting, Enqueued, enqueueProxyPVCDirectlyOrThroughAnnotation
    <2>3. ProxySyncsCurrent'
        BY <2>0, <2>1 DEF ProxySyncsCurrent
    <2>4. ASSUME NEW p \in Claims, Waiting(p), watch'[p] = <<>>, watch'[store[p].backendRef] = <<>>
          PROVE  p \in queue'["proxy"] \/ proxyWorker[p].pc # "idle"
        <3>1. store[p].backendRef \in Claims
            BY <2>4 DEF Waiting, Typed, TypeOK, PVC
        <3>2. CASE p = d
            BY <2>1, <2>4, <3>2 DEF Waiting
        <3>3. CASE store[p].backendRef = d
            BY <2>2, <2>4, <3>3
        <3>4. CASE p # d /\ store[p].backendRef # d
            BY <2>0, <2>4, <3>1, <3>4 DEF WaitingProxyIsQueued
        <3> QED
            BY <3>2, <3>3, <3>4
    <2> QED
        BY <2>0, <2>3, <2>4 DEF WaitingProxyIsQueued, Waiting
<1>3. ASSUME UNCHANGED cached, ~Restart,
             UNCHANGED <<store, watch>> \/ \E d \in Claims, pvc \in PVC : Commit(d, pvc)
      PROVE  ProxySyncsCurrent' /\ WaitingProxyIsQueued'
    <2>0. \A c \in Claims : watch'[c] = <<>> => store'[c] = store[c] /\ watch[c] = <<>>
        BY <1>3, CommitIsLast
    <2>1. ASSUME NEW p \in Claims, store'[p].present, store'[p].backendRef # None, watch'[p] = <<>>,
                 p \notin queue'["proxy"]
          PROVE  /\ proxyWorker'[p].pc # "idle"
                        => proxyWorker'[p].proxy.backendRef = store'[p].backendRef
                 /\ Waiting(p)' /\ watch'[store'[p].backendRef] = <<>> => proxyWorker'[p].pc # "idle"
        <3>0. store'[p] = store[p] /\ watch[p] = <<>> /\ cached[p] = store[p]
            BY <2>0, <2>1 DEF WatchFollows
        <3>1. CASE proxyWorker'[p] = proxyWorker[p] /\ (p \in queue["proxy"] => p \in queue'["proxy"])
            <4>1. proxyWorker'[p].pc # "idle" => proxyWorker'[p].proxy.backendRef = store'[p].backendRef
                BY <2>1, <3>0, <3>1 DEF ProxySyncsCurrent
            <4>2. ASSUME Waiting(p)', watch'[store'[p].backendRef] = <<>>
                  PROVE  proxyWorker'[p].pc # "idle"
                <5>1. store[p].backendRef \in Claims
                    BY <2>1, <3>0 DEF Typed, TypeOK, PVC
                <5>2. Waiting(p) /\ watch[store[p].backendRef] = <<>>
                    BY <2>0, <3>0, <4>2, <5>1 DEF Waiting
                <5> QED
                    BY <2>1, <3>0, <3>1, <5>2 DEF WaitingProxyIsQueued
            <4> QED
                BY <4>1, <4>2
        <3>2. CASE ProxyStep(p)
            <4> DEFINE w == proxyWorker[p]
            <4>1. w.pc # "idle" => w.proxy.backendRef = store[p].backendRef
                BY <2>1, <3>0, <3>2, ProxyStepOutcome DEF ProxySyncsCurrent
            <4>2. ~\E pvc \in PVC : Commit(p, pvc)
                BY <2>1, CommitIsLast
            <4>3. proxyWorker'[p].pc # "idle" => proxyWorker'[p].proxy.backendRef = store'[p].backendRef
                BY <2>1, <3>0, <3>2, <4>1, <4>2, ProxyStepOutcome
            <4>4. ASSUME Waiting(p)', watch'[store'[p].backendRef] = <<>>
                  PROVE  proxyWorker'[p].pc # "idle"
                <5>1. store[p].backendRef \in Claims
                    BY <2>1, <3>0 DEF Typed, TypeOK, PVC
                <5>2. Waiting(p) /\ cached[store[p].backendRef].present
                    BY <2>0, <3>0, <4>4, <5>1 DEF Waiting, WatchFollows
                <5> QED
                    BY <2>1, <3>0, <3>2, <4>1, <4>2, <5>2, ProxyStepOutcome DEF Waiting
            <4> QED
                BY <4>3, <4>4
        <3> QED
            BY <1>3, <3>1, <3>2, KeysWait DEF KeyWaits
    <2> QED
        BY <2>1 DEF ProxySyncsCurrent, WaitingProxyIsQueued, Waiting
<1> QED
    BY <1>1, <1>2, <1>3, WatchMoves

\* A sync of the protection controller that looks at an unsettled backend goes on
\* to write to it, and a write ends with an event or with the key queued again.
LEMMA ProtectionWakeups ==
    ASSUME Typed, WakeupInvariant, [Next]_vars
    PROVE  UnsettledBackendIsQueued'
<1> USE DEF WakeupInvariant
<1>0. "protection" \in Controllers /\ queue \in [Controllers -> SUBSET Claims]
    BY DEF Controllers, Typed, TypeOK
<1>1. CASE Restart
    <2> SUFFICES ASSUME NEW b \in Claims, Unsettled(b)' PROVE b \in queue'["protection"]
        BY DEF UnsettledBackendIsQueued
    <2>1. UNCHANGED store /\ Unsettled(b)
        BY <1>1 DEF Restart, Unsettled
    <2>2. b \in Enqueued(store, b, store[b], "protection")
        BY <2>1 DEF Unsettled, Enqueued, enqueueBackingPVCDirectlyOrThroughAnnotation
    <2> QED
        BY <1>0, <1>1, <2>1, <2>2 DEF Restart, Unsettled
<1>2. ASSUME NEW d \in Claims, Deliver(d) PROVE UnsettledBackendIsQueued'
    <2> SUFFICES ASSUME NEW b \in Claims, Unsettled(b)', watch'[b] = <<>>
                 PROVE  b \in queue'["protection"] \/ protectionWorker'[b].pc # "idle"
        BY DEF UnsettledBackendIsQueued
    <2>1. /\ UNCHANGED <<store, protectionWorker>> /\ queue["protection"] \subseteq queue'["protection"]
          /\ b # d => watch'[b] = watch[b]
        BY <1>0, <1>2, LastDelivered DEF workerVars
    <2>2. Unsettled(b)
        BY <2>1 DEF Unsettled
    <2>3. CASE b = d
        <3>1. Enqueued(cached', b, store[b], "protection") \subseteq queue'["protection"]
            BY <1>0, <1>2, <2>2, <2>3, LastDelivered DEF Unsettled
        <3> QED
            BY <2>2, <3>1 DEF Unsettled, Enqueued, enqueueBackingPVCDirectlyOrThroughAnnotation
    <2>4. CASE b # d
        BY <2>1, <2>2, <2>4 DEF UnsettledBackendIsQueued
    <2> QED
        BY <2>3, <2>4
<1>3. ASSUME UNCHANGED cached, ~Restart,
             UNCHANGED <<store, watch>> \/ \E d \in Claims, pvc \in PVC : Commit(d, pvc)
      PROVE  UnsettledBackendIsQueued'
    <2> SUFFICES ASSUME NEW b \in Claims, Unsettled(b)', watch'[b] = <<>>
                 PROVE  b \in queue'["protection"] \/ protectionWorker'[b].pc # "idle"
        BY DEF UnsettledBackendIsQueued
    <2>1. store'[b] = store[b] /\ watch[b] = <<>> /\ cached[b] = store[b]
        BY <1>3, CommitIsLast DEF WatchFollows
    <2>2. Unsettled(b)
        BY <2>1 DEF Unsettled
    <2>3. CASE ProtectionSync(b)
        <3>1. MustAddFinalizer(cached[b]) \/ MustRemoveFinalizer(cached[b])
            BY <2>1, <2>2 DEF Unsettled, MustAddFinalizer, MustRemoveFinalizer
        <3>2. \E pc \in {"add", "remove"} :
                ProtectionGoto(b, [IdleWorker EXCEPT !.pc = pc, !.backend = cached[b]])
            BY <2>3, <3>1 DEF ProtectionSync
        <3>3. \E pc \in {"add", "remove"} :
                protectionWorker'[b] = [IdleWorker EXCEPT !.pc = pc, !.backend = cached[b]]
            BY <3>2 DEF ProtectionGoto, Typed, TypeOK
        <3> QED
            BY <3>3 DEF IdleWorker
    <2>4. ASSUME NEW pc, NEW value \in BOOLEAN, PatchFinalizer(b, pc, value)
          PROVE  b \in queue'["protection"]
        <3>1. [protectionWorker[b].backend EXCEPT !.finalizer = value] \in PVC
            BY PVCUpdates DEF Typed, TypeOK, ProtectionWorker
        <3>2. ~\E pvc \in PVC : Commit(b, pvc)
            BY CommitIsLast
        <3>3. Requeue("protection", b) \/ \E pvc \in PVC : Commit(b, pvc)
            BY <2>4, <3>1 DEF PatchFinalizer, Write
        <3> QED
            BY <1>0, <3>2, <3>3 DEF Requeue
    <2>5. CASE ProtectionStep(b)
        BY <2>3, <2>4, <2>5 DEF ProtectionStep, addFinalizer, removeFinalizer
    <2>6. CASE ~ProtectionStep(b)
        BY <1>3, <2>1, <2>2, <2>6, KeysWait DEF KeyWaits, UnsettledBackendIsQueued
    <2> QED
        BY <2>5, <2>6
<1> QED
    BY <1>1, <1>2, <1>3, WatchMoves

LEMMA WakeupsAlways == Spec => []WakeupInvariant
<1>1. Init => WakeupInvariant
    BY DEF Init, Absent, WakeupInvariant, WatchFollows, ProxySyncsCurrent, WaitingProxyIsQueued,
       Waiting, UnsettledBackendIsQueued, Unsettled
<1>2. Typed /\ WakeupInvariant /\ [Next]_vars => WakeupInvariant'
    BY WatchFollowsInductive, ProxyWakeups, ProtectionWakeups DEF WakeupInvariant
<1> QED
    BY <1>1, <1>2, TypedAlways, PTL DEF Spec

\* No wake-up of the proxy controller is lost, whatever the events, conflicts,
\* failures and restarts, and although names are used again: a proxy that is not
\* bound while its backend exists is queued, being synced, or about to be.
THEOREM WaitingProxyAlwaysQueued == Spec => []WaitingProxyIsQueued
<1>1. WakeupInvariant => WaitingProxyIsQueued
    BY DEF WakeupInvariant
<1> QED
    BY <1>1, WakeupsAlways, PTL

\* No wake-up of the protection controller is lost: a backend whose finalizer is
\* not as it should be is queued, being patched, or about to be.
THEOREM UnsettledBackendAlwaysQueued == Spec => []UnsettledBackendIsQueued
<1>1. WakeupInvariant => UnsettledBackendIsQueued
    BY DEF WakeupInvariant
<1> QED
    BY <1>1, WakeupsAlways, PTL
=============================================================================
