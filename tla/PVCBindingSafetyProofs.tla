----------------------- MODULE PVCBindingSafetyProofs -----------------------
(***************************************************************************)
(* The safety properties of PVCBinding.  A step changes at most one object *)
(* of the API server, in one of the six ways below (Effects); what the     *)
(* controllers know of the objects is only ever what the API server held   *)
(* (SeenGrows).  Everything else follows from these two.                   *)
(***************************************************************************)
EXTENDS PVCBindingProofs

Creates(c) ==
    /\ ~store[c].present
    /\ store[c].rv = 0 \/ c \in Reusable
    /\ \E ref \in Claims \cup {None} : <<c, ref>> \in Requests /\ Commit(c, NewPVC(ref))

Expunges(c) ==
    /\ store[c].deleting /\ ~store[c].finalizer
    /\ Commit(c, Absent(0))

Touches(c) ==
    /\ store[c].present
    /\ \E deleting, finalizer \in BOOLEAN :
        /\ Commit(c, [store[c] EXCEPT !.deleting = deleting, !.finalizer = finalizer])
        /\ store[c].finalizer /\ ~finalizer => store[c].deleting /\ store[c].proxyRef = None

ClaimsBackend(c, b) ==
    /\ proxyWorker[c].pc = "claim"
    /\ proxyWorker[c].proxy.backendRef = b
    /\ store[b].present /\ store[b].proxyRef = None
    /\ Commit(b, [store[b] EXCEPT !.proxyRef = c])

CompletesBinding(c) ==
    /\ proxyWorker[c].pc = "complete"
    /\ proxyWorker[c].proxy = store[c]
    /\ store[c].present
    /\ Commit(c, [store[c] EXCEPT !.bindCompleted = TRUE])

ReleasesBackend(c) ==
    /\ backendWorker[c].pc = "release"
    /\ backendWorker[c].backend = store[c]
    /\ store[c].present
    /\ Commit(c, [store[c] EXCEPT !.proxyRef = None])

Changes(c) ==
    \/ Creates(c)
    \/ Expunges(c)
    \/ Touches(c)
    \/ \E p \in Claims : ClaimsBackend(p, c)
    \/ CompletesBinding(c)
    \/ ReleasesBackend(c)

-----------------------------------------------------------------------------
\* Whatever anyone has seen of a claim is a claim.
LEMMA SeenTypes ==
    ASSUME TypeOK, NEW c \in Claims
    PROVE  /\ Seen(c) \subseteq PVC
           /\ store[c] \in PVC /\ store[c] \in Seen(c)
<1>1. Absent(0) \in PVC /\ store[c] \in PVC /\ cached[c] \in PVC
    BY PVCTypes DEF TypeOK
<1>2. /\ \A d \in Claims : proxyWorker[d].proxy \in PVC /\ proxyWorker[d].backend \in PVC
      /\ backendWorker[c].backend \in PVC
      /\ protectionWorker[c].backend \in PVC
    BY DEF TypeOK, ProxyWorker, BackendWorker, ProtectionWorker
<1>3. Pending(c) \subseteq PVC
    <2>1. watch[c] \in Seq(PVC)
        BY DEF TypeOK
    <2>2. \A i \in 1..Len(watch[c]) : watch[c][i] \in PVC
        BY <2>1, ElementOfSeq
    <2> QED
        BY <2>2 DEF Pending
<1> QED
    BY <1>1, <1>2, <1>3 DEF Seen

\* A copy at the version the API server holds is the object the server holds, so
\* a write the server accepts was prepared from the current object.
LEMMA AcceptedIsCurrent ==
    ASSUME VersionsAgree, NEW c \in Claims, NEW read \in Seen(c), Accepted(c, read)
    PROVE  read = store[c] /\ store[c].present
BY DEF VersionsAgree, Accepted

\* Committing an object adds nothing but that object to what is pending.
LEMMA CommitPending ==
    ASSUME TypeOK, NEW d \in Claims, NEW pvc \in PVC, Commit(d, pvc), NEW c \in Claims
    PROVE  Pending(c)' \subseteq Pending(c) \cup {store'[c]}
<1> DEFINE new == [pvc EXCEPT !.rv = store[d].rv + 1]
<1>1. /\ watch' = [watch EXCEPT ![d] = Append(@, new)]
      /\ store' = [store EXCEPT ![d] = new]
    BY DEF Commit
<1>2. /\ watch \in [Claims -> Seq(PVC)]
      /\ store \in [Claims -> PVC]
    BY DEF TypeOK
<1>3. new \in PVC
    <2>1. store[d].rv + 1 \in Nat
        BY <1>2 DEF PVC
    <2> QED
        BY <2>1, PVCUpdates
<1>4. CASE c # d
    BY <1>1, <1>2, <1>4 DEF Pending
<1>5. CASE c = d
    <2>1. watch'[c] = Append(watch[c], new) /\ store'[c] = new
        BY <1>1, <1>2, <1>5
    <2>2. watch[c] \in Seq(PVC)
        BY <1>2
    <2>3. SUFFICES ASSUME NEW i \in 1..Len(watch'[c])
                   PROVE  watch'[c][i] \in Pending(c) \cup {store'[c]}
        BY DEF Pending
    <2>4. /\ Len(watch'[c]) = Len(watch[c]) + 1
          /\ \A j \in 1..Len(watch[c]) : watch'[c][j] = watch[c][j]
          /\ watch'[c][Len(watch[c]) + 1] = new
        BY <2>1, <2>2, <1>3, AppendProperties
    <2>5. CASE i \in 1..Len(watch[c])
        BY <2>4, <2>5 DEF Pending
    <2>6. CASE i = Len(watch[c]) + 1
        BY <2>1, <2>4, <2>6
    <2>7. Len(watch[c]) \in Nat
        BY <2>2
    <2> QED
        BY <2>3, <2>4, <2>5, <2>6, <2>7
<1> QED
    BY <1>4, <1>5

\* Every step of the specification changes nothing the API server holds, or one
\* object in one of the six ways.
LEMMA Effects ==
    ASSUME TypeOK, CopiesAgree, [Next]_vars
    PROVE  UNCHANGED store \/ \E c \in Claims : Changes(c)
<1> USE DEF CopiesAgree, apiVars
<1>0. /\ \A c \in Claims : store[c] \in PVC
      /\ \A c \in Claims : proxyWorker[c] \in ProxyWorker
      /\ \A c \in Claims : backendWorker[c] \in BackendWorker
      /\ \A c \in Claims : protectionWorker[c] \in ProtectionWorker
    BY DEF TypeOK
<1>1. ASSUME NEW c \in Claims, EnvironmentStep(c) PROVE Changes(c)
    <2>1. CASE \E ref \in Claims \cup {None} : CreateClaim(c, ref)
        BY <2>1 DEF CreateClaim, Changes, Creates
    <2>2. CASE DeleteClaim(c)
        <3>1. [store[c] EXCEPT !.deleting = TRUE]
                = [store[c] EXCEPT !.deleting = TRUE, !.finalizer = store[c].finalizer]
            BY <1>0 DEF PVC
        <3>2. store[c].finalizer \in BOOLEAN
            BY <1>0 DEF PVC
        <3> QED
            BY <2>2, <3>1, <3>2 DEF DeleteClaim, Changes, Touches
    <2>3. CASE Expunge(c)
        BY <2>3 DEF Expunge, Changes, Expunges
    <2>4. CASE EditClaim(c)
        <3>1. store[c] = [store[c] EXCEPT !.deleting = store[c].deleting, !.finalizer = store[c].finalizer]
            BY <1>0 DEF PVC
        <3>2. store[c].finalizer \in BOOLEAN /\ store[c].deleting \in BOOLEAN
            BY <1>0 DEF PVC
        <3> QED
            BY <2>4, <3>1, <3>2 DEF EditClaim, Changes, Touches
    <2> QED
        BY <1>1, <2>1, <2>2, <2>3, <2>4 DEF EnvironmentStep
<1>2. ASSUME NEW c \in Claims, ProxyStep(c)
      PROVE  UNCHANGED store \/ \E d \in Claims : Changes(d)
    <2> DEFINE w == proxyWorker[c]
    <2>1. CASE ProxySync(c) \/ syncUnbound(c)
        BY <2>1 DEF ProxySync, syncUnbound
    <2>2. CASE bindBackendPVCToProxyPVC(c)
        <3> DEFINE b == w.proxy.backendRef
        <3>1. w.pc = "claim" /\ b \in Claims /\ w.backend.proxyRef = None
            BY <2>2, <1>0, PVCUpdates DEF bindBackendPVCToProxyPVC, ProxyWorkersAgree, ProxyWorker
        <3>2. CASE Accepted(b, w.backend) /\ Commit(b, [w.backend EXCEPT !.proxyRef = c])
            <4>1. w.backend \in Seen(b)
                BY DEF Seen
            <4>2. w.backend = store[b] /\ store[b].present
                BY <3>1, <3>2, <4>1, AcceptedIsCurrent
            <4>3. ClaimsBackend(c, b)
                BY <3>1, <3>2, <4>2 DEF ClaimsBackend
            <4> QED
                BY <4>3, <3>1 DEF Changes
        <3> QED
            BY <2>2, <3>2 DEF bindBackendPVCToProxyPVC, Write
    <2>3. CASE completeProxyPVCBind(c)
        <3>1. CASE Accepted(c, w.proxy) /\ Commit(c, [w.proxy EXCEPT !.bindCompleted = TRUE])
            <4>1. w.proxy \in Seen(c)
                BY DEF Seen
            <4>2. w.proxy = store[c] /\ store[c].present
                BY <3>1, <4>1, AcceptedIsCurrent
            <4>3. CompletesBinding(c)
                BY <2>3, <3>1, <4>2 DEF CompletesBinding, completeProxyPVCBind
            <4> QED
                BY <4>3 DEF Changes
        <3> QED
            BY <2>3, <3>1 DEF completeProxyPVCBind, Write
    <2> QED
        BY <1>2, <2>1, <2>2, <2>3 DEF ProxyStep
<1>3. ASSUME NEW c \in Claims, BackendStep(c)
      PROVE  UNCHANGED store \/ Changes(c)
    <2> DEFINE w == backendWorker[c]
    <2>1. CASE BackendSync(c) \/ BackendGetProxy(c)
        BY <2>1 DEF BackendSync, BackendGetProxy
    <2>2. CASE releaseBackendPVC(c)
        <3>1. CASE Accepted(c, w.backend) /\ Commit(c, [w.backend EXCEPT !.proxyRef = None])
            <4>1. w.backend \in Seen(c)
                BY DEF Seen
            <4>2. w.backend = store[c] /\ store[c].present
                BY <3>1, <4>1, AcceptedIsCurrent
            <4>3. ReleasesBackend(c)
                BY <2>2, <3>1, <4>2 DEF ReleasesBackend, releaseBackendPVC
            <4> QED
                BY <4>3 DEF Changes
        <3> QED
            BY <2>2, <3>1 DEF releaseBackendPVC, Write
    <2> QED
        BY <1>3, <2>1, <2>2 DEF BackendStep
<1>4. ASSUME NEW c \in Claims, ProtectionStep(c)
      PROVE  UNCHANGED store \/ Changes(c)
    <2> DEFINE w == protectionWorker[c]
    <2>1. CASE ProtectionSync(c)
        BY <2>1 DEF ProtectionSync
    <2>2. ASSUME NEW value \in BOOLEAN,
                 \/ value = TRUE /\ PatchFinalizer(c, "add", value)
                 \/ value = FALSE /\ PatchFinalizer(c, "remove", value)
          PROVE  UNCHANGED store \/ Changes(c)
        <3>1. CASE Accepted(c, w.backend) /\ Commit(c, [w.backend EXCEPT !.finalizer = value])
            <4>1. w.backend \in Seen(c)
                BY DEF Seen
            <4>2. w.backend = store[c] /\ store[c].present
                BY <3>1, <4>1, AcceptedIsCurrent
            <4>3. store[c].finalizer /\ ~value => store[c].deleting /\ store[c].proxyRef = None
                BY <2>2, <4>2 DEF PatchFinalizer, ProtectionWorkersAgree, MustRemoveFinalizer
            <4>4. store[c].deleting \in BOOLEAN /\ [store[c] EXCEPT !.finalizer = value]
                    = [store[c] EXCEPT !.deleting = store[c].deleting, !.finalizer = value]
                BY <1>0 DEF PVC
            <4>5. Commit(c, [store[c] EXCEPT !.deleting = store[c].deleting, !.finalizer = value])
                BY <3>1, <4>2, <4>4
            <4>6. Touches(c)
                BY <4>2, <4>3, <4>4, <4>5 DEF Touches
            <4> QED
                BY <4>6 DEF Changes
        <3> QED
            BY <2>2, <3>1 DEF PatchFinalizer, Write
    <2> QED
        BY <1>4, <2>1, <2>2 DEF ProtectionStep, addFinalizer, removeFinalizer
<1>5. CASE (\E c \in Claims : Deliver(c)) \/ Resync \/ Restart \/ UNCHANGED vars
    BY <1>5 DEF Deliver, Resync, Restart, vars, apiVars
<1> QED
    BY <1>1, <1>2, <1>3, <1>4, <1>5 DEF Next
-----------------------------------------------------------------------------
\* How a sync of the proxy controller moves on.
ProxyWorkerMoves(c) ==
    LET w == proxyWorker[c]
        read == cached[w.proxy.backendRef]
    IN  \/ proxyWorker'[c] = w
        \/ proxyWorker'[c] = IdleProxyWorker
        \/ /\ cached[c].present /\ cached[c].backendRef # None
           /\ proxyWorker'[c] = [IdleProxyWorker EXCEPT !.pc = "lookup", !.proxy = cached[c]]
        \/ /\ w.pc = "lookup" /\ read.present /\ read.proxyRef = None
           /\ UNCHANGED store
           /\ proxyWorker'[c] = [w EXCEPT !.pc = "claim", !.backend = read]
        \/ /\ w.pc = "lookup" /\ read.present /\ read.proxyRef = c
           /\ UNCHANGED store
           /\ proxyWorker'[c] = [w EXCEPT !.pc = "complete", !.backend = read]
        \/ /\ ClaimsBackend(c, w.proxy.backendRef)
           /\ proxyWorker'[c] = [w EXCEPT !.pc = "complete"]

BackendWorkerMoves(c) ==
    LET w == backendWorker[c]
    IN  \/ backendWorker'[c] = w
        \/ backendWorker'[c] = IdleWorker
        \/ /\ cached[c].proxyRef # None
           /\ backendWorker'[c] = [IdleWorker EXCEPT !.pc = "get", !.backend = cached[c]]
        \/ /\ w.pc = "get" /\ ~store[w.backend.proxyRef].present
           /\ UNCHANGED store
           /\ backendWorker'[c] = [w EXCEPT !.pc = "release"]

ProtectionWorkerMoves(c) ==
    \/ protectionWorker'[c] = protectionWorker[c]
    \/ protectionWorker'[c] = IdleWorker
    \/ /\ MustAddFinalizer(cached[c])
       /\ protectionWorker'[c] = [IdleWorker EXCEPT !.pc = "add", !.backend = cached[c]]
    \/ /\ MustRemoveFinalizer(cached[c])
       /\ protectionWorker'[c] = [IdleWorker EXCEPT !.pc = "remove", !.backend = cached[c]]

\* Every step moves every sync on in one of these ways.
LEMMA WorkersMove ==
    ASSUME TypeOK, CopiesAgree, [Next]_vars, NEW c \in Claims
    PROVE  ProxyWorkerMoves(c) /\ BackendWorkerMoves(c) /\ ProtectionWorkerMoves(c)
<1>0. /\ proxyWorker \in [Claims -> ProxyWorker]
      /\ backendWorker \in [Claims -> BackendWorker]
      /\ protectionWorker \in [Claims -> ProtectionWorker]
    BY DEF TypeOK
<1>1. CASE UNCHANGED workerVars
    BY <1>1 DEF workerVars, ProxyWorkerMoves, BackendWorkerMoves, ProtectionWorkerMoves
<1>2. ASSUME NEW d \in Claims, ProxyStep(d)
      PROVE  ProxyWorkerMoves(c) /\ BackendWorkerMoves(c) /\ ProtectionWorkerMoves(c)
    <2>1. UNCHANGED <<backendWorker, protectionWorker>>
        BY <1>2 DEF ProxyStep, ProxySync, syncUnbound, bindBackendPVCToProxyPVC, completeProxyPVCBind
    <2>2. UNCHANGED proxyWorker \/ \E state : ProxyGoto(d, state)
        BY <1>2 DEF ProxyStep, ProxySync, syncUnbound, bindBackendPVCToProxyPVC, completeProxyPVCBind,
           Write
    <2>3. CASE c # d
        BY <2>1, <2>2, <2>3, <1>0 DEF ProxyGoto, ProxyWorkerMoves, BackendWorkerMoves,
           ProtectionWorkerMoves
    <2>4. ASSUME c = d PROVE ProxyWorkerMoves(d)
        <3>0. \A state : ProxyGoto(d, state) => proxyWorker'[d] = state
            BY <1>0 DEF ProxyGoto
        <3>1. CASE ProxySync(d)
            BY <3>0, <3>1 DEF ProxySync, ProxyWorkerMoves
        <3>2. CASE syncUnbound(d)
            BY <3>0, <3>2 DEF syncUnbound, ProxyWorkerMoves, apiVars
        <3>3. CASE bindBackendPVCToProxyPVC(d)
            <4> DEFINE w == proxyWorker[d]
                       b == w.proxy.backendRef
            <4>1. CASE proxyWorker'[d] = IdleProxyWorker
                BY <4>1 DEF ProxyWorkerMoves
            <4>2. CASE /\ Accepted(b, w.backend) /\ Commit(b, [w.backend EXCEPT !.proxyRef = d])
                       /\ ProxyGoto(d, [w EXCEPT !.pc = "complete"])
                <5>1. w.pc = "claim" /\ b \in Claims /\ w.backend.proxyRef = None
                    BY <3>3, <1>0, PVCUpdates
                       DEF bindBackendPVCToProxyPVC, CopiesAgree, ProxyWorkersAgree, ProxyWorker
                <5>2. w.backend \in Seen(b)
                    BY DEF Seen
                <5>3. w.backend = store[b] /\ store[b].present
                    BY <4>2, <5>1, <5>2, AcceptedIsCurrent DEF CopiesAgree
                <5>4. ClaimsBackend(d, b)
                    BY <4>2, <5>1, <5>3 DEF ClaimsBackend
                <5> QED
                    BY <4>2, <5>4, <3>0 DEF ProxyWorkerMoves
            <4> QED
                BY <3>0, <3>3, <4>1, <4>2 DEF bindBackendPVCToProxyPVC, Write
        <3>4. CASE completeProxyPVCBind(d)
            BY <3>0, <3>4 DEF completeProxyPVCBind, Write, ProxyWorkerMoves
        <3> QED
            BY <1>2, <3>1, <3>2, <3>3, <3>4 DEF ProxyStep
    <2>5. BackendWorkerMoves(c) /\ ProtectionWorkerMoves(c)
        BY <2>1 DEF BackendWorkerMoves, ProtectionWorkerMoves
    <2>6. CASE c = d
        <3>1. ProxyWorkerMoves(d)
            BY <2>4, <2>6
        <3>2. ProxyWorkerMoves(c)
            BY <3>1, <2>6 DEF ProxyWorkerMoves, ClaimsBackend, Commit
        <3> QED
            BY <3>2, <2>5
    <2> QED
        BY <2>3, <2>6
<1>3. ASSUME NEW d \in Claims, BackendStep(d)
      PROVE  ProxyWorkerMoves(c) /\ BackendWorkerMoves(c) /\ ProtectionWorkerMoves(c)
    <2>1. UNCHANGED <<proxyWorker, protectionWorker>>
        BY <1>3 DEF BackendStep, BackendSync, BackendGetProxy, releaseBackendPVC
    <2>2. UNCHANGED backendWorker \/ \E state : BackendGoto(d, state)
        BY <1>3 DEF BackendStep, BackendSync, BackendGetProxy, releaseBackendPVC, Write
    <2>3. CASE c # d
        BY <2>1, <2>2, <2>3, <1>0 DEF BackendGoto, ProxyWorkerMoves, BackendWorkerMoves,
           ProtectionWorkerMoves
    <2>4. ASSUME c = d PROVE BackendWorkerMoves(d)
        <3>0. \A state : BackendGoto(d, state) => backendWorker'[d] = state
            BY <1>0 DEF BackendGoto
        <3> QED
            BY <1>3, <3>0 DEF BackendStep, BackendSync, BackendGetProxy, releaseBackendPVC, Write,
               BackendWorkerMoves, apiVars
    <2> QED
        BY <2>1, <2>3, <2>4 DEF ProxyWorkerMoves, BackendWorkerMoves, ProtectionWorkerMoves
<1>4. ASSUME NEW d \in Claims, ProtectionStep(d)
      PROVE  ProxyWorkerMoves(c) /\ BackendWorkerMoves(c) /\ ProtectionWorkerMoves(c)
    <2>1. UNCHANGED <<proxyWorker, backendWorker>>
        BY <1>4 DEF ProtectionStep, ProtectionSync, addFinalizer, removeFinalizer, PatchFinalizer
    <2>2. UNCHANGED protectionWorker \/ \E state : ProtectionGoto(d, state)
        BY <1>4 DEF ProtectionStep, ProtectionSync, addFinalizer, removeFinalizer, PatchFinalizer, Write
    <2>3. CASE c # d
        BY <2>1, <2>2, <2>3, <1>0 DEF ProtectionGoto, ProxyWorkerMoves, BackendWorkerMoves,
           ProtectionWorkerMoves
    <2>4. ASSUME c = d PROVE ProtectionWorkerMoves(d)
        <3>0. \A state : ProtectionGoto(d, state) => protectionWorker'[d] = state
            BY <1>0 DEF ProtectionGoto
        <3> QED
            BY <1>4, <3>0 DEF ProtectionStep, ProtectionSync, addFinalizer, removeFinalizer,
               PatchFinalizer, Write, ProtectionWorkerMoves
    <2> QED
        BY <2>1, <2>3, <2>4 DEF ProxyWorkerMoves, BackendWorkerMoves, ProtectionWorkerMoves
<1>5. CASE Restart
    BY <1>5 DEF Restart, ProxyWorkerMoves, BackendWorkerMoves, ProtectionWorkerMoves
<1>6. ASSUME NEW d \in Claims, EnvironmentStep(d) PROVE UNCHANGED workerVars
    BY <1>6 DEF EnvironmentStep, CreateClaim, DeleteClaim, Expunge, EditClaim
<1>7. CASE (\E d \in Claims : Deliver(d)) \/ Resync \/ UNCHANGED vars
    BY <1>7, <1>1 DEF Deliver, Resync, vars
<1> QED
    BY <1>1, <1>2, <1>3, <1>4, <1>5, <1>6, <1>7 DEF Next
\* The informer hands the cache only what the API server held, in order.
LEMMA InformerMoves ==
    ASSUME TypeOK, CopiesAgree, [Next]_vars, NEW c \in Claims
    PROVE  cached'[c] \in Seen(c) /\ Pending(c)' \subseteq Pending(c) \cup {store'[c]}
<1>1. ASSUME NEW d \in Claims, Deliver(d)
      PROVE  cached'[c] \in Seen(c) /\ Pending(c)' \subseteq Pending(c)
    <2>1. /\ watch \in [Claims -> Seq(PVC)] /\ watch[d] # <<>>
          /\ watch' = [watch EXCEPT ![d] = Tail(@)]
          /\ cached \in [Claims -> PVC]
          /\ cached' = [cached EXCEPT ![d] = Head(watch[d])]
        BY <1>1 DEF Deliver, TypeOK
    <2>2. CASE c # d
        BY <2>1, <2>2 DEF Seen, Pending
    <2>3. CASE c = d
        <3>1. watch[c] \in Seq(PVC) /\ watch[c] # <<>>
            BY <2>1, <2>3
        <3>2. watch'[c] = Tail(watch[c]) /\ cached'[c] = Head(watch[c])
            BY <2>1, <2>3
        <3>3. /\ Head(watch[c]) = watch[c][1] /\ Len(watch[c]) \in Nat /\ Len(watch[c]) >= 1
              /\ Len(watch'[c]) = Len(watch[c]) - 1
              /\ \A i \in 1..Len(watch'[c]) : watch'[c][i] = watch[c][i + 1]
            BY <3>1, <3>2, HeadTailProperties
        <3>4. cached'[c] \in Pending(c)
            BY <3>2, <3>3 DEF Pending
        <3>5. \A i \in 1..Len(watch'[c]) : watch'[c][i] \in Pending(c)
            BY <3>3 DEF Pending
        <3> QED
            BY <3>4, <3>5 DEF Seen, Pending
    <2> QED
        BY <2>2, <2>3
<1>2. CASE Restart
    <2>1. cached'[c] = store[c] /\ watch'[c] = <<>>
        BY <1>2 DEF Restart
    <2> QED
        BY <2>1 DEF Seen, Pending
<1>3. ASSUME UNCHANGED cached, NEW d \in Claims, NEW pvc \in PVC, Commit(d, pvc)
      PROVE  cached'[c] \in Seen(c) /\ Pending(c)' \subseteq Pending(c) \cup {store'[c]}
    BY <1>3, CommitPending DEF Seen, Pending
<1>4. Typed
    BY DEF Typed, SyncedProxyAsks, CopiesAgree, ProxyWorkersAgree
<1>5. CASE UNCHANGED <<store, watch, cached>>
    BY <1>5 DEF Seen, Pending
<1> QED
    BY <1>1, <1>2, <1>3, <1>4, <1>5, WatchMoves

\* Nothing is ever seen of a claim but what the API server holds or held.
LEMMA SeenGrows ==
    ASSUME TypeOK, CopiesAgree, [Next]_vars, NEW c \in Claims
    PROVE  Seen(c)' \subseteq Seen(c) \cup {store'[c]}
<1>1. cached'[c] \in Seen(c) /\ Pending(c)' \subseteq Seen(c) \cup {store'[c]}
    BY InformerMoves DEF Seen
<1>2. /\ \A d \in Claims : proxyWorker[d] \in ProxyWorker
      /\ backendWorker[c] \in BackendWorker
      /\ protectionWorker[c] \in ProtectionWorker
    BY DEF TypeOK
<1>3. /\ Absent(0) \in Seen(c) /\ cached[c] \in Seen(c) /\ proxyWorker[c].proxy \in Seen(c)
      /\ backendWorker[c].backend \in Seen(c) /\ protectionWorker[c].backend \in Seen(c)
      /\ \A d \in Claims : proxyWorker[d].proxy.backendRef = c => proxyWorker[d].backend \in Seen(c)
    BY DEF Seen
<1>4. proxyWorker'[c].proxy \in Seen(c)
    <2>1. ProxyWorkerMoves(c)
        BY WorkersMove
    <2>2. proxyWorker'[c].proxy \in {proxyWorker[c].proxy, Absent(0), cached[c]}
        <3> DEFINE w == proxyWorker[c]
                   read == cached[w.proxy.backendRef]
        <3>1. CASE proxyWorker'[c] \in {w, IdleProxyWorker}
            BY <3>1 DEF IdleProxyWorker
        <3>2. CASE proxyWorker'[c] = [IdleProxyWorker EXCEPT !.pc = "lookup", !.proxy = cached[c]]
            BY <3>2 DEF IdleProxyWorker
        <3>3. CASE \E pc : proxyWorker'[c] = [w EXCEPT !.pc = pc, !.backend = read]
            BY <3>3, <1>2 DEF ProxyWorker
        <3>4. CASE proxyWorker'[c] = [w EXCEPT !.pc = "complete"]
            BY <3>4, <1>2 DEF ProxyWorker
        <3> QED
            BY <2>1, <3>1, <3>2, <3>3, <3>4 DEF ProxyWorkerMoves
    <2> QED
        BY <2>2, <1>3
<1>5. ASSUME NEW d \in Claims, proxyWorker'[d].proxy.backendRef = c
      PROVE  proxyWorker'[d].backend \in Seen(c)
    <2> DEFINE w == proxyWorker[d]
    <2>1. ProxyWorkerMoves(d)
        BY WorkersMove
    <2>2. \/ proxyWorker'[d].backend = Absent(0)
          \/ /\ proxyWorker'[d].proxy = w.proxy
             /\ proxyWorker'[d].backend \in {w.backend, cached[w.proxy.backendRef]}
        <3> DEFINE read == cached[w.proxy.backendRef]
        <3>1. CASE proxyWorker'[d] \in {w, IdleProxyWorker}
            BY <3>1 DEF IdleProxyWorker
        <3>2. CASE proxyWorker'[d] = [IdleProxyWorker EXCEPT !.pc = "lookup", !.proxy = cached[d]]
            BY <3>2 DEF IdleProxyWorker
        <3>3. CASE \E pc : proxyWorker'[d] = [w EXCEPT !.pc = pc, !.backend = read]
            BY <3>3, <1>2 DEF ProxyWorker
        <3>4. CASE proxyWorker'[d] = [w EXCEPT !.pc = "complete"]
            BY <3>4, <1>2 DEF ProxyWorker
        <3> QED
            BY <2>1, <3>1, <3>2, <3>3, <3>4 DEF ProxyWorkerMoves
    <2> QED
        BY <2>2, <1>3, <1>5
<1>6. backendWorker'[c].backend \in Seen(c)
    <2>1. BackendWorkerMoves(c)
        BY WorkersMove
    <2>2. backendWorker'[c].backend \in {backendWorker[c].backend, Absent(0), cached[c]}
        <3> DEFINE w == backendWorker[c]
        <3>1. CASE backendWorker'[c] \in {w, IdleWorker}
            BY <3>1 DEF IdleWorker
        <3>2. CASE backendWorker'[c] = [IdleWorker EXCEPT !.pc = "get", !.backend = cached[c]]
            BY <3>2 DEF IdleWorker
        <3>3. CASE backendWorker'[c] = [w EXCEPT !.pc = "release"]
            BY <3>3, <1>2 DEF BackendWorker
        <3> QED
            BY <2>1, <3>1, <3>2, <3>3 DEF BackendWorkerMoves
    <2> QED
        BY <2>2, <1>3
<1>7. protectionWorker'[c].backend \in Seen(c)
    <2>1. ProtectionWorkerMoves(c)
        BY WorkersMove
    <2>2. protectionWorker'[c].backend \in {protectionWorker[c].backend, Absent(0), cached[c]}
        <3>1. CASE protectionWorker'[c] \in {protectionWorker[c], IdleWorker}
            BY <3>1 DEF IdleWorker
        <3>2. CASE \E pc : protectionWorker'[c] = [IdleWorker EXCEPT !.pc = pc, !.backend = cached[c]]
            BY <3>2 DEF IdleWorker
        <3> QED
            BY <2>1, <3>1, <3>2 DEF ProtectionWorkerMoves
    <2> QED
        BY <2>2, <1>3
<1>8. SUFFICES ASSUME NEW v \in Seen(c)' PROVE v \in Seen(c) \cup {store'[c]}
    OBVIOUS
<1> QED
    BY <1>1, <1>3, <1>4, <1>5, <1>6, <1>7, <1>8 DEF Seen
-----------------------------------------------------------------------------
\* What the six ways have in common, field by field.
LEMMA ChangedFields ==
    ASSUME TypeOK, CopiesAgree, NEW d \in Claims, Changes(d)
    PROVE  /\ \A c \in Claims \ {d} : store'[c] = store[c]
           /\ store'[d].rv = store[d].rv + 1
           /\ ~store'[d].present => store'[d] = Absent(store'[d].rv)
           /\ \/ store'[d].proxyRef \in {None, store[d].proxyRef}
              \/ ClaimsBackend(store'[d].proxyRef, d) /\ store'[d].proxyRef \in Claims
           /\ store'[d].bindCompleted =>
                /\ store'[d].backendRef = store[d].backendRef
                /\ store[d].bindCompleted \/ CompletesBinding(d)
           /\ store'[d].present => store[d].present \/ Creates(d)
           /\ store[d].present => store'[d].backendRef = store[d].backendRef \/ Expunges(d)
           /\ ~store'[d].present => Expunges(d)
           /\ store[d].finalizer /\ ~store'[d].finalizer
                => store[d].deleting /\ store[d].proxyRef = None
           /\ store'[d].present /\ store[d].proxyRef # None /\ store'[d].proxyRef = None
                => Creates(d) \/ ReleasesBackend(d)
<1>0. /\ store \in [Claims -> PVC] /\ store[d] \in PVC
      /\ ~store[d].present => ~store[d].finalizer
    <2>1. ~store[d].present => store[d] = Absent(store[d].rv)
        BY SeenTypes DEF CopiesAgree, VersionsAgree
    <2> QED
        BY <2>1 DEF TypeOK, Absent
<1>1. \A pvc : Commit(d, pvc) => /\ \A c \in Claims \ {d} : store'[c] = store[c]
                                 /\ store'[d] = [pvc EXCEPT !.rv = store[d].rv + 1]
    BY <1>0 DEF Commit
<1>2. CASE Creates(d)
    <2>1. PICK ref \in Claims \cup {None} : Commit(d, NewPVC(ref))
        BY <1>2 DEF Creates
    <2>2. store'[d] = [NewPVC(ref) EXCEPT !.rv = store[d].rv + 1]
        BY <2>1, <1>1
    <2> QED
        BY <1>0, <1>1, <1>2, <2>1, <2>2 DEF Creates, NewPVC, Absent
<1>3. CASE Expunges(d)
    <2>1. store'[d] = [Absent(0) EXCEPT !.rv = store[d].rv + 1]
        BY <1>1, <1>3 DEF Expunges
    <2> QED
        BY <1>1, <1>3, <2>1 DEF Expunges, Absent
<1>4. CASE Touches(d)
    <2>1. PICK deleting, finalizer \in BOOLEAN :
            /\ Commit(d, [store[d] EXCEPT !.deleting = deleting, !.finalizer = finalizer])
            /\ store[d].finalizer /\ ~finalizer => store[d].deleting /\ store[d].proxyRef = None
        BY <1>4 DEF Touches
    <2>2. store'[d] = [[store[d] EXCEPT !.deleting = deleting, !.finalizer = finalizer]
                        EXCEPT !.rv = store[d].rv + 1]
        BY <2>1, <1>1
    <2>3. /\ \A c \in Claims \ {d} : store'[c] = store[c]
          /\ store[d].present
        BY <1>1, <1>4, <2>1 DEF Touches
    <2>4. /\ store'[d].rv = store[d].rv + 1
          /\ store'[d].present
          /\ store'[d].finalizer = finalizer
          /\ store'[d].proxyRef = store[d].proxyRef
          /\ store'[d].backendRef = store[d].backendRef
          /\ store'[d].bindCompleted = store[d].bindCompleted
        BY <1>0, <2>2, <2>3 DEF PVC
    <2> QED
        BY <2>1, <2>3, <2>4
<1>5. ASSUME NEW p \in Claims, ClaimsBackend(p, d)
      PROVE  /\ store'[d] = [[store[d] EXCEPT !.proxyRef = p] EXCEPT !.rv = store[d].rv + 1]
             /\ \A c \in Claims \ {d} : store'[c] = store[c]
             /\ store[d].present
    BY <1>1, <1>5 DEF ClaimsBackend
<1>6. CASE \E p \in Claims : ClaimsBackend(p, d)
    <2>1. PICK p \in Claims : ClaimsBackend(p, d)
        BY <1>6
    <2>2. store'[d] = [[store[d] EXCEPT !.proxyRef = p] EXCEPT !.rv = store[d].rv + 1]
          /\ store[d].present
          /\ \A c \in Claims \ {d} : store'[c] = store[c]
        BY <2>1, <1>5
    <2>3. store'[d].proxyRef = p
        BY <1>0, <2>2 DEF PVC
    <2>4. ClaimsBackend(store'[d].proxyRef, d)
        BY <2>1, <2>3 DEF ClaimsBackend, Commit
    <2>5. /\ store'[d].rv = store[d].rv + 1
          /\ store'[d].present
          /\ store'[d].finalizer = store[d].finalizer
          /\ store'[d].backendRef = store[d].backendRef
          /\ store'[d].bindCompleted = store[d].bindCompleted
        BY <1>0, <2>2 DEF PVC
    <2> QED
        BY <2>1, <2>2, <2>3, <2>4, <2>5, NoneAssumption
<1>7. CASE CompletesBinding(d)
    <2>1. store'[d] = [[store[d] EXCEPT !.bindCompleted = TRUE] EXCEPT !.rv = store[d].rv + 1]
          /\ store[d].present
        BY <1>1, <1>7 DEF CompletesBinding
    <2>2. \A c \in Claims \ {d} : store'[c] = store[c]
        BY <1>1, <1>7 DEF CompletesBinding
    <2>3. /\ store'[d].rv = store[d].rv + 1
          /\ store'[d].present
          /\ store'[d].finalizer = store[d].finalizer
          /\ store'[d].proxyRef = store[d].proxyRef
          /\ store'[d].backendRef = store[d].backendRef
        BY <1>0, <2>1 DEF PVC
    <2> QED
        BY <1>7, <2>1, <2>2, <2>3
<1>8. CASE ReleasesBackend(d)
    <2>1. store'[d] = [[store[d] EXCEPT !.proxyRef = None] EXCEPT !.rv = store[d].rv + 1]
          /\ store[d].present
        BY <1>1, <1>8 DEF ReleasesBackend
    <2>2. \A c \in Claims \ {d} : store'[c] = store[c]
        BY <1>1, <1>8 DEF ReleasesBackend
    <2>3. /\ store'[d].rv = store[d].rv + 1
          /\ store'[d].present
          /\ store'[d].proxyRef = None
          /\ store'[d].finalizer = store[d].finalizer
          /\ store'[d].backendRef = store[d].backendRef
          /\ store'[d].bindCompleted = store[d].bindCompleted
        BY <1>0, <2>1 DEF PVC
    <2> QED
        BY <1>8, <2>1, <2>2, <2>3
<1> QED
    BY <1>2, <1>3, <1>4, <1>6, <1>7, <1>8 DEF Changes

\* The version of a claim never goes down and goes up with every change.
LEMMA VersionsGrow ==
    ASSUME TypeOK, CopiesAgree, [Next]_vars, NEW c \in Claims
    PROVE  /\ store[c].rv \in Nat /\ store'[c].rv \in Nat
           /\ store'[c] = store[c] \/ store'[c].rv = store[c].rv + 1
<1>1. store[c].rv \in Nat
    BY DEF TypeOK, PVC
<1>2. CASE UNCHANGED store
    BY <1>1, <1>2
<1>3. ASSUME NEW d \in Claims, Changes(d)
      PROVE  store'[c] = store[c] \/ store'[c].rv = store[c].rv + 1
    BY <1>3, ChangedFields
<1> QED
    BY <1>1, <1>2, <1>3, Effects

\* Copies stay what the API server held at their version.
LEMMA VersionsInductive ==
    ASSUME TypeOK, CopiesAgree, [Next]_vars
    PROVE  VersionsAgree'
<1> SUFFICES ASSUME NEW c \in Claims, NEW v \in Seen(c)'
             PROVE  /\ v.rv <= store'[c].rv
                    /\ v.rv = store'[c].rv => v = store'[c]
                    /\ ~v.present => v = Absent(v.rv)
                    /\ v.proxyRef # None => store'[v.proxyRef].rv > 0
    BY DEF VersionsAgree
<1>1. /\ store[c].rv \in Nat /\ store'[c].rv \in Nat
      /\ store'[c] = store[c] \/ store'[c].rv = store[c].rv + 1
    BY VersionsGrow
<1>2. v \in Seen(c) \/ v = store'[c]
    BY SeenGrows
<1>3. \A p \in Claims : store[p].rv > 0 => store'[p].rv > 0
    BY VersionsGrow
<1>4. CASE v \in Seen(c)
    <2>1. /\ v.rv <= store[c].rv
          /\ v.rv = store[c].rv => v = store[c]
          /\ ~v.present => v = Absent(v.rv)
          /\ v.proxyRef # None => store[v.proxyRef].rv > 0
        BY <1>4 DEF CopiesAgree, VersionsAgree
    <2>2. v.rv \in Nat /\ v.proxyRef \in Claims \cup {None}
        BY <1>4, SeenTypes, PVCUpdates
    <2> QED
        BY <1>1, <1>3, <2>1, <2>2
<1>5. CASE v = store'[c]
    <2>1. store[c] \in Seen(c)
        BY SeenTypes
    <2>2. /\ ~store[c].present => store[c] = Absent(store[c].rv)
          /\ store[c].proxyRef # None => store[store[c].proxyRef].rv > 0
        BY <2>1 DEF CopiesAgree, VersionsAgree
    <2>3. store[c].proxyRef \in Claims \cup {None}
        BY DEF TypeOK, PVC
    <2>4. CASE store'[c] = store[c]
        BY <1>1, <1>3, <1>5, <2>2, <2>3, <2>4
    <2>5. CASE store'[c] # store[c]
        <3>1. PICK d \in Claims : Changes(d)
            BY <2>5, Effects
        <3>2. c = d
            BY <2>5, <3>1, ChangedFields
        <3>3. /\ ~store'[c].present => store'[c] = Absent(store'[c].rv)
              /\ \/ store'[c].proxyRef \in {None, store[c].proxyRef}
                 \/ ClaimsBackend(store'[c].proxyRef, c) /\ store'[c].proxyRef \in Claims
            BY <3>1, <3>2, ChangedFields
        <3>4. ASSUME NEW p \in Claims, ClaimsBackend(p, c)
              PROVE  store[p].rv > 0
            <4>1. proxyWorker[p].proxy \in Seen(p) /\ proxyWorker[p].proxy.present
                BY <3>4 DEF Seen, ClaimsBackend, CopiesAgree, ProxyWorkersAgree
            <4>2. /\ proxyWorker[p].proxy.rv <= store[p].rv
                  /\ proxyWorker[p].proxy.rv = store[p].rv => store[p].present
                BY <4>1 DEF CopiesAgree, VersionsAgree
            <4>3. proxyWorker[p].proxy.rv \in Nat /\ store[p].rv \in Nat
                BY <4>1, SeenTypes, PVCUpdates
            <4>4. store[p].rv = 0 => ~store[p].present
                <5>1. Absent(0) \in Seen(p)
                    BY DEF Seen
                <5>2. store[p].rv = 0 => store[p] = Absent(0)
                    BY <5>1 DEF CopiesAgree, VersionsAgree, Absent
                <5> QED
                    BY <5>2 DEF Absent
            <4> QED
                BY <4>2, <4>3, <4>4
        <3>5. store'[c].proxyRef # None => store'[store'[c].proxyRef].rv > 0
            BY <1>3, <2>2, <2>3, <3>3, <3>4
        <3> QED
            BY <1>1, <1>5, <3>3, <3>5
    <2> QED
        BY <2>4, <2>5
<1> QED
    BY <1>2, <1>4, <1>5
\* An object that anyone has seen was created.
LEMMA SeenWasCreated ==
    ASSUME TypeOK, CopiesAgree, NEW c \in Claims, NEW v \in Seen(c), v.present
    PROVE  store[c].rv > 0
<1>1. v.rv \in Nat /\ store[c].rv \in Nat
    BY SeenTypes, PVCUpdates
<1>2. v.rv <= store[c].rv /\ (v.rv = store[c].rv => v = store[c])
    BY DEF CopiesAgree, VersionsAgree
<1>3. Absent(0) \in Seen(c)
    BY DEF Seen
<1>4. store[c].rv = 0 => store[c] = Absent(0)
    BY <1>3 DEF CopiesAgree, VersionsAgree, Absent
<1> QED
    BY <1>1, <1>2, <1>4 DEF Absent

\* The proxy controller's syncs stay consistent with what they have read.
LEMMA ProxyWorkersInductive ==
    ASSUME TypeOK, CopiesAgree, [Next]_vars
    PROVE  ProxyWorkersAgree'
<1> SUFFICES ASSUME NEW c \in Claims
             PROVE  /\ proxyWorker'[c].pc # "idle" =>
                        proxyWorker'[c].proxy.present /\ proxyWorker'[c].proxy.backendRef # None
                    /\ proxyWorker'[c].pc = "claim" => proxyWorker'[c].backend.proxyRef = None
                    /\ proxyWorker'[c].pc \in {"claim", "complete"} =>
                        store'[proxyWorker'[c].proxy.backendRef].rv > 0
    BY DEF ProxyWorkersAgree
<1> DEFINE w == proxyWorker[c]
           b == w.proxy.backendRef
           read == cached[b]
<1>1. /\ w \in ProxyWorker
      /\ b \in Claims \cup {None}
    BY PVCUpdates DEF TypeOK, ProxyWorker
<1>2. /\ w.pc # "idle" => w.proxy.present /\ b # None
      /\ w.pc = "claim" => w.backend.proxyRef = None
      /\ w.pc \in {"claim", "complete"} => store[b].rv > 0
    BY DEF CopiesAgree, ProxyWorkersAgree
<1>3. b \in Claims => (store[b].rv > 0 => store'[b].rv > 0)
    BY VersionsGrow
<1>4. CASE proxyWorker'[c] = w
    BY <1>1, <1>2, <1>3, <1>4 DEF ProxyWorker
<1>5. CASE proxyWorker'[c] = IdleProxyWorker
    BY <1>5 DEF IdleProxyWorker
<1>6. CASE /\ cached[c].present /\ cached[c].backendRef # None
           /\ proxyWorker'[c] = [IdleProxyWorker EXCEPT !.pc = "lookup", !.proxy = cached[c]]
    BY <1>6 DEF IdleProxyWorker
<1>7. ASSUME NEW pc, w.pc = "lookup", read.present, pc = "claim" => read.proxyRef = None,
             proxyWorker'[c] = [w EXCEPT !.pc = pc, !.backend = read]
      PROVE  /\ proxyWorker'[c].proxy = w.proxy
             /\ b # None /\ w.proxy.present
             /\ proxyWorker'[c].pc = "claim" => proxyWorker'[c].backend.proxyRef = None
             /\ store'[b].rv > 0
    <2>1. b \in Claims
        BY <1>1, <1>2, <1>7
    <2>2. read \in Seen(b)
        BY DEF Seen
    <2>3. store[b].rv > 0
        BY <1>7, <2>1, <2>2, SeenWasCreated
    <2>4. /\ proxyWorker'[c].pc = pc /\ proxyWorker'[c].backend = read
          /\ proxyWorker'[c].proxy = w.proxy
        BY <1>1, <1>7 DEF ProxyWorker
    <2> QED
        BY <1>2, <1>3, <1>7, <2>1, <2>3, <2>4
<1>8. CASE \/ /\ w.pc = "lookup" /\ read.present /\ read.proxyRef = None
              /\ proxyWorker'[c] = [w EXCEPT !.pc = "claim", !.backend = read]
           \/ /\ w.pc = "lookup" /\ read.present
              /\ proxyWorker'[c] = [w EXCEPT !.pc = "complete", !.backend = read]
    BY <1>7, <1>8
<1>9. CASE ClaimsBackend(c, b) /\ proxyWorker'[c] = [w EXCEPT !.pc = "complete"]
    <2>1. w.pc = "claim"
        BY <1>9 DEF ClaimsBackend
    <2>2. proxyWorker'[c].pc = "complete" /\ proxyWorker'[c].proxy = w.proxy
        BY <1>1, <1>9 DEF ProxyWorker
    <2> QED
        BY <1>1, <1>2, <1>3, <2>1, <2>2
<1>10. ProxyWorkerMoves(c)
    BY WorkersMove
<1> QED
    BY <1>4, <1>5, <1>6, <1>8, <1>9, <1>10 DEF ProxyWorkerMoves

\* So do the syncs of the backend and the protection controller.
LEMMA OtherWorkersInductive ==
    ASSUME TypeOK, CopiesAgree, [Next]_vars
    PROVE  BackendWorkersAgree' /\ ProtectionWorkersAgree'
<1>1. ASSUME NEW c \in Claims, backendWorker'[c].pc # "idle"
      PROVE  backendWorker'[c].backend.proxyRef # None
    <2> DEFINE w == backendWorker[c]
    <2>1. w \in BackendWorker
        BY DEF TypeOK
    <2>2. w.pc # "idle" => w.backend.proxyRef # None
        BY DEF CopiesAgree, BackendWorkersAgree
    <2>3. CASE backendWorker'[c] \in {w, IdleWorker}
        BY <1>1, <2>2, <2>3 DEF IdleWorker
    <2>4. CASE /\ cached[c].proxyRef # None
               /\ backendWorker'[c] = [IdleWorker EXCEPT !.pc = "get", !.backend = cached[c]]
        BY <2>4 DEF IdleWorker
    <2>5. CASE w.pc = "get" /\ backendWorker'[c] = [w EXCEPT !.pc = "release"]
        BY <2>1, <2>2, <2>5 DEF BackendWorker
    <2>6. BackendWorkerMoves(c)
        BY WorkersMove
    <2> QED
        BY <2>3, <2>4, <2>5, <2>6 DEF BackendWorkerMoves
<1>2. ASSUME NEW c \in Claims
      PROVE  LET w == protectionWorker'[c]
             IN  /\ w.pc = "add" => MustAddFinalizer(w.backend)
                 /\ w.pc = "remove" => MustRemoveFinalizer(w.backend)
    <2>1. CASE protectionWorker'[c] = protectionWorker[c]
        BY <2>1 DEF CopiesAgree, ProtectionWorkersAgree, MustAddFinalizer, MustRemoveFinalizer
    <2>2. CASE protectionWorker'[c] = IdleWorker
        BY <2>2 DEF IdleWorker
    <2>3. CASE /\ MustAddFinalizer(cached[c])
               /\ protectionWorker'[c] = [IdleWorker EXCEPT !.pc = "add", !.backend = cached[c]]
        <3>1. protectionWorker'[c].pc = "add" /\ protectionWorker'[c].backend = cached[c]
            BY <2>3 DEF IdleWorker
        <3> QED
            BY <2>3, <3>1 DEF MustAddFinalizer
    <2>4. CASE /\ MustRemoveFinalizer(cached[c])
               /\ protectionWorker'[c] = [IdleWorker EXCEPT !.pc = "remove", !.backend = cached[c]]
        <3>1. protectionWorker'[c].pc = "remove" /\ protectionWorker'[c].backend = cached[c]
            BY <2>4 DEF IdleWorker
        <3> QED
            BY <2>4, <3>1 DEF MustRemoveFinalizer
    <2>5. ProtectionWorkerMoves(c)
        BY WorkersMove
    <2> QED
        BY <2>1, <2>2, <2>3, <2>4, <2>5 DEF ProtectionWorkerMoves
<1> QED
    BY <1>1, <1>2 DEF BackendWorkersAgree, ProtectionWorkersAgree, MustAddFinalizer,
       MustRemoveFinalizer

\* A completed binding is to a backend that was created.
LEMMA BoundInductive ==
    ASSUME TypeOK, CopiesAgree, [Next]_vars
    PROVE  BoundProxiesAsked'
<1> SUFFICES ASSUME NEW c \in Claims, store'[c].bindCompleted
             PROVE  store'[c].backendRef # None /\ store'[store'[c].backendRef].rv > 0
    BY DEF BoundProxiesAsked
<1>1. store[c].backendRef \in Claims \cup {None}
    BY DEF TypeOK, PVC
<1>2. store[c].bindCompleted => store[c].backendRef # None /\ store[store[c].backendRef].rv > 0
    BY DEF CopiesAgree, BoundProxiesAsked
<1>3. \A p \in Claims : store[p].rv > 0 => store'[p].rv > 0
    BY VersionsGrow
<1>4. CASE store'[c] = store[c]
    BY <1>1, <1>2, <1>3, <1>4
<1>5. CASE store'[c] # store[c]
    <2>1. PICK d \in Claims : Changes(d)
        BY <1>5, Effects
    <2>2. c = d
        BY <1>5, <2>1, ChangedFields
    <2>3. store'[c].backendRef = store[c].backendRef
          /\ (store[c].bindCompleted \/ CompletesBinding(c))
        BY <2>1, <2>2, ChangedFields DEF CompletesBinding, Commit
    <2>4. CompletesBinding(c) => store[c].backendRef # None /\ store[store[c].backendRef].rv > 0
        BY DEF CompletesBinding, CopiesAgree, ProxyWorkersAgree
    <2> QED
        BY <1>1, <1>2, <1>3, <2>3, <2>4
<1> QED
    BY <1>4, <1>5

\* Copies and workers agree with the API server in every reachable state,
\* whether names are reused or not.
\* At first nobody has seen anything.
LEMMA NothingSeenFirst ==
    ASSUME Init, NEW c \in Claims
    PROVE  Seen(c) = {Absent(0)}
<1>1. Pending(c) = {}
    BY DEF Init, Pending
<1>2. /\ \A d \in Claims : proxyWorker[d].proxy = Absent(0) /\ proxyWorker[d].backend = Absent(0)
      /\ store[c] = Absent(0) /\ cached[c] = Absent(0)
      /\ backendWorker[c].backend = Absent(0)
      /\ protectionWorker[c].backend = Absent(0)
    BY DEF Init, IdleProxyWorker, IdleWorker
<1> QED
    BY <1>1, <1>2 DEF Seen

LEMMA CopiesAgreeAlways == Spec => []CopiesAgree
<1>1. Init => CopiesAgree
    <2> SUFFICES ASSUME Init PROVE CopiesAgree
        OBVIOUS
    <2> QED
        BY NothingSeenFirst DEF Init, CopiesAgree, VersionsAgree, ProxyWorkersAgree,
           BackendWorkersAgree, ProtectionWorkersAgree, BoundProxiesAsked, IdleProxyWorker,
           IdleWorker, Absent
<1>2. TypeOK /\ CopiesAgree /\ [Next]_vars => CopiesAgree'
    BY VersionsInductive, ProxyWorkersInductive, OtherWorkersInductive, BoundInductive
       DEF CopiesAgree
<1> QED
    BY <1>1, <1>2, TypeCorrect, PTL DEF Spec

\* FinalizerGuardsClaim, whether names are reused or not: the protection
\* finalizer is only removed from a claim that is being deleted and unclaimed.
THEOREM FinalizerSafe == Spec => FinalizerGuardsClaim
<1> DEFINE Guarded == \A b \in Claims : store[b].finalizer /\ ~store'[b].finalizer
                        => store[b].deleting /\ store[b].proxyRef = None
<1>1. TypeOK /\ CopiesAgree /\ [Next]_vars => [Guarded]_vars
    <2> SUFFICES ASSUME TypeOK, CopiesAgree, [Next]_vars, NEW b \in Claims,
                        store[b].finalizer, ~store'[b].finalizer
                 PROVE  store[b].deleting /\ store[b].proxyRef = None
        OBVIOUS
    <2>1. PICK d \in Claims : Changes(d)
        BY Effects
    <2>2. b = d
        BY <2>1, ChangedFields
    <2> QED
        BY <2>1, <2>2, ChangedFields
<1> QED
    BY <1>1, TypeCorrect, CopiesAgreeAlways, PTL DEF Spec, FinalizerGuardsClaim
-----------------------------------------------------------------------------
(***************************************************************************)
(* From here on no name is reused.                                         *)
(***************************************************************************)

\* A claim that is gone does not come back.
LEMMA GoneForGood ==
    ASSUME Reusable = {}, TypeOK, CopiesAgree, [Next]_vars,
           NEW c \in Claims, store[c].rv > 0, ~store[c].present
    PROVE  ~store'[c].present
<1>1. SUFFICES ASSUME store'[c].present PROVE FALSE
    OBVIOUS
<1>2. PICK d \in Claims : Changes(d)
    BY <1>1, Effects
<1>3. c = d
    BY <1>1, <1>2, ChangedFields
<1>4. Creates(d)
    BY <1>1, <1>2, <1>3, ChangedFields
<1> QED
    BY <1>3, <1>4 DEF Creates

\* A release that is under way stays justified.
LEMMA ReleaseInductive ==
    ASSUME Reusable = {}, TypeOK, CopiesAgree, ReleaseJustified, [Next]_vars
    PROVE  ReleaseJustified'
<1> SUFFICES ASSUME NEW c \in Claims, backendWorker'[c].pc = "release"
             PROVE  ~store'[backendWorker'[c].backend.proxyRef].present
    BY DEF ReleaseJustified
<1> DEFINE w == backendWorker[c]
           p == w.backend.proxyRef
<1>1. w \in BackendWorker
    BY DEF TypeOK
<1>2. CASE backendWorker'[c] = w
    <2>1. ~store[p].present
        BY <1>2 DEF ReleaseJustified
    <2>2. p # None /\ w.backend \in Seen(c)
        BY <1>2 DEF CopiesAgree, BackendWorkersAgree, Seen
    <2>3. p \in Claims /\ store[p].rv > 0
        BY <2>2, SeenTypes, PVCUpdates DEF CopiesAgree, VersionsAgree
    <2> QED
        BY <1>2, <2>1, <2>3, GoneForGood
<1>3. CASE backendWorker'[c] = IdleWorker
    BY <1>3 DEF IdleWorker
<1>4. CASE backendWorker'[c] = [IdleWorker EXCEPT !.pc = "get", !.backend = cached[c]]
    BY <1>4 DEF IdleWorker
<1>5. CASE /\ ~store[p].present
           /\ UNCHANGED store
           /\ backendWorker'[c] = [w EXCEPT !.pc = "release"]
    BY <1>1, <1>5 DEF BackendWorker
<1>6. BackendWorkerMoves(c)
    BY WorkersMove
<1> QED
    BY <1>2, <1>3, <1>4, <1>5, <1>6 DEF BackendWorkerMoves

\* Why p may take itself for the holder of b, whether it still exists or not.
Evidence(p, b) ==
    \/ \E v \in Seen(b) : v.proxyRef = p
    \/ proxyWorker[p].pc = "complete" /\ proxyWorker[p].proxy.backendRef = b
    \/ store[p].bindCompleted /\ store[p].backendRef = b

\* Both sides of such a claim were created.
LEMMA EvidenceCreated ==
    ASSUME TypeOK, CopiesAgree, NEW p \in Claims, NEW b \in Claims, Evidence(p, b)
    PROVE  store[p].rv > 0 /\ store[b].rv > 0
<1>1. CASE \E v \in Seen(b) : v.proxyRef = p
    <2>1. PICK v \in Seen(b) : v.proxyRef = p
        BY <1>1
    <2>2. store[p].rv > 0 /\ (~v.present => v = Absent(v.rv))
        BY <2>1, NoneAssumption DEF CopiesAgree, VersionsAgree
    <2>3. v.present
        BY <2>1, <2>2, NoneAssumption DEF Absent
    <2> QED
        BY <2>2, <2>3, SeenWasCreated
<1>2. CASE proxyWorker[p].pc = "complete" /\ proxyWorker[p].proxy.backendRef = b
    <2>1. store[b].rv > 0 /\ proxyWorker[p].proxy.present
        BY <1>2 DEF CopiesAgree, ProxyWorkersAgree
    <2>2. proxyWorker[p].proxy \in Seen(p)
        BY DEF Seen
    <2> QED
        BY <2>1, <2>2, SeenWasCreated
<1>3. CASE store[p].bindCompleted /\ store[p].backendRef = b
    <2>1. store[b].rv > 0
        BY <1>3 DEF CopiesAgree, BoundProxiesAsked
    <2>2. store[p] \in Seen(p)
        BY SeenTypes
    <2>3. store[p].present
        BY <1>3, <2>2 DEF CopiesAgree, VersionsAgree, Absent
    <2> QED
        BY <2>1, <2>2, <2>3, SeenWasCreated
<1> QED
    BY <1>1, <1>2, <1>3 DEF Evidence

\* Such evidence is only ever created by the claiming of the backend.
LEMMA EvidenceMoves ==
    ASSUME TypeOK, CopiesAgree, [Next]_vars, NEW p \in Claims, NEW b \in Claims, Evidence(p, b)'
    PROVE  Evidence(p, b) \/ ClaimsBackend(p, b)
<1>1. CASE \E v \in Seen(b)' : v.proxyRef = p
    <2>1. PICK v \in Seen(b)' : v.proxyRef = p
        BY <1>1
    <2>2. CASE v \in Seen(b)
        BY <2>1, <2>2 DEF Evidence
    <2>3. CASE v = store'[b]
        <3>1. CASE store'[b].proxyRef = store[b].proxyRef
            BY <2>1, <2>3, <3>1, SeenTypes DEF Evidence
        <3>2. CASE store'[b].proxyRef # store[b].proxyRef
            <4>1. PICK d \in Claims : Changes(d)
                BY <3>2, Effects
            <4>2. b = d
                BY <3>2, <4>1, ChangedFields
            <4>3. ClaimsBackend(store'[d].proxyRef, d)
                BY <2>1, <2>3, <3>2, <4>1, <4>2, ChangedFields, NoneAssumption
            <4> QED
                BY <2>1, <2>3, <4>2, <4>3 DEF ClaimsBackend, Commit
        <3> QED
            BY <3>1, <3>2
    <2> QED
        BY <2>2, <2>3, SeenGrows
<1>2. CASE proxyWorker'[p].pc = "complete" /\ proxyWorker'[p].proxy.backendRef = b
    <2> DEFINE w == proxyWorker[p]
               read == cached[w.proxy.backendRef]
    <2>1. w \in ProxyWorker
        BY DEF TypeOK
    <2>2. CASE proxyWorker'[p] = w
        BY <1>2, <2>2 DEF Evidence
    <2>3. CASE proxyWorker'[p] = IdleProxyWorker
        BY <1>2, <2>3 DEF IdleProxyWorker
    <2>4. CASE proxyWorker'[p] = [IdleProxyWorker EXCEPT !.pc = "lookup", !.proxy = cached[p]]
        BY <1>2, <2>4 DEF IdleProxyWorker
    <2>5. CASE proxyWorker'[p] = [w EXCEPT !.pc = "claim", !.backend = read]
        BY <1>2, <2>1, <2>5 DEF ProxyWorker
    <2>6. CASE read.proxyRef = p /\ proxyWorker'[p] = [w EXCEPT !.pc = "complete", !.backend = read]
        <3>1. w.proxy.backendRef = b
            BY <1>2, <2>1, <2>6 DEF ProxyWorker
        <3>2. read \in Seen(b)
            BY <3>1 DEF Seen
        <3> QED
            BY <2>6, <3>2 DEF Evidence
    <2>7. CASE ClaimsBackend(p, w.proxy.backendRef) /\ proxyWorker'[p] = [w EXCEPT !.pc = "complete"]
        <3>1. w.proxy.backendRef = b
            BY <1>2, <2>1, <2>7 DEF ProxyWorker
        <3> QED
            BY <2>7, <3>1 DEF ClaimsBackend, Commit
    <2>8. ProxyWorkerMoves(p)
        BY WorkersMove
    <2> QED
        BY <2>2, <2>3, <2>4, <2>5, <2>6, <2>7, <2>8 DEF ProxyWorkerMoves
<1>3. CASE store'[p].bindCompleted /\ store'[p].backendRef = b
    <2>1. CASE store'[p] = store[p]
        BY <1>3, <2>1 DEF Evidence
    <2>2. CASE store'[p] # store[p]
        <3>1. PICK d \in Claims : Changes(d)
            BY <2>2, Effects
        <3>2. p = d
            BY <2>2, <3>1, ChangedFields
        <3>3. /\ store[p].backendRef = b
              /\ store[p].bindCompleted \/ CompletesBinding(d)
            BY <1>3, <3>1, <3>2, ChangedFields
        <3>4. CASE CompletesBinding(d)
            BY <3>2, <3>3, <3>4 DEF CompletesBinding, Evidence
        <3> QED
            BY <3>3, <3>4 DEF Evidence
    <2> QED
        BY <2>1, <2>2
<1> QED
    BY <1>1, <1>2, <1>3 DEF Evidence

\* A backend that stays keeps the holder that stays.
LEMMA HolderKept ==
    ASSUME Reusable = {}, TypeOK, CopiesAgree, ReleaseJustified, [Next]_vars,
           NEW p \in Claims, NEW b \in Claims, store[p].present,
           store[b].proxyRef = p, store'[b].present
    PROVE  store'[b].proxyRef = p
<1>1. SUFFICES ASSUME store'[b].proxyRef # p PROVE FALSE
    OBVIOUS
<1>2. PICK d \in Claims : Changes(d)
    BY <1>1, Effects
<1>3. b = d
    BY <1>1, <1>2, ChangedFields
<1>4. store[b].present
    <2>1. store[b] \in Seen(b)
        BY SeenTypes
    <2> QED
        BY <2>1, NoneAssumption DEF CopiesAgree, VersionsAgree, Absent
<1>5. store'[d].proxyRef = None
    <2>1. ~ClaimsBackend(store'[d].proxyRef, d)
        BY <1>3, NoneAssumption DEF ClaimsBackend
    <2> QED
        BY <1>1, <1>2, <1>3, <2>1, ChangedFields
<1>6. ReleasesBackend(d)
    BY <1>2, <1>3, <1>4, <1>5, ChangedFields, NoneAssumption DEF Creates
<1> QED
    BY <1>3, <1>6 DEF ReleasesBackend, ReleaseJustified

\* Claimants keep agreeing with the API server and with each other.
LEMMA ClaimantsInductive ==
    ASSUME Reusable = {}, TypeOK, CopiesAgree, ReleaseJustified, ClaimantsAgree, [Next]_vars
    PROVE  ClaimantsAgree'
<1>1. ASSUME NEW b \in Claims, NEW p \in Claims, Claimant(p, b)'
      PROVE  Claimant(p, b) \/ ClaimsBackend(p, b)
    <2>1. Evidence(p, b)' /\ store'[p].present
        BY <1>1 DEF Claimant, Evidence
    <2>2. CASE Evidence(p, b)
        <3>1. store[p].rv > 0
            BY <2>2, EvidenceCreated
        <3>2. store[p].present
            BY <2>1, <3>1, GoneForGood
        <3> QED
            BY <2>2, <3>2 DEF Claimant, Evidence
    <2> QED
        BY <2>1, <2>2, EvidenceMoves
<1>2. ASSUME NEW b \in Claims, NEW p \in Claims, ClaimsBackend(p, b)
      PROVE  /\ store'[b].proxyRef = p
             /\ \A q \in Claims : ~Claimant(q, b)
    <2>1. store \in [Claims -> PVC] /\ store[b] \in PVC
        BY DEF TypeOK
    <2>2. store' = [store EXCEPT ![b] = [[store[b] EXCEPT !.proxyRef = p] EXCEPT !.rv = store[b].rv + 1]]
        BY <1>2 DEF ClaimsBackend, Commit
    <2>3. store'[b].proxyRef = p
        BY <2>1, <2>2 DEF PVC
    <2>4. \A q \in Claims : Claimant(q, b) => store[b].proxyRef = q
        BY <1>2 DEF ClaimsBackend, ClaimantsAgree
    <2> QED
        BY <1>2, <2>3, <2>4, NoneAssumption DEF ClaimsBackend
<1> SUFFICES ASSUME NEW b \in Claims, NEW p \in Claims, Claimant(p, b)'
             PROVE  /\ store'[b].present => store'[b].proxyRef = p
                    /\ \A q \in Claims : Claimant(q, b)' => q = p
    BY DEF ClaimantsAgree
<1>3. CASE \E c \in Claims : ClaimsBackend(c, b)
    <2>1. \A q \in Claims : ~Claimant(q, b)
        BY <1>2, <1>3
    <2>2. \A q \in Claims : Claimant(q, b)' => store'[b].proxyRef = q
        BY <1>1, <1>2, <2>1
    <2> QED
        BY <2>2
<1>4. CASE \A c \in Claims : ~ClaimsBackend(c, b)
    <2>1. \A q \in Claims : Claimant(q, b)' => Claimant(q, b)
        BY <1>1, <1>4
    <2>2. Claimant(p, b)
        BY <2>1
    <2>3. /\ store[b].present => store[b].proxyRef = p
          /\ \A q \in Claims : Claimant(q, b) => q = p
        BY <2>2 DEF ClaimantsAgree
    <2>4. ASSUME store'[b].present PROVE store'[b].proxyRef = p
        <3>1. store[b].rv > 0 /\ store[p].present
            BY <2>2, EvidenceCreated DEF Claimant, Evidence
        <3>2. store[b].present
            BY <2>4, <3>1, GoneForGood
        <3> QED
            BY <2>3, <2>4, <3>1, <3>2, HolderKept
    <2> QED
        BY <2>1, <2>3, <2>4
<1> QED
    BY <1>3, <1>4

\* The binding invariant holds in every reachable state when no name is reused.
THEOREM BindingInvariantAlways ==
    ASSUME Reusable = {}
    PROVE  Spec => []BindingInvariant
<1>1. Init /\ CopiesAgree => ReleaseJustified /\ ClaimantsAgree
    <2> SUFFICES ASSUME Init PROVE ReleaseJustified /\ ClaimantsAgree
        OBVIOUS
    <2>1. \A p \in Claims : ~store[p].present /\ backendWorker[p].pc = "idle"
        BY DEF Init, Absent, IdleWorker
    <2> QED
        BY <2>1 DEF ReleaseJustified, ClaimantsAgree, Claimant
<1>2. TypeOK /\ CopiesAgree /\ ReleaseJustified /\ ClaimantsAgree /\ [Next]_vars
        => (ReleaseJustified /\ ClaimantsAgree)'
    BY ReleaseInductive, ClaimantsInductive
<1> QED
    BY <1>1, <1>2, TypeCorrect, CopiesAgreeAlways, PTL DEF Spec, BindingInvariant

\* BoundProxyHoldsBackend: a bound proxy holds its backend as long as it exists.
THEOREM BoundProxyHolds ==
    ASSUME Reusable = {}
    PROVE  Spec => []BoundProxyHoldsBackend
<1>1. TypeOK /\ BindingInvariant => BoundProxyHoldsBackend
    <2> SUFFICES ASSUME TypeOK, CopiesAgree, ClaimantsAgree, NEW p \in Claims,
                        store[p].bindCompleted, store[store[p].backendRef].present
                 PROVE  store[store[p].backendRef].proxyRef = p
        BY DEF BindingInvariant, BoundProxyHoldsBackend
    <2>1. store[p].backendRef \in Claims
        BY DEF TypeOK, PVC, CopiesAgree, BoundProxiesAsked
    <2>2. store[p].present
        BY SeenTypes DEF CopiesAgree, VersionsAgree, Absent
    <2> QED
        BY <2>1, <2>2 DEF ClaimantsAgree, Claimant
<1> QED
    BY <1>1, TypeCorrect, BindingInvariantAlways, PTL

\* NoSharedBackend: no two proxies are bound to one backend.
THEOREM BackendsNotShared ==
    ASSUME Reusable = {}
    PROVE  Spec => []NoSharedBackend
<1>1. TypeOK /\ BindingInvariant => NoSharedBackend
    <2> SUFFICES ASSUME TypeOK, CopiesAgree, ClaimantsAgree, NEW p \in Claims, NEW q \in Claims,
                        store[p].bindCompleted, store[q].bindCompleted,
                        store[p].backendRef = store[q].backendRef
                 PROVE  p = q
        BY DEF BindingInvariant, NoSharedBackend
    <2>1. store[p].backendRef \in Claims
        BY DEF TypeOK, PVC, CopiesAgree, BoundProxiesAsked
    <2>2. store[p].present /\ store[q].present
        BY SeenTypes DEF CopiesAgree, VersionsAgree, Absent
    <2>3. Claimant(p, store[p].backendRef) /\ Claimant(q, store[p].backendRef)
        BY <2>2 DEF Claimant
    <2> QED
        BY <2>1, <2>3 DEF ClaimantsAgree
<1> QED
    BY <1>1, TypeCorrect, BindingInvariantAlways, PTL

\* ClaimNotStolen: no step takes a backend from a proxy that exists.
THEOREM ClaimsNotStolen ==
    ASSUME Reusable = {}
    PROVE  Spec => ClaimNotStolen
<1> DEFINE Kept == \A b \in Claims :
        LET p == store[b].proxyRef
        IN  p # None /\ store[p].present /\ store'[b].present => store'[b].proxyRef = p
<1>1. TypeOK /\ BindingInvariant /\ [Next]_vars => [Kept]_vars
    <2> SUFFICES ASSUME TypeOK, CopiesAgree, ReleaseJustified, [Next]_vars, NEW b \in Claims,
                        store[b].proxyRef # None, store[store[b].proxyRef].present, store'[b].present
                 PROVE  store'[b].proxyRef = store[b].proxyRef
        BY DEF BindingInvariant
    <2>1. store[b].proxyRef \in Claims
        BY DEF TypeOK, PVC
    <2> QED
        BY <2>1, HolderKept
<1> QED
    BY <1>1, TypeCorrect, BindingInvariantAlways, PTL DEF Spec, ClaimNotStolen
-----------------------------------------------------------------------------
(***************************************************************************)
(* PVCBinding implements ExclusiveBinding: each of the six ways in which a *)
(* step changes an object of the API server is one action of the abstract  *)
(* specification, or changes nothing it speaks of.                         *)
(***************************************************************************)

\* One object changes, from one with these fields to one with those: what that
\* means for the abstract state.
LEMMA MappedChange ==
    ASSUME TypeOK, CopiesAgree, NEW d \in Claims, Changes(d)
    PROVE  /\ created' = created \cup {d}
           /\ alive' = IF store'[d].present THEN alive \cup {d} ELSE alive \ {d}
           /\ request' = [request EXCEPT ![d] = store'[d].backendRef]
           /\ holder' = [holder EXCEPT ![d] = store'[d].proxyRef]
           /\ bound' = IF store'[d].bindCompleted THEN bound \cup {d} ELSE bound \ {d}
<1>1. /\ \A c \in Claims \ {d} : store'[c] = store[c]
      /\ store'[d].rv = store[d].rv + 1
    BY ChangedFields
<1>2. store[d].rv \in Nat
    BY DEF TypeOK, PVC
<1>3. created' = created \cup {d}
    BY <1>1, <1>2 DEF created
<1>4. alive' = IF store'[d].present THEN alive \cup {d} ELSE alive \ {d}
    BY <1>1 DEF alive
<1>5. request' = [request EXCEPT ![d] = store'[d].backendRef]
    BY <1>1 DEF request
<1>6. holder' = [holder EXCEPT ![d] = store'[d].proxyRef]
    BY <1>1 DEF holder
<1>7. bound' = IF store'[d].bindCompleted THEN bound \cup {d} ELSE bound \ {d}
    BY <1>1 DEF bound
<1> QED
    BY <1>3, <1>4, <1>5, <1>6, <1>7

\* What is not there has no fields, and what is there was created.
LEMMA AbsentFields ==
    ASSUME TypeOK, CopiesAgree, NEW c \in Claims
    PROVE  /\ ~store[c].present => /\ ~store[c].bindCompleted /\ store[c].proxyRef = None
                                   /\ store[c].backendRef = None /\ ~store[c].deleting
           /\ store[c].present => store[c].rv > 0
<1>1. store[c] \in Seen(c)
    BY SeenTypes
<1>2. ~store[c].present => store[c] = Absent(store[c].rv)
    BY <1>1 DEF CopiesAgree, VersionsAgree
<1> QED
    BY <1>1, <1>2, SeenWasCreated DEF Absent

\* A change to an object that stays keeps what it does not touch.
LEMMA MappedUnchanged ==
    ASSUME TypeOK, CopiesAgree, NEW d \in Claims, Changes(d), store[d].present, store'[d].present
    PROVE  /\ created' = created /\ alive' = alive
           /\ store'[d].backendRef = store[d].backendRef => request' = request
           /\ store'[d].proxyRef = store[d].proxyRef => holder' = holder
           /\ store'[d].bindCompleted = store[d].bindCompleted => bound' = bound
<1>1. d \in created /\ d \in alive
    BY AbsentFields DEF created, alive
<1>2. created' = created /\ alive' = alive
    BY <1>1, MappedChange
<1>3. \A c \in Claims \ {d} : store'[c] = store[c]
    BY ChangedFields
<1>4. store'[d].backendRef = store[d].backendRef => request' = request
    BY <1>3 DEF request
<1>5. store'[d].proxyRef = store[d].proxyRef => holder' = holder
    BY <1>3 DEF holder
<1>6. store'[d].bindCompleted = store[d].bindCompleted => bound' = bound
    BY <1>3 DEF bound
<1> QED
    BY <1>2, <1>4, <1>5, <1>6

\* A step that changes what the API server holds under d maps to a step of the
\* abstract specification or to a stutter.
LEMMA MappedStep ==
    ASSUME Reusable = {}, TypeOK, CopiesAgree, ReleaseJustified, ClaimantsAgree,
           NEW d \in Claims, Changes(d)
    PROVE  [Abstract!Next]_(Abstract!avars)
<1>0. /\ store \in [Claims -> PVC] /\ store[d] \in PVC
      /\ None \notin Claims
    BY NoneAssumption DEF TypeOK
<1>1. CASE Creates(d)
    <2>1. PICK ref \in Claims \cup {None} : Commit(d, NewPVC(ref))
        BY <1>1 DEF Creates
    <2>2. store'[d] = [NewPVC(ref) EXCEPT !.rv = store[d].rv + 1]
        BY <1>0, <2>1 DEF Commit
    <2>3. /\ store'[d].present /\ store'[d].backendRef = ref
          /\ store'[d].proxyRef = None /\ ~store'[d].bindCompleted
        BY <2>2 DEF NewPVC, Absent
    <2>4. /\ d \notin created /\ d \notin bound
          /\ store[d].proxyRef = None
        BY <1>0, <1>1, AbsentFields DEF Creates, created, bound
    <2>5. Abstract!Create(d, ref)
        <3>1. holder' = holder /\ bound' = bound
            BY <1>0, <2>3, <2>4, MappedChange DEF holder, bound
        <3> QED
            BY <2>3, <2>4, <3>1, MappedChange DEF Abstract!Create
    <2> QED
        BY <2>5 DEF Abstract!Next
<1>2. CASE Expunges(d)
    <2>1. store'[d] = [Absent(0) EXCEPT !.rv = store[d].rv + 1]
        BY <1>0, <1>2 DEF Expunges, Commit
    <2>2. /\ ~store'[d].present /\ store'[d].backendRef = None
          /\ store'[d].proxyRef = None /\ ~store'[d].bindCompleted
        BY <2>1 DEF Absent
    <2>3. d \in created /\ d \in alive
        BY <1>2, AbsentFields DEF Expunges, created, alive
    <2>4. created' = created
        BY <2>3, MappedChange
    <2> QED
        BY <2>2, <2>3, <2>4, MappedChange DEF Abstract!Next, Abstract!Vanish
<1>3. CASE Touches(d)
    <2>1. PICK deleting, finalizer \in BOOLEAN :
            Commit(d, [store[d] EXCEPT !.deleting = deleting, !.finalizer = finalizer])
        BY <1>3 DEF Touches
    <2>2. store'[d] = [[store[d] EXCEPT !.deleting = deleting, !.finalizer = finalizer]
                        EXCEPT !.rv = store[d].rv + 1]
        BY <1>0, <2>1 DEF Commit
    <2>3. /\ store'[d].present /\ store[d].present
          /\ store'[d].proxyRef = store[d].proxyRef
          /\ store'[d].backendRef = store[d].backendRef
          /\ store'[d].bindCompleted = store[d].bindCompleted
        BY <1>0, <1>3, <2>2 DEF PVC, Touches
    <2> QED
        BY <2>3, MappedUnchanged DEF Abstract!avars
<1>4. ASSUME NEW p \in Claims, ClaimsBackend(p, d) PROVE Abstract!Claim(p, d)
    <2>1. /\ store'[d] = [[store[d] EXCEPT !.proxyRef = p] EXCEPT !.rv = store[d].rv + 1]
          /\ store[d].present /\ store[d].proxyRef = None
        BY <1>0, <1>4 DEF ClaimsBackend, Commit
    <2>2. /\ store'[d].present
          /\ store'[d].proxyRef = p
          /\ store'[d].backendRef = store[d].backendRef
          /\ store'[d].bindCompleted = store[d].bindCompleted
        BY <1>0, <2>1 DEF PVC
    <2>3. /\ created' = created /\ alive' = alive /\ request' = request /\ bound' = bound
          /\ holder' = [holder EXCEPT ![d] = p]
        BY <2>1, <2>2, MappedUnchanged, MappedChange
    <2>4. p \in created
        <3>1. proxyWorker[p].proxy \in Seen(p) /\ proxyWorker[p].proxy.present
            BY <1>4 DEF ClaimsBackend, CopiesAgree, ProxyWorkersAgree, Seen
        <3> QED
            BY <3>1, SeenWasCreated DEF created
    <2>5. d \in alive /\ holder[d] = None
        BY <2>1 DEF alive, holder
    <2> QED
        BY <2>3, <2>4, <2>5 DEF Abstract!Claim
<1>5. CASE CompletesBinding(d)
    <2> DEFINE b == store[d].backendRef
    <2>1. /\ store'[d] = [[store[d] EXCEPT !.bindCompleted = TRUE] EXCEPT !.rv = store[d].rv + 1]
          /\ store[d].present
        BY <1>0, <1>5 DEF CompletesBinding, Commit
    <2>2. /\ store'[d].present /\ store'[d].bindCompleted
          /\ store'[d].proxyRef = store[d].proxyRef
          /\ store'[d].backendRef = b
        BY <1>0, <2>1 DEF PVC
    <2>3. CASE store[d].bindCompleted
        BY <2>1, <2>2, <2>3, MappedUnchanged DEF Abstract!avars
    <2>4. CASE ~store[d].bindCompleted
        <3>1. b \in Claims
            BY <1>0, <1>5 DEF CompletesBinding, CopiesAgree, ProxyWorkersAgree, PVC
        <3>2. Claimant(d, b)
            BY <1>5 DEF CompletesBinding, Claimant
        <3>3. b \in alive => holder[b] = d
            BY <3>1, <3>2 DEF ClaimantsAgree, alive, holder
        <3>4. \A q \in bound : request[q] # b
            <4>1. SUFFICES ASSUME NEW q \in Claims, store[q].bindCompleted, store[q].backendRef = b
                           PROVE  FALSE
                BY DEF bound, request
            <4>2. Claimant(q, b)
                BY <4>1, AbsentFields DEF Claimant
            <4> QED
                BY <2>4, <3>1, <3>2, <4>1, <4>2 DEF ClaimantsAgree
        <3>5. /\ created' = created /\ alive' = alive /\ request' = request /\ holder' = holder
              /\ bound' = bound \cup {d}
            BY <2>1, <2>2, MappedUnchanged, MappedChange
        <3>6. d \in alive \ bound /\ request[d] = b
            BY <2>1, <2>4 DEF alive, bound, request
        <3>7. Abstract!Complete(d)
            BY <3>3, <3>4, <3>5, <3>6 DEF Abstract!Complete
        <3> QED
            BY <3>7 DEF Abstract!Next
    <2> QED
        BY <2>3, <2>4
<1>6. CASE ReleasesBackend(d)
    <2> DEFINE p == store[d].proxyRef
    <2>1. /\ store'[d] = [[store[d] EXCEPT !.proxyRef = None] EXCEPT !.rv = store[d].rv + 1]
          /\ store[d].present
        BY <1>0, <1>6 DEF ReleasesBackend, Commit
    <2>2. /\ store'[d].present
          /\ store'[d].proxyRef = None
          /\ store'[d].backendRef = store[d].backendRef
          /\ store'[d].bindCompleted = store[d].bindCompleted
        BY <1>0, <2>1 DEF PVC
    <2>3. /\ created' = created /\ alive' = alive /\ request' = request /\ bound' = bound
          /\ holder' = [holder EXCEPT ![d] = None]
        BY <2>1, <2>2, MappedUnchanged, MappedChange
    <2>4. ~store[p].present
        BY <1>6 DEF ReleasesBackend, ReleaseJustified
    <2>5. p # None
        BY <1>6 DEF ReleasesBackend, CopiesAgree, BackendWorkersAgree
    <2>6. p \in Claims /\ store[p].rv > 0
        BY <1>0, <2>5, SeenTypes DEF CopiesAgree, VersionsAgree, PVC
    <2>7. holder[d] \in created \ alive
        BY <2>4, <2>6 DEF holder, created, alive
    <2>8. Abstract!Release(d)
        BY <2>3, <2>7 DEF Abstract!Release
    <2> QED
        BY <2>8 DEF Abstract!Next
<1> QED
    BY <1>1, <1>2, <1>3, <1>4, <1>5, <1>6 DEF Changes, Abstract!Next

\* PVCBinding implements ExclusiveBinding, for any number of proxies and backends,
\* when no name is given to a second claim: whatever the controllers do on stale
\* copies, whatever calls fail and whenever the process dies, the API server's
\* objects go through an exclusive binding (bind, releaseBackendPVC).
THEOREM RefinesExclusiveBinding ==
    ASSUME Reusable = {}
    PROVE  Spec => ImplementsExclusiveBinding
<1>1. Init => Abstract!Init
    BY DEF Init, Absent, Abstract!Init, created, alive, request, holder, bound
<1>2. TypeOK /\ BindingInvariant /\ [Next]_vars => [Abstract!Next]_(Abstract!avars)
    <2> SUFFICES ASSUME TypeOK, BindingInvariant, [Next]_vars
                 PROVE  [Abstract!Next]_(Abstract!avars)
        OBVIOUS
    <2>1. CASE UNCHANGED store
        BY <2>1 DEF Abstract!avars, created, alive, request, holder, bound
    <2>2. CASE \E c \in Claims : Changes(c)
        BY <2>2, MappedStep DEF BindingInvariant
    <2> QED
        BY <2>1, <2>2, Effects DEF BindingInvariant
<1> QED
    BY <1>1, <1>2, TypeCorrect, BindingInvariantAlways, PTL
       DEF Spec, ImplementsExclusiveBinding, Abstract!Spec
-----------------------------------------------------------------------------
(***************************************************************************)
(* No lost wake-up of the backend controller.                              *)
(***************************************************************************)

\* An expunged claim is not there.
LEMMA ExpungedIsGone ==
    ASSUME TypeOK, NEW c \in Claims, Expunges(c)
    PROVE  ~store'[c].present
<1>1. store'[c] = [Absent(0) EXCEPT !.rv = store[c].rv + 1]
    BY DEF Expunges, Commit, TypeOK
<1> QED
    BY <1>1 DEF Absent

\* Requests made of a name that existed before are the ones made then.
LEMMA CreatedAsBefore ==
    ASSUME SameRequestOnReuse, TypeOK, CopiesAgree, RequestsAgree,
           NEW c \in Claims, Creates(c), NEW ref, <<c, ref>> \in Requests, store[c].rv > 0
    PROVE  /\ store'[c].backendRef = ref
           /\ \A r \in Requests : r[1] = c => r = <<c, ref>>
<1>1. PICK ref2 \in Claims \cup {None} : <<c, ref2>> \in Requests /\ Commit(c, NewPVC(ref2))
    BY DEF Creates
<1>2. c \in Reusable
    BY DEF Creates
<1>3. \A r \in Requests : r[1] = c => r = <<c, ref>>
    BY <1>2 DEF SameRequestOnReuse
<1>4. ref2 = ref
    BY <1>1, <1>3
<1>5. store'[c] = [NewPVC(ref2) EXCEPT !.rv = store[c].rv + 1]
    BY <1>1 DEF Commit, TypeOK
<1>6. store'[c].backendRef = ref2
    BY <1>5 DEF NewPVC, Absent
<1> QED
    BY <1>3, <1>4, <1>6

\* What is new of a claim is what the API server now holds: a request just made,
\* or the claim as it was but for its holder.
LEMMA RequestsInductive ==
    ASSUME TypeOK, CopiesAgree, RequestsAgree, [Next]_vars
    PROVE  RequestsAgree'
<1> SUFFICES ASSUME NEW c \in Claims, NEW v \in Seen(c)'
             PROVE  /\ v.present => <<c, v.backendRef>> \in Requests
                    /\ v.proxyRef # None => <<v.proxyRef, c>> \in Requests
    BY DEF RequestsAgree
<1>1. v \in Seen(c) \/ v = store'[c]
    BY SeenGrows
<1>2. CASE v \in Seen(c)
    BY <1>2 DEF RequestsAgree
<1>3. CASE v = store'[c] /\ v \notin Seen(c)
    <2>0. store[c] \in Seen(c) /\ store[c] \in PVC
        BY SeenTypes
    <2>1. store'[c] # store[c]
        BY <1>3, <2>0
    <2>2. PICK d \in Claims : Changes(d)
        BY <2>1, Effects
    <2>3. c = d
        BY <2>1, <2>2, ChangedFields
    <2>4. ASSUME v.present PROVE <<c, v.backendRef>> \in Requests
        <3>1. CASE store[c].present
            <4>1. store'[c].backendRef = store[c].backendRef
                BY <1>3, <2>2, <2>3, <2>4, <3>1, ChangedFields, ExpungedIsGone
            <4> QED
                BY <1>3, <2>0, <3>1, <4>1 DEF RequestsAgree
        <3>2. CASE ~store[c].present
            <4>1. Creates(c)
                BY <1>3, <2>2, <2>3, <2>4, <3>2, ChangedFields
            <4>2. PICK ref \in Claims \cup {None} : <<c, ref>> \in Requests /\ Commit(c, NewPVC(ref))
                BY <4>1 DEF Creates
            <4>3. store'[c] = [NewPVC(ref) EXCEPT !.rv = store[c].rv + 1]
                BY <4>2 DEF Commit, TypeOK
            <4>4. store'[c].backendRef = ref
                BY <4>3 DEF NewPVC, Absent
            <4> QED
                BY <1>3, <4>2, <4>4
        <3> QED
            BY <3>1, <3>2
    <2>5. ASSUME v.proxyRef # None PROVE <<v.proxyRef, c>> \in Requests
        <3>1. \/ store'[c].proxyRef \in {None, store[c].proxyRef}
              \/ ClaimsBackend(store'[c].proxyRef, c) /\ store'[c].proxyRef \in Claims
            BY <2>2, <2>3, ChangedFields
        <3>2. CASE store'[c].proxyRef \in {None, store[c].proxyRef}
            BY <1>3, <2>0, <2>5, <3>2 DEF RequestsAgree
        <3>3. ASSUME NEW p \in Claims, ClaimsBackend(p, c) PROVE <<p, c>> \in Requests
            <4>1. /\ proxyWorker[p].proxy \in Seen(p) /\ proxyWorker[p].proxy.present
                  /\ proxyWorker[p].proxy.backendRef = c
                BY <3>3 DEF Seen, ClaimsBackend, CopiesAgree, ProxyWorkersAgree
            <4> QED
                BY <4>1 DEF RequestsAgree
        <3> QED
            BY <1>3, <3>1, <3>2, <3>3
    <2> QED
        BY <2>4, <2>5
<1> QED
    BY <1>1, <1>2, <1>3

\* A present version is a request just made, or asks for what one asked for before.
LEMMA PresentFrom ==
    ASSUME TypeOK, CopiesAgree, [Next]_vars, NEW c \in Claims, NEW v \in Seen(c)', v.present
    PROVE  \/ \E u \in Seen(c) : u.present /\ u.backendRef = v.backendRef
           \/ v = store'[c] /\ Creates(c)
<1>1. v \in Seen(c) \/ v = store'[c]
    BY SeenGrows
<1>2. CASE v = store'[c] /\ v \notin Seen(c)
    <2>0. store[c] \in Seen(c)
        BY SeenTypes
    <2>1. PICK d \in Claims : Changes(d)
        BY <1>2, <2>0, Effects
    <2>2. c = d
        BY <1>2, <2>0, <2>1, ChangedFields
    <2> QED
        BY <1>2, <2>0, <2>1, <2>2, ChangedFields, ExpungedIsGone
<1> QED
    BY <1>1, <1>2

\* A claim of b for q was known before, or is made by a sync that has seen q ask for b.
LEMMA ClaimedFrom ==
    ASSUME TypeOK, CopiesAgree, [Next]_vars, NEW b \in Claims, NEW v \in Seen(b)',
           NEW q \in Claims, v.proxyRef = q
    PROVE  \/ \E u \in Seen(b) : u.proxyRef = q
           \/ \E u \in Seen(q) : u.present /\ u.backendRef = b
<1>1. v \in Seen(b) \/ v = store'[b]
    BY SeenGrows
<1>2. CASE v = store'[b] /\ v \notin Seen(b)
    <2>0. store[b] \in Seen(b)
        BY SeenTypes
    <2>1. PICK d \in Claims : Changes(d)
        BY <1>2, <2>0, Effects
    <2>2. b = d
        BY <1>2, <2>0, <2>1, ChangedFields
    <2>3. q \in {None, store[b].proxyRef} \/ ClaimsBackend(q, b)
        BY <1>2, <2>1, <2>2, ChangedFields
    <2>4. CASE ClaimsBackend(q, b)
        <3>1. /\ proxyWorker[q].proxy \in Seen(q) /\ proxyWorker[q].proxy.present
              /\ proxyWorker[q].proxy.backendRef = b
            BY <2>4 DEF Seen, ClaimsBackend, CopiesAgree, ProxyWorkersAgree
        <3> QED
            BY <3>1
    <2> QED
        BY <2>0, <2>3, <2>4, NoneAssumption
<1> QED
    BY <1>1, <1>2

LEMMA AskedOnceInductive ==
    ASSUME SameRequestOnReuse, TypeOK, CopiesAgree, RequestsAgree, AskedOnce, [Next]_vars
    PROVE  AskedOnce'
<1> SUFFICES ASSUME NEW p \in Claims, NEW v \in Seen(p)', v.present
             PROVE  /\ \A u \in Seen(p)' : u.present => u.backendRef = v.backendRef
                    /\ \A b \in Claims : \A u \in Seen(b)' : u.proxyRef = p => v.backendRef = b
    BY DEF AskedOnce
<1>1. ASSUME NEW u \in Seen(p), u.present, Creates(p) PROVE store'[p].backendRef = u.backendRef
    <2>1. store[p].rv > 0 /\ <<p, u.backendRef>> \in Requests
        BY <1>1, SeenWasCreated DEF RequestsAgree
    <2> QED
        BY <1>1, <2>1, CreatedAsBefore
<1>2. ASSUME NEW b \in Claims, NEW u \in Seen(b), u.proxyRef = p, Creates(p)
      PROVE  store'[p].backendRef = b
    <2>1. store[p].rv > 0 /\ <<p, b>> \in Requests
        BY <1>2, NoneAssumption DEF RequestsAgree, CopiesAgree, VersionsAgree
    <2> QED
        BY <1>2, <2>1, CreatedAsBefore
<1>3. \/ \E y \in Seen(p) : y.present /\ y.backendRef = v.backendRef
      \/ v = store'[p] /\ Creates(p)
    BY PresentFrom
<1>4. ASSUME NEW u \in Seen(p)', u.present PROVE u.backendRef = v.backendRef
    <2>1. \/ \E x \in Seen(p) : x.present /\ x.backendRef = u.backendRef
          \/ u = store'[p] /\ Creates(p)
        BY <1>4, PresentFrom
    <2> QED
        BY <1>1, <1>3, <2>1 DEF AskedOnce
<1>5. ASSUME NEW b \in Claims, NEW u \in Seen(b)', u.proxyRef = p PROVE v.backendRef = b
    <2>1. \/ \E x \in Seen(b) : x.proxyRef = p
          \/ \E x \in Seen(p) : x.present /\ x.backendRef = b
        BY <1>5, ClaimedFrom
    <2> QED
        BY <1>1, <1>2, <1>3, <2>1 DEF AskedOnce
<1> QED
    BY <1>4, <1>5

\* Only Expunge ends an object, and it ends one that is there.
LEMMA GoneInductive ==
    ASSUME Typed, CopiesAgree, WatchFollows, GoneWasThere, [Next]_vars
    PROVE  GoneWasThere'
<1> USE DEF Typed
<1> SUFFICES ASSUME NEW c \in Claims, ~store'[c].present, watch'[c] # <<>>
             PROVE  /\ Len(watch'[c]) = 1 => cached'[c].present
                    /\ Len(watch'[c]) > 1 => watch'[c][Len(watch'[c]) - 1].present
    BY DEF GoneWasThere
<1>0. watch[c] \in Seq(PVC) /\ watch \in [Claims -> Seq(PVC)] /\ store \in [Claims -> PVC]
    BY DEF TypeOK
<1>1. CASE UNCHANGED <<store[c], watch[c], cached[c]>>
    BY <1>1 DEF GoneWasThere
<1>2. ASSUME UNCHANGED cached, NEW pvc \in PVC, Commit(c, pvc)
      PROVE  /\ Len(watch'[c]) = 1 => cached'[c].present
             /\ Len(watch'[c]) > 1 => watch'[c][Len(watch'[c]) - 1].present
    <2> DEFINE new == [pvc EXCEPT !.rv = store[c].rv + 1]
    <2>1. /\ watch'[c] = Append(watch[c], new) /\ store'[c] = new
          /\ \A d \in Claims \ {c} : store'[d] = store[d]
        BY <1>0, <1>2 DEF Commit
    <2>2. new.rv = store[c].rv + 1 /\ store[c].rv \in Nat /\ new \in PVC
        <3>1. store[c].rv \in Nat /\ store[c].rv + 1 \in Nat
            BY <1>0 DEF PVC
        <3> QED
            BY <3>1, PVCUpdates DEF PVC
    <2> HIDE DEF new
    <2>3. store'[c] # store[c]
        BY <2>1, <2>2
    <2>4. PICK d \in Claims : Changes(d)
        BY <2>3, Effects
    <2>5. d = c
        BY <2>3, <2>4, ChangedFields
    <2>6. Expunges(c)
        BY <2>4, <2>5, ChangedFields
    <2>7. store[c].present
        BY <2>6, SeenTypes DEF Expunges, CopiesAgree, VersionsAgree, Absent
    <2>8. /\ Len(watch'[c]) = Len(watch[c]) + 1 /\ Len(watch[c]) \in Nat
          /\ \A j \in 1..Len(watch[c]) : watch'[c][j] = watch[c][j]
        BY <1>0, <2>1, <2>2, AppendProperties
    <2>9. CASE watch[c] = <<>>
        BY <1>2, <2>7, <2>8, <2>9 DEF WatchFollows
    <2>10. CASE watch[c] # <<>>
        <3>1. Len(watch[c]) \in 1..Len(watch[c]) /\ Len(watch'[c]) - 1 = Len(watch[c])
            BY <1>0, <2>8, <2>10, EmptySeq
        <3> QED
            BY <2>7, <2>8, <2>10, <3>1 DEF WatchFollows
    <2> QED
        BY <2>9, <2>10
<1>3. CASE Deliver(c)
    <2>1. /\ watch[c] # <<>> /\ store'[c] = store[c]
          /\ watch'[c] = Tail(watch[c]) /\ cached'[c] = Head(watch[c])
        BY <1>0, <1>3 DEF Deliver, TypeOK
    <2>2. /\ Head(watch[c]) = watch[c][1] /\ Len(watch[c]) \in Nat /\ Len(watch[c]) >= 1
          /\ watch'[c] \in Seq(PVC) /\ Len(watch'[c]) = Len(watch[c]) - 1
          /\ \A i \in 1..Len(watch'[c]) : watch'[c][i] = watch[c][i + 1]
        BY <1>0, <2>1, HeadTailProperties
    <2>3. Len(watch[c]) >= 2
        BY <2>2, EmptySeq
    <2>4. watch[c][Len(watch[c]) - 1].present
        BY <2>1, <2>2, <2>3 DEF GoneWasThere
    <2>5. CASE Len(watch'[c]) = 1
        <3>1. Len(watch[c]) - 1 = 1
            BY <2>2, <2>5
        <3>2. cached'[c] = watch[c][Len(watch[c]) - 1]
            BY <2>1, <2>2, <3>1
        <3> QED
            BY <2>4, <2>5, <3>2
    <2>6. CASE Len(watch'[c]) > 1
        <3>1. Len(watch'[c]) - 1 \in 1..Len(watch'[c]) /\ Len(watch'[c]) - 1 + 1 = Len(watch[c]) - 1
            BY <2>2, <2>3, <2>6
        <3>2. watch'[c][Len(watch'[c]) - 1] = watch[c][Len(watch[c]) - 1]
            BY <2>2, <3>1
        <3>3. Len(watch'[c]) # 1
            BY <2>2, <2>6
        <3> QED
            BY <2>4, <3>2, <3>3
    <2> QED
        BY <2>2, <2>3, <2>5, <2>6
<1>4. ASSUME NEW d \in Claims, d # c, Deliver(d) PROVE UNCHANGED <<store[c], watch[c], cached[c]>>
    BY <1>0, <1>4 DEF Deliver, TypeOK
<1>5. ASSUME NEW d \in Claims, d # c, NEW pvc \in PVC, Commit(d, pvc)
      PROVE  UNCHANGED <<store[c], watch[c]>>
    BY <1>0, <1>5 DEF Commit
<1>6. ~Restart
    BY DEF Restart
<1> QED
    BY <1>1, <1>2, <1>3, <1>4, <1>5, <1>6, WatchMoves

\* How a sync of the backend controller ends: it is not over, or it is queued again,
\* or the cache or the API server told it that the backend is not to be released.
LEMMA BackendStepOutcome ==
    ASSUME Typed, NEW b \in Claims, BackendStep(b)
    PROVE  LET w == backendWorker[b]
           IN  /\ \/ b \in queue'["backend"]
                  \/ /\ backendWorker'[b].pc # "idle"
                     /\ IF w.pc = "idle" THEN backendWorker'[b].backend = cached[b]
                                         ELSE backendWorker'[b].backend = w.backend
                  \/ /\ w.pc = "idle" /\ backendWorker'[b].pc = "idle"
                     /\ ~(/\ cached[b].present /\ cached[b].proxyRef # None
                          /\ ~cached[cached[b].proxyRef].present)
                  \/ /\ w.pc # "idle" /\ backendWorker'[b].pc = "idle"
                     /\ store[w.backend.proxyRef].present
                  \/ backendWorker'[b].pc = "idle" /\ \E pvc \in PVC : Commit(b, pvc)
               /\ w.pc # "idle" /\ b \in queue["backend"] => b \in queue'["backend"]
<1> DEFINE w == backendWorker[b]
<1>0. /\ queue \in [Controllers -> SUBSET Claims] /\ "backend" \in Controllers
      /\ backendWorker \in [Claims -> BackendWorker] /\ w \in BackendWorker
      /\ Requeue("backend", b) => b \in queue'["backend"]
      /\ BackendGoto(b, IdleWorker) => backendWorker'[b].pc = "idle"
    BY DEF Typed, TypeOK, Controllers, BackendWorker, BackendGoto, Requeue, IdleWorker
<1>1. CASE BackendSync(b)
    <2>1. w.pc = "idle"
        BY <1>1 DEF BackendSync
    <2>2. CASE BackendGoto(b, [IdleWorker EXCEPT !.pc = "get", !.backend = cached[b]])
        <3>1. backendWorker'[b] = [IdleWorker EXCEPT !.pc = "get", !.backend = cached[b]]
            BY <1>0, <2>2 DEF BackendGoto
        <3> QED
            BY <2>1, <3>1 DEF IdleWorker
    <2> QED
        BY <1>1, <2>1, <2>2 DEF BackendSync
<1>2. CASE BackendGetProxy(b)
    <2>1. w.pc = "get"
        BY <1>2 DEF BackendGetProxy
    <2>2. CASE BackendGoto(b, [w EXCEPT !.pc = "release"]) /\ UNCHANGED queue
        <3>1. backendWorker'[b] = [w EXCEPT !.pc = "release"]
            BY <1>0, <2>2 DEF BackendGoto
        <3>2. backendWorker'[b].pc = "release" /\ backendWorker'[b].backend = w.backend
            BY <1>0, <3>1 DEF BackendWorker
        <3> QED
            BY <2>1, <2>2, <3>2
    <2> QED
        BY <1>0, <1>2, <2>1, <2>2 DEF BackendGetProxy
<1>3. CASE releaseBackendPVC(b)
    <2>1. [w.backend EXCEPT !.proxyRef = None] \in PVC
        BY <1>0, PVCUpdates DEF BackendWorker
    <2> QED
        BY <1>0, <1>3, <2>1 DEF releaseBackendPVC, Write
<1> QED
    BY <1>1, <1>2, <1>3 DEF BackendStep

\* The last event of a proxy reaches the key of the backend that is held for it.
LEMMA OrphanIsQueuedByDelete ==
    ASSUME BackendsAskForNone, Typed, CopiesAgree, WatchFollows, RequestsAgree, AskedOnce,
           GoneWasThere, NEW b \in Claims, Orphaned(b), NEW d \in Claims, Deliver(d),
           d \in {b, store[b].proxyRef}, watch'[b] = <<>>, watch'[store[b].proxyRef] = <<>>
    PROVE  b \in queue'["backend"]
<1> DEFINE p == store[b].proxyRef
<1>0. /\ "backend" \in Controllers /\ p \in Claims /\ p # None /\ ~store[p].present
      /\ store[b] \in Seen(b) /\ cached[p] \in Seen(p)
    BY DEF Controllers, Orphaned, Seen, Typed, TypeOK, PVC
<1>1. store[b].present
    BY <1>0 DEF Orphaned, CopiesAgree, VersionsAgree, Absent
<1>2. CASE d = b
    <2>1. Enqueued(cached', b, store[b], "backend") \subseteq queue'["backend"]
        BY <1>0, <1>1, <1>2, LastDelivered
    <2> QED
        BY <1>0, <2>1 DEF Enqueued, enqueuePVCWithProxyRefDirectlyOrThroughAnnotation
<1>3. CASE d = p /\ b # p
    <2>1. Enqueued(cached', p, cached[p], "backend") \subseteq queue'["backend"]
        BY <1>0, <1>3, LastDelivered
    <2>2. cached'[b].present
        <3>1. watch[b] = <<>> /\ cached'[b] = cached[b]
            BY <1>3, LastDelivered
        <3> QED
            BY <1>1, <3>1 DEF WatchFollows
    <2>3. cached[p].present
        <3>1. watch[p] # <<>> /\ watch[p] \in Seq(PVC) /\ watch'[p] = Tail(watch[p])
            BY <1>0, <1>3 DEF Deliver, Typed, TypeOK
        <3>2. Len(watch[p]) = 1
            <4>1. /\ Len(Tail(watch[p])) = Len(watch[p]) - 1 /\ Len(watch[p]) \in Nat
                  /\ Tail(watch[p]) \in Seq(PVC)
                BY <3>1, HeadTailProperties
            <4>2. Len(Tail(watch[p])) = 0
                BY <3>1, <4>1, EmptySeq
            <4> QED
                BY <4>1, <4>2
        <3> QED
            BY <1>0, <3>1, <3>2 DEF GoneWasThere
    <2>4. <<p, b>> \in Requests /\ b # None
        BY <1>0, NoneAssumption DEF RequestsAgree
    <2>5. cached[p].proxyRef = None
        <3>1. SUFFICES ASSUME cached[p].proxyRef # None PROVE FALSE
            OBVIOUS
        <3>2. <<cached[p].proxyRef, p>> \in Requests
            BY <1>0, <3>1 DEF RequestsAgree
        <3>3. <<cached[p].proxyRef, p>>[2] = p /\ <<p, b>>[1] = p /\ <<p, b>>[2] = b
            OBVIOUS
        <3> QED
            BY <1>0, <2>4, <3>2, <3>3 DEF BackendsAskForNone
    <2>6. cached[p].backendRef = b
        BY <1>0, <2>3 DEF AskedOnce
    <2> QED
        BY <2>1, <2>2, <2>5, <2>6 DEF Enqueued, enqueuePVCWithProxyRefDirectlyOrThroughAnnotation
<1> QED
    BY <1>2, <1>3

\* A sync of a backend nobody will repeat looks for the right proxy, and goes on
\* until the backend is released, or the proxy is there.
LEMMA BackendWakeups ==
    ASSUME BackendsAskForNone, Typed, CopiesAgree, WatchFollows, OrphanInvariant, [Next]_vars
    PROVE  BackendSyncsCurrent' /\ OrphanIsQueued'
<1> USE DEF OrphanInvariant
<1>0. /\ "backend" \in Controllers
      /\ \A b \in Claims : store[b].proxyRef \in Claims \cup {None}
      /\ \A b \in Claims : store[b].proxyRef # None => store[b].present
    <2>1. \A b \in Claims : store[b] \in Seen(b) /\ store[b].proxyRef \in Claims \cup {None}
        BY DEF Seen, Typed, TypeOK, PVC
    <2> QED
        BY <2>1 DEF Controllers, CopiesAgree, VersionsAgree, Absent
<1>1. CASE Restart
    <2>1. \A c \in Claims : backendWorker'[c].pc = "idle" /\ UNCHANGED store
        BY <1>1 DEF Restart, IdleWorker
    <2>2. ASSUME NEW b \in Claims, store[b].proxyRef # None PROVE b \in queue'["backend"]
        <3>1. b \in Enqueued(store, b, store[b], "backend")
            BY <2>2 DEF Enqueued, enqueuePVCWithProxyRefDirectlyOrThroughAnnotation
        <3> QED
            BY <1>0, <1>1, <2>2, <3>1 DEF Restart
    <2> QED
        BY <2>1, <2>2 DEF BackendSyncsCurrent, OrphanIsQueued, Orphaned
<1>2. ASSUME NEW d \in Claims, Deliver(d) PROVE BackendSyncsCurrent' /\ OrphanIsQueued'
    <2>0. /\ UNCHANGED <<store, backendWorker>>
          /\ queue["backend"] \subseteq queue'["backend"]
          /\ \A c \in Claims \ {d} : watch'[c] = watch[c]
        BY <1>0, <1>2, LastDelivered DEF Typed, workerVars
    <2>1. ASSUME store[d].proxyRef # None, watch'[d] = <<>> PROVE d \in queue'["backend"]
        <3>1. Enqueued(cached', d, store[d], "backend") \subseteq queue'["backend"]
            BY <1>0, <1>2, <2>1, LastDelivered
        <3> QED
            BY <2>1, <3>1 DEF Enqueued, enqueuePVCWithProxyRefDirectlyOrThroughAnnotation
    <2>2. BackendSyncsCurrent'
        BY <2>0, <2>1 DEF BackendSyncsCurrent
    <2>3. ASSUME NEW b \in Claims, Orphaned(b), watch'[b] = <<>>, watch'[store[b].proxyRef] = <<>>
          PROVE  b \in queue'["backend"] \/ backendWorker[b].pc # "idle"
        <3>1. CASE d \in {b, store[b].proxyRef}
            BY <1>2, <2>3, <3>1, OrphanIsQueuedByDelete
        <3>2. CASE d \notin {b, store[b].proxyRef}
            BY <1>0, <2>0, <2>3, <3>2 DEF OrphanIsQueued, Orphaned
        <3> QED
            BY <3>1, <3>2
    <2> QED
        BY <2>0, <2>2, <2>3 DEF OrphanIsQueued, Orphaned
<1>3. ASSUME UNCHANGED cached, ~Restart,
             UNCHANGED <<store, watch>> \/ \E d \in Claims, pvc \in PVC : Commit(d, pvc)
      PROVE  BackendSyncsCurrent' /\ OrphanIsQueued'
    <2>0. \A c \in Claims : watch'[c] = <<>> => store'[c] = store[c] /\ watch[c] = <<>>
        BY <1>3, CommitIsLast
    <2>1. ASSUME NEW b \in Claims, store'[b].proxyRef # None, watch'[b] = <<>>,
                 b \notin queue'["backend"]
          PROVE  /\ backendWorker'[b].pc # "idle"
                        => backendWorker'[b].backend.proxyRef = store'[b].proxyRef
                 /\ Orphaned(b)' /\ watch'[store'[b].proxyRef] = <<>> => backendWorker'[b].pc # "idle"
        <3>0. store'[b] = store[b] /\ watch[b] = <<>> /\ cached[b] = store[b]
            BY <2>0, <2>1 DEF WatchFollows
        <3>1. CASE backendWorker'[b] = backendWorker[b] /\ (b \in queue["backend"] => b \in queue'["backend"])
            <4>1. backendWorker'[b].pc # "idle" => backendWorker'[b].backend.proxyRef = store'[b].proxyRef
                BY <2>1, <3>0, <3>1 DEF BackendSyncsCurrent
            <4>2. ASSUME Orphaned(b)', watch'[store'[b].proxyRef] = <<>>
                  PROVE  backendWorker'[b].pc # "idle"
                <5>1. store[b].proxyRef \in Claims
                    BY <1>0, <2>1, <3>0
                <5>2. Orphaned(b) /\ watch[store[b].proxyRef] = <<>>
                    BY <2>0, <3>0, <4>2, <5>1 DEF Orphaned
                <5> QED
                    BY <2>1, <3>0, <3>1, <5>2 DEF OrphanIsQueued
            <4> QED
                BY <4>1, <4>2
        <3>2. CASE BackendStep(b)
            <4> DEFINE w == backendWorker[b]
            <4>1. w.pc # "idle" => w.backend.proxyRef = store[b].proxyRef
                BY <2>1, <3>0, <3>2, BackendStepOutcome DEF BackendSyncsCurrent
            <4>2. ~\E pvc \in PVC : Commit(b, pvc)
                BY <2>1, CommitIsLast
            <4>3. backendWorker'[b].pc # "idle" => backendWorker'[b].backend.proxyRef = store'[b].proxyRef
                BY <2>1, <3>0, <3>2, <4>1, <4>2, BackendStepOutcome
            <4>4. ASSUME Orphaned(b)', watch'[store'[b].proxyRef] = <<>>
                  PROVE  backendWorker'[b].pc # "idle"
                <5>1. store[b].proxyRef \in Claims /\ store[b].present
                    BY <1>0, <2>1, <3>0
                <5>2. ~store[store[b].proxyRef].present /\ ~cached[store[b].proxyRef].present
                    BY <2>0, <3>0, <4>4, <5>1 DEF Orphaned, WatchFollows
                <5> QED
                    BY <2>1, <3>0, <3>2, <4>1, <4>2, <5>1, <5>2, BackendStepOutcome
            <4> QED
                BY <4>3, <4>4
        <3> QED
            BY <1>3, <3>1, <3>2, KeysWait DEF KeyWaits
    <2> QED
        BY <2>1 DEF BackendSyncsCurrent, OrphanIsQueued, Orphaned
<1> QED
    BY <1>1, <1>2, <1>3, WatchMoves

\* No wake-up of the backend controller is lost: a backend held for a proxy that is
\* gone is queued, being synced, or about to be, if a name is used again only for
\* the same request and no proxy serves as a backend.
THEOREM OrphanAlwaysQueued ==
    ASSUME SameRequestOnReuse, BackendsAskForNone
    PROVE  Spec => []OrphanIsQueued
<1>1. Init => OrphanInvariant
    <2> SUFFICES ASSUME Init PROVE OrphanInvariant
        OBVIOUS
    <2>1. \A c \in Claims : Seen(c) = {Absent(0)}
        BY NothingSeenFirst
    <2> QED
        BY <2>1, NoneAssumption DEF Init, Absent, OrphanInvariant, RequestsAgree, AskedOnce,
           GoneWasThere, BackendSyncsCurrent, OrphanIsQueued, Orphaned
<1>2. Typed /\ CopiesAgree /\ WakeupInvariant /\ OrphanInvariant /\ [Next]_vars => OrphanInvariant'
    <2> SUFFICES ASSUME Typed, CopiesAgree, WakeupInvariant, OrphanInvariant, [Next]_vars
                 PROVE  OrphanInvariant'
        OBVIOUS
    <2>1. RequestsAgree'
        BY RequestsInductive DEF Typed, OrphanInvariant
    <2>2. AskedOnce'
        BY AskedOnceInductive DEF Typed, OrphanInvariant
    <2>3. GoneWasThere'
        BY GoneInductive DEF OrphanInvariant, WakeupInvariant
    <2>4. BackendSyncsCurrent' /\ OrphanIsQueued'
        BY BackendWakeups DEF WakeupInvariant
    <2> QED
        BY <2>1, <2>2, <2>3, <2>4 DEF OrphanInvariant
<1>3. OrphanInvariant => OrphanIsQueued
    BY DEF OrphanInvariant
<1> QED
    BY <1>1, <1>2, <1>3, TypedAlways, CopiesAgreeAlways, WakeupsAlways, PTL DEF Spec
=============================================================================
