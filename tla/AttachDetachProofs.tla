------------------------- MODULE AttachDetachProofs -------------------------
(***************************************************************************)
(* Proofs about AttachDetach, for any nodes, pods, numbers of attachments, *)
(* of faults and of events the informer is behind.                         *)
(***************************************************************************)
EXTENDS AttachDetach, SequenceTheorems, TLAPS

-----------------------------------------------------------------------------
(***************************************************************************)
(* The views of the attachments.                                           *)
(***************************************************************************)

\* The head and the last of the views are views.
LEMMA ViewTypes ==
    ASSUME TypeOK
    PROVE  /\ Len(views) \in Nat \ {0}
           /\ \A i \in 1..Len(views) : views[i] \in View
           /\ Cache = views[1] /\ Cache \in View /\ Api \in View
<1>1. views \in Seq(View) /\ views # <<>>
  BY DEF TypeOK
<1>2. Len(views) \in Nat \ {0} /\ \A i \in 1..Len(views) : views[i] \in View
  BY <1>1
<1>3. Cache = views[1]
  BY <1>1 DEF Cache
<1> QED
  BY <1>2, <1>3 DEF Api

\* A write makes the last view and leaves the others.
LEMMA AfterCommit ==
    ASSUME TypeOK, NEW new \in View, Commit(new)
    PROVE  /\ views' \in Seq(View) /\ views' # <<>>
           /\ Len(views') = Len(views) + 1
           /\ \A i \in 1..Len(views) : views'[i] = views[i]
           /\ Api' = new
<1>1. views \in Seq(View)
  BY DEF TypeOK
<1>2. views' = Append(views, new)
  BY DEF Commit
<1> QED
  BY <1>1, <1>2 DEF Api

\* An event takes the first view away.
LEMMA AfterEvent ==
    ASSUME TypeOK, Len(views) > 1, views' = Tail(views)
    PROVE  /\ views' \in Seq(View) /\ views' # <<>>
           /\ Len(views') = Len(views) - 1
           /\ \A i \in 1..Len(views') : views'[i] = views[i + 1]
           /\ Api' = Api
<1>1. views \in Seq(View) /\ views # <<>> /\ Len(views) \in Nat
  BY DEF TypeOK
<1>2. /\ views' \in Seq(View)
      /\ Len(views') = Len(views) - 1
      /\ \A i \in 1..Len(views') : views'[i] = views[i + 1]
  BY <1>1, HeadTailProperties
<1>3. views'[Len(views')] = views[Len(views)]
  BY <1>1, <1>2
<1>4. views' # <<>>
  BY <1>1, <1>2
<1> QED
  BY <1>2, <1>3, <1>4 DEF Api

\* A restart keeps only the last.
LEMMA AfterRestart ==
    ASSUME TypeOK, views' = <<Api>>
    PROVE  /\ views' \in Seq(View) /\ views' # <<>>
           /\ Len(views') = 1
           /\ Api' = Api
  BY ViewTypes DEF Api

\* What the writers of backend attachments write is a view.
LEMMA WrittenViews ==
    ASSUME TypeOK, NEW n \in Nodes
    PROVE  /\ \A va \in VA : [Api EXCEPT !.backend[n] = [va EXCEPT !.rv = Api.backend[n].rv + 1]] \in View
           /\ [Api EXCEPT !.backend[n] = Absent(@.rv + 1)] \in View
           /\ \A u \in Nat : [Api EXCEPT !.proxy[n] = u] \in View
           /\ Api.backend[n] \in VA
           /\ Api.proxy \in [Nodes -> Nat] /\ Api.backend \in [Nodes -> VA]
<1>1. Api \in View
  BY ViewTypes
<1>2. Api.backend[n] \in VA
  BY <1>1 DEF View
<1>3. Api.backend[n].rv + 1 \in Nat
  BY <1>2 DEF VA
<1>4. Absent(Api.backend[n].rv + 1) \in VA
  BY <1>3 DEF VA, Absent
<1>5. \A va \in VA : [va EXCEPT !.rv = Api.backend[n].rv + 1] \in VA
  BY <1>3 DEF VA
<1> QED
  BY <1>1, <1>2, <1>4, <1>5 DEF View

-----------------------------------------------------------------------------
(***************************************************************************)
(* Type correctness.                                                       *)
(***************************************************************************)

\* What a call writes is an attachment.
LEMMA AppliedTypes ==
    ASSUME TypeOK, NEW p \in Pods, ApplyCall(p)
    PROVE  \E new \in View : Commit(new)
<1> DEFINE n == NodeOf[p]
           va == WithOwner(p, Api.backend[n])
<1>1. n \in Nodes
  BY NodeOfAssumption
<1>2. Api.backend[n] \in VA
  BY <1>1, WrittenViews
<1>3. worker[p].owner \in Nat
  BY DEF TypeOK, Worker
<1>4. va \in VA /\ [va EXCEPT !.finalizer = FALSE] \in VA
  BY <1>2, <1>3 DEF WithOwner, VA
<1>5. CASE RemoveBackend(n)
  BY <1>1, <1>5, WrittenViews DEF RemoveBackend
<1>6. CASE WriteBackend(n, va)
  BY <1>1, <1>4, <1>6, WrittenViews DEF WriteBackend
<1>7. CASE WriteBackend(n, [va EXCEPT !.finalizer = FALSE])
  BY <1>1, <1>4, <1>7, WrittenViews DEF WriteBackend
<1> QED
  BY <1>5, <1>6, <1>7 DEF ApplyCall

\* Every variable keeps its type: VolumeAttachments, pods, caches and syncs.
LEMMA TypeStep ==
    ASSUME TypeOK, [Next]_vars
    PROVE  TypeOK'
<1> USE NodeOfAssumption, KnownAssumption, BoundAssumption
<1>1. ASSUME NEW p \in Pods, CreatePod(p) \/ DeletePod(p) \/ RemovePod(p) PROVE TypeOK'
  BY <1>1 DEF TypeOK, CreatePod, DeletePod, RemovePod, apiVars
<1>2. ASSUME NEW n \in Nodes, CreateProxyAttachment(n) PROVE TypeOK'
  <2>1. uid + 1 \in Nat /\ uid' \in 0..MaxUid
    BY <1>2 DEF CreateProxyAttachment, TypeOK
  <2>2. views' \in Seq(View) /\ views' # <<>>
    BY <1>2, <2>1, WrittenViews, AfterCommit DEF CreateProxyAttachment
  <2> QED
    BY <1>2, <2>1, <2>2 DEF CreateProxyAttachment, TypeOK, podVars
<1>3. ASSUME NEW n \in Nodes, DeleteProxyAttachment(n) PROVE TypeOK'
  <2>1. views' \in Seq(View) /\ views' # <<>>
    BY <1>3, WrittenViews, AfterCommit DEF DeleteProxyAttachment
  <2> QED
    BY <1>3, <2>1 DEF DeleteProxyAttachment, TypeOK, podVars
<1>4. ASSUME NEW n \in Nodes, CollectGarbage(n) PROVE TypeOK'
  <2>1. [Api.backend[n] EXCEPT !.deleting = TRUE] \in VA
    BY WrittenViews DEF VA
  <2>2. views' \in Seq(View) /\ views' # <<>>
    BY <1>4, <2>1, WrittenViews, AfterCommit DEF CollectGarbage, WriteBackend, RemoveBackend
  <2> QED
    BY <1>4, <2>2 DEF CollectGarbage, TypeOK, podVars
<1>5. ASSUME NEW n \in Nodes, Attach(n) PROVE TypeOK'
  <2>1. [Api.backend[n] EXCEPT !.finalizer = TRUE, !.attached = TRUE] \in VA
    BY WrittenViews DEF VA
  <2>2. views' \in Seq(View) /\ views' # <<>>
    BY <1>5, <2>1, WrittenViews, AfterCommit DEF Attach, WriteBackend
  <2> QED
    BY <1>5, <2>2 DEF Attach, TypeOK, podVars
<1>6. ASSUME NEW n \in Nodes, Detach(n) PROVE TypeOK'
  <2>1. views' \in Seq(View) /\ views' # <<>>
    BY <1>6, WrittenViews, AfterCommit DEF Detach, RemoveBackend
  <2> QED
    BY <1>6, <2>1 DEF Detach, TypeOK, podVars
<1>7. ASSUME NEW p \in Pods, ObservePod(p) PROVE TypeOK'
  BY <1>7 DEF ObservePod, TypeOK, apiVars
<1>8. ASSUME NEW object \in Objects, Observe(object) PROVE TypeOK'
  BY <1>8 DEF Observe, PodsThroughObject, PodsThroughClaim, CachedPods, TypeOK, apiVars, podVars
<1>9. ASSUME ObserveAttachment PROVE TypeOK'
  <2>1. views' \in Seq(View) /\ views' # <<>>
    BY <1>9, AfterEvent DEF ObserveAttachment
  <2> QED
    BY <1>9, <2>1
    DEF ObserveAttachment, PodsThroughAttachment, PodsThroughClaim, CachedPods, TypeOK, podVars
<1>10. ASSUME NEW p \in Pods, SyncDone(p) PROVE TypeOK'
  BY <1>10 DEF SyncDone, TypeOK, apiVars, podVars
<1>11. ASSUME NEW p \in Pods, SyncVolume(p) PROVE TypeOK'
  <2>1. MakeOwner(p) \in Nat
    BY ViewTypes DEF MakeOwner, View
  <2> QED
    BY <1>11, <2>1 DEF SyncVolume, IdleWorker, Worker, TypeOK, apiVars, podVars
<1>12. ASSUME NEW p \in Pods, ReadAttachment(p) PROVE TypeOK'
  <2> DEFINE va == Cache.backend[NodeOf[p]]
  <2>1. va \in VA
    BY ViewTypes DEF View
  <2>2. va.rv \in Nat /\ va.present \in BOOLEAN
    BY <2>1 DEF VA
  <2>3. worker[p] \in Worker
    BY DEF TypeOK
  <2>4. /\ [worker[p] EXCEPT !.pc = "create"] \in Worker
        /\ IdleWorker \in Worker
        /\ [worker[p] EXCEPT !.pc = "update", !.rv = va.rv] \in Worker
    BY <2>2, <2>3 DEF Worker, IdleWorker
  <2>5. worker' \in [Pods -> Worker]
    BY <1>12, <2>2, <2>4 DEF ReadAttachment, TypeOK
  <2> QED
    BY <1>12, <2>5 DEF ReadAttachment, TypeOK, apiVars, podVars
<1>13. ASSUME NEW p \in Pods, Apply(p) PROVE TypeOK'
  <2>1. views' \in Seq(View) /\ views' # <<>>
    BY <1>13, AppliedTypes, AfterCommit DEF Apply
  <2> QED
    BY <1>13, <2>1 DEF Apply, IdleWorker, Worker, TypeOK, podVars
<1>14. ASSUME NEW p \in Pods, ApplyRefused(p) PROVE TypeOK'
  BY <1>14 DEF ApplyRefused, IdleWorker, Worker, TypeOK, apiVars, podVars
<1>15. ASSUME NEW p \in Pods, ApplyFails(p) PROVE TypeOK'
  <2>1. views' \in Seq(View) /\ views' # <<>>
    <3>1. CASE ApplyCall(p)
      BY <3>1, AppliedTypes, AfterCommit
    <3>2. CASE UNCHANGED views
      BY <3>2 DEF TypeOK
    <3> QED
      BY <1>15, <3>1, <3>2 DEF ApplyFails
  <2> QED
    BY <1>15, <2>1 DEF ApplyFails, IdleWorker, Worker, TypeOK, podVars
<1>16. ASSUME Restart PROVE TypeOK'
  <2>1. views' \in Seq(View) /\ views' # <<>>
    BY <1>16, AfterRestart DEF Restart
  <2> QED
    BY <1>16, <2>1 DEF Restart, IdleWorker, Worker, TypeOK
<1>17. CASE UNCHANGED vars
  BY <1>17 DEF TypeOK, vars
<1> QED
  BY <1>1, <1>2, <1>3, <1>4, <1>5, <1>6, <1>7, <1>8, <1>9, <1>10, <1>11, <1>12, <1>13,
     <1>14, <1>15, <1>16, <1>17
  DEF Next, Kubernetes, AttacherAndGarbageCollector, Informers, Syncing

LEMMA TypeInit ==
    ASSUME Init
    PROVE  TypeOK
<1>1. Absent(0) \in VA
  BY DEF Absent, VA
<1>2. [proxy |-> [n \in Nodes |-> 0], backend |-> [n \in Nodes |-> Absent(0)]] \in View
  BY <1>1 DEF View
<1> QED
  BY <1>2, KnownAssumption, BoundAssumption DEF Init, TypeOK, IdleWorker, Worker

\* The controller's state and the attachments keep their types.
THEOREM TypeCorrect == Spec => []TypeOK
  BY TypeInit, TypeStep, PTL DEF Spec

-----------------------------------------------------------------------------
(***************************************************************************)
(* Exclusive attachment.  A sync goes on only after the cache showed it,   *)
(* in one view, its proxy attachment and no backend attachment of another  *)
(* node.  As a proxy attachment's UID does not come back, and no other     *)
(* proxy attachment exists beside it, an attachment another node has in a  *)
(* later view was made too late, or the proxy attachment is gone there.    *)
(***************************************************************************)

\* UIDs in use have been given out.
UidsGiven ==
    /\ \A i \in 1..Len(views), n \in Nodes : views[i].proxy[n] <= uid
    /\ \A p \in Pods : worker[p].owner <= uid

\* The proxy volume has one attachment.
OneProxyAttachment ==
    \A m, n \in Nodes : Api.proxy[m] # 0 /\ Api.proxy[n] # 0 => m = n

\* Where the proxy attachment of n stays, no other node gets a backend attachment in time.
NoneBeside(i, j, m, n) ==
    /\ views[i].proxy[n] # 0
    /\ ~views[i].backend[m].present
    /\ views[j].proxy[n] = views[i].proxy[n]
    => ~MadeInTime(views[j].backend[m])

ViewsInOrder ==
    \A i, j \in 1..Len(views) : i < j =>
        \A m, n \in Nodes : m # n => NoneBeside(i, j, m, n)

\* A sync in progress for a proxy attachment that is still there.
SyncsAreSafe ==
    \A p \in Pods : worker[p].pc # "idle" =>
        /\ worker[p].owner # 0
        /\ Api.proxy[NodeOf[p]] = worker[p].owner =>
              \A m \in Nodes \ {NodeOf[p]} : ~MadeInTime(Api.backend[m])

ExclusiveInv ==
    /\ UidsGiven
    /\ OneProxyAttachment
    /\ ViewsInOrder
    /\ SyncsAreSafe
    /\ ExclusivelyAttached

\* What every write does to the last view: a UID is new, and a backend attachment
\* is made in time only while its node has the proxy attachment.
Extends(new) ==
    /\ Commit(new)
    /\ uid' \in Nat /\ uid <= uid'
    /\ \A n \in Nodes :
          \/ new.proxy[n] = Api.proxy[n]
          \/ new.proxy[n] = 0
          \/ /\ new.proxy[n] = uid + 1 /\ uid' = uid + 1
             /\ \A m \in Nodes : Api.proxy[m] = 0 /\ (m # n => new.proxy[m] = 0)
    /\ \A m \in Nodes : MadeInTime(new.backend[m]) /\ ~MadeInTime(Api.backend[m])
                          => Api.proxy[m] # 0 /\ new.proxy = Api.proxy

\* It makes one node's only.
Alone(new) ==
    \A m, k \in Nodes :
        /\ m # k
        /\ MadeInTime(new.backend[m]) /\ ~MadeInTime(Api.backend[m])
        => ~MadeInTime(new.backend[k])

\* No sync starts, and none changes its owner.
SyncsGoOn ==
    \A p \in Pods :
        /\ worker'[p].pc # "idle" => /\ worker[p].pc # "idle"
                                     /\ worker'[p].owner = worker[p].owner
        /\ worker'[p].owner \in {0, worker[p].owner}

\* A write that extends the views keeps the invariant.
LEMMA ExtendsKeepsInv ==
    ASSUME TypeOK, ExclusiveInv, NEW new \in View, Extends(new), Alone(new), SyncsGoOn
    PROVE  ExclusiveInv'
<1> DEFINE L == Len(views)
<1>1. /\ Len(views') = L + 1 /\ Api' = new /\ views'[L + 1] = new
      /\ \A i \in 1..L : views'[i] = views[i]
      /\ L \in Nat \ {0} /\ Api = views[L]
  <2>1. Commit(new)
    BY DEF Extends
  <2> QED
    BY <2>1, AfterCommit, ViewTypes DEF Api
<1>2. uid \in Nat /\ uid' \in Nat /\ uid <= uid'
  BY DEF TypeOK, Extends
<1>3. \A i \in 1..L, n \in Nodes : views[i].proxy[n] \in Nat
  BY ViewTypes DEF View
<1>4. \A p \in Pods : worker[p].owner \in Nat
  BY DEF TypeOK, Worker
<1>5. \A n \in Nodes : new.proxy[n] \in Nat /\ new.proxy[n] <= uid'
  BY <1>1, <1>2, <1>3 DEF ExclusiveInv, UidsGiven, Extends
<1>6. UidsGiven'
  <2>1. \A i \in 1..(L + 1), n \in Nodes : views'[i].proxy[n] <= uid'
    BY <1>1, <1>2, <1>3, <1>5 DEF ExclusiveInv, UidsGiven
  <2>2. \A p \in Pods : worker'[p].owner <= uid'
    BY <1>2, <1>4 DEF ExclusiveInv, UidsGiven, SyncsGoOn
  <2> QED
    BY <1>1, <2>1, <2>2 DEF UidsGiven
<1>7. OneProxyAttachment'
  BY <1>1 DEF ExclusiveInv, OneProxyAttachment, Extends
<1>8. ASSUME NEW m \in Nodes, NEW n \in Nodes, m # n, NEW u \in Nat, u # 0, u <= uid,
             new.proxy[n] = u, ~MadeInTime(Api.backend[m]) \/ Api.proxy[n] # u
      PROVE  ~MadeInTime(new.backend[m])
  <2>1. Api.proxy[n] = u
    BY <1>2, <1>8 DEF Extends
  <2>2. Api.proxy[m] = 0
    BY <1>8, <2>1 DEF ExclusiveInv, OneProxyAttachment
  <2> QED
    BY <1>8, <2>1, <2>2 DEF Extends
<1>9. ViewsInOrder'
  <2> SUFFICES ASSUME NEW i \in 1..(L + 1), NEW j \in 1..(L + 1), i < j,
                      NEW m \in Nodes, NEW n \in Nodes, m # n
               PROVE  NoneBeside(i, j, m, n)'
    BY <1>1 DEF ViewsInOrder
  <2>1. CASE j \in 1..L
    BY <1>1, <2>1 DEF ExclusiveInv, ViewsInOrder, NoneBeside
  <2>2. CASE j = L + 1
    <3> SUFFICES ASSUME views[i].proxy[n] # 0, ~views[i].backend[m].present,
                        new.proxy[n] = views[i].proxy[n]
                 PROVE  ~MadeInTime(new.backend[m])
      BY <1>1, <2>2 DEF NoneBeside
    <3>1. i \in 1..L /\ views[i].proxy[n] \in Nat /\ views[i].proxy[n] <= uid
      BY <1>1, <1>3, <2>2 DEF ExclusiveInv, UidsGiven
    <3>2. ~MadeInTime(Api.backend[m]) \/ Api.proxy[n] # views[i].proxy[n]
      <4>1. CASE i = L
        BY <1>1, <4>1 DEF MadeInTime
      <4>2. CASE i < L
        <5>1. NoneBeside(i, L, m, n)
          BY <1>1, <3>1, <4>2 DEF ExclusiveInv, ViewsInOrder
        <5> QED
          BY <1>1, <5>1 DEF NoneBeside
      <4> QED
        BY <1>1, <3>1, <4>1, <4>2
    <3> QED
      BY <1>8, <3>1, <3>2
  <2> QED
    BY <1>1, <2>1, <2>2
<1>10. SyncsAreSafe'
  <2> SUFFICES ASSUME NEW p \in Pods, worker'[p].pc # "idle"
               PROVE  /\ worker'[p].owner # 0
                      /\ new.proxy[NodeOf[p]] = worker'[p].owner =>
                            \A m \in Nodes \ {NodeOf[p]} : ~MadeInTime(new.backend[m])
    BY <1>1 DEF SyncsAreSafe
  <2>1. worker[p].pc # "idle" /\ worker'[p].owner = worker[p].owner
    BY DEF SyncsGoOn
  <2>2. worker[p].owner \in Nat /\ worker[p].owner # 0 /\ worker[p].owner <= uid
    BY <1>4, <2>1 DEF ExclusiveInv, SyncsAreSafe, UidsGiven
  <2>3. NodeOf[p] \in Nodes
    BY NodeOfAssumption
  <2>4. ASSUME NEW m \in Nodes \ {NodeOf[p]}, new.proxy[NodeOf[p]] = worker[p].owner
        PROVE  ~MadeInTime(new.backend[m])
    <3>1. ~MadeInTime(Api.backend[m]) \/ Api.proxy[NodeOf[p]] # worker[p].owner
      BY <2>1 DEF ExclusiveInv, SyncsAreSafe
    <3> QED
      BY <1>8, <2>2, <2>3, <2>4, <3>1
  <2> QED
    BY <2>1, <2>2, <2>4
<1>11. ExclusivelyAttached'
  BY <1>1 DEF ExclusiveInv, ExclusivelyAttached, Alone
<1> QED
  BY <1>6, <1>7, <1>9, <1>10, <1>11 DEF ExclusiveInv

\* A step that leaves the views and starts no sync keeps it.
LEMMA SameViewsKeepInv ==
    ASSUME TypeOK, ExclusiveInv, UNCHANGED <<views, uid>>, SyncsGoOn
    PROVE  ExclusiveInv'
<1>1. Api' = Api
  BY DEF Api
<1>2. UidsGiven'
  BY DEF ExclusiveInv, UidsGiven, SyncsGoOn, TypeOK
<1>3. ViewsInOrder'
  BY DEF ExclusiveInv, ViewsInOrder, NoneBeside
<1>4. SyncsAreSafe'
  BY <1>1 DEF ExclusiveInv, SyncsAreSafe, SyncsGoOn
<1> QED
  BY <1>1, <1>2, <1>3, <1>4 DEF ExclusiveInv, OneProxyAttachment, ExclusivelyAttached

\* So does a step that drops views from the front.
LEMMA ShorterViewsKeepInv ==
    ASSUME TypeOK, ExclusiveInv, NEW d \in Nat, Len(views') \in Nat, Len(views') + d = Len(views),
           \A i \in 1..Len(views') : views'[i] = views[i + d],
           Api' = Api, UNCHANGED uid, SyncsGoOn
    PROVE  ExclusiveInv'
<1>1. Len(views) \in Nat
  BY ViewTypes
<1>2. \A i \in 1..Len(views') : i + d \in 1..Len(views)
  BY <1>1
<1>3. UidsGiven'
  <2>1. \A i \in 1..Len(views'), n \in Nodes : views'[i].proxy[n] <= uid
    BY <1>2 DEF ExclusiveInv, UidsGiven
  <2>2. \A p \in Pods : worker'[p].owner <= uid
    BY DEF ExclusiveInv, UidsGiven, SyncsGoOn, TypeOK
  <2> QED
    BY <2>1, <2>2 DEF UidsGiven
<1>4. ViewsInOrder'
  <2> SUFFICES ASSUME NEW i \in 1..Len(views'), NEW j \in 1..Len(views'), i < j,
                      NEW m \in Nodes, NEW n \in Nodes, m # n
               PROVE  NoneBeside(i, j, m, n)'
    BY DEF ViewsInOrder
  <2>1. i + d \in 1..Len(views) /\ j + d \in 1..Len(views) /\ i + d < j + d
    BY <1>2
  <2>2. NoneBeside(i + d, j + d, m, n)
    BY <2>1 DEF ExclusiveInv, ViewsInOrder
  <2> QED
    BY <2>2 DEF NoneBeside
<1>5. SyncsAreSafe'
  BY DEF ExclusiveInv, SyncsAreSafe, SyncsGoOn
<1> QED
  BY <1>3, <1>4, <1>5 DEF ExclusiveInv, OneProxyAttachment, ExclusivelyAttached

\* A sync that starts has seen its proxy attachment and no attachment elsewhere.
LEMMA StartKeepsInv ==
    ASSUME TypeOK, ExclusiveInv, ~IsMultiAttachAllowed, NamedByHandle,
           NEW p \in Pods, SyncVolume(p)
    PROVE  ExclusiveInv'
<1> DEFINE n == NodeOf[p]
           u == Cache.proxy[n]
<1>1. n \in Nodes
  BY NodeOfAssumption
<1>2. /\ Len(views) \in Nat \ {0} /\ Cache = views[1] /\ Cache \in View
      /\ Api = views[Len(views)] /\ Api' = Api
  BY ViewTypes DEF SyncVolume, apiVars, Api
<1>3. u # 0 /\ u \in Nat
  BY <1>1, <1>2 DEF SyncVolume, ReadyToAttach, View
<1>4. \A m \in Nodes \ {n} : ~Cache.backend[m].present
  BY DEF SyncVolume, ExclusivelyAttachedElsewhere, VolumeAttachedNodes
<1>5. worker'[p] = [IdleWorker EXCEPT !.pc = "read", !.owner = u]
      /\ \A q \in Pods \ {p} : worker'[q] = worker[q]
  BY DEF SyncVolume, MakeOwner, TypeOK
<1>6. worker'[p].owner = u
  BY <1>5 DEF IdleWorker
<1>7. UNCHANGED <<views, uid>>
  BY DEF SyncVolume, apiVars
<1>8. u <= uid
  BY <1>1, <1>2 DEF ExclusiveInv, UidsGiven
<1>9. UidsGiven'
  BY <1>5, <1>6, <1>7, <1>8 DEF ExclusiveInv, UidsGiven
<1>10. ViewsInOrder'
  BY <1>7 DEF ExclusiveInv, ViewsInOrder, NoneBeside
<1>11. ASSUME Api.proxy[n] = u, NEW m \in Nodes \ {n} PROVE ~MadeInTime(Api.backend[m])
  <2>0. Len(views) = 1 \/ Len(views) > 1
    BY ViewTypes
  <2>1. CASE Len(views) = 1
    BY <1>2, <1>4, <2>1 DEF MadeInTime
  <2>2. CASE Len(views) > 1
    <3>1. 1 \in 1..Len(views) /\ Len(views) \in 1..Len(views) /\ 1 < Len(views)
      BY <1>2, <2>2
    <3>2. NoneBeside(1, Len(views), m, n)
      BY <1>1, <3>1 DEF ExclusiveInv, ViewsInOrder
    <3>3. views[1].proxy[n] = u /\ u # 0 /\ ~views[1].backend[m].present
      BY <1>2, <1>3, <1>4
    <3>4. views[Len(views)].proxy[n] = u
      BY <1>2, <1>11
    <3> QED
      BY <1>2, <3>2, <3>3, <3>4 DEF NoneBeside
  <2> QED
    BY <2>0, <2>1, <2>2
<1>12. SyncsAreSafe'
  <2> SUFFICES ASSUME NEW q \in Pods, worker'[q].pc # "idle"
               PROVE  /\ worker'[q].owner # 0
                      /\ Api.proxy[NodeOf[q]] = worker'[q].owner =>
                            \A m \in Nodes \ {NodeOf[q]} : ~MadeInTime(Api.backend[m])
    BY <1>2 DEF SyncsAreSafe
  <2>1. CASE q = p
    BY <1>3, <1>6, <1>11, <2>1
  <2>2. CASE q # p
    BY <1>5, <2>2 DEF ExclusiveInv, SyncsAreSafe
  <2> QED
    BY <2>1, <2>2
<1> QED
  BY <1>2, <1>9, <1>10, <1>12 DEF ExclusiveInv, OneProxyAttachment, ExclusivelyAttached

\* The controller's call makes an attachment in time only for a proxy attachment
\* that is there, and then none is beside it.
LEMMA CallExtends ==
    ASSUME TypeOK, ExclusiveInv, NEW p \in Pods, ApplyCall(p), UNCHANGED uid
    PROVE  \E new \in View : Extends(new) /\ Alone(new)
<1> DEFINE n == NodeOf[p]
           Change(new) ==
             /\ new \in View
             /\ Commit(new)
             /\ new.proxy = Api.proxy
             /\ \A m \in Nodes \ {n} : new.backend[m] = Api.backend[m]
             /\ MadeInTime(new.backend[n]) => Api.proxy[n] = worker[p].owner
<1>1. n \in Nodes /\ Api \in View /\ Api.backend[n] \in VA
  BY NodeOfAssumption, WrittenViews, ViewTypes
<1>2. worker[p].pc # "idle" /\ worker[p].owner \in Nat /\ worker[p].owner # 0
  BY DEF ApplyCall, ExclusiveInv, SyncsAreSafe, TypeOK, Worker
<1>3. PICK new : Change(new)
  <2> DEFINE va == WithOwner(p, Api.backend[n])
             removed == [Api EXCEPT !.backend[n] = Absent(@.rv + 1)]
             made1 == [Api EXCEPT !.backend[n] = [va EXCEPT !.rv = Api.backend[n].rv + 1]]
             made2 == [Api EXCEPT !.backend[n] =
                         [[va EXCEPT !.finalizer = FALSE] EXCEPT !.rv = Api.backend[n].rv + 1]]
  <2>1. va \in VA /\ va.orphan = (Api.proxy[n] # worker[p].owner)
    BY <1>1, <1>2 DEF WithOwner, VA
  <2>2. [va EXCEPT !.finalizer = FALSE] \in VA
    BY <2>1 DEF VA
  <2>3. removed \in View /\ made1 \in View /\ made2 \in View
    BY <1>1, <2>1, <2>2, WrittenViews
  <2>4. removed.backend[n] = Absent(Api.backend[n].rv + 1)
    BY <1>1 DEF View
  <2>5. made1.backend[n].orphan = va.orphan /\ made2.backend[n].orphan = va.orphan
    <3>1. made1.backend[n] = [va EXCEPT !.rv = Api.backend[n].rv + 1]
      BY <1>1 DEF View
    <3>2. made2.backend[n] = [[va EXCEPT !.finalizer = FALSE] EXCEPT !.rv = Api.backend[n].rv + 1]
      BY <1>1 DEF View
    <3>3. [va EXCEPT !.rv = Api.backend[n].rv + 1].orphan = va.orphan
      BY <2>1 DEF VA
    <3>4. [[va EXCEPT !.finalizer = FALSE] EXCEPT !.rv = Api.backend[n].rv + 1].orphan = va.orphan
      BY <2>1 DEF VA
    <3> QED
      BY <3>1, <3>2, <3>3, <3>4
  <2>6. ~MadeInTime(removed.backend[n])
    BY <2>4 DEF MadeInTime, Absent
  <2>7. \A new \in {removed, made1, made2} :
           /\ new.proxy = Api.proxy
           /\ \A m \in Nodes \ {n} : new.backend[m] = Api.backend[m]
    BY <1>1 DEF View
  <2>8. Commit(removed) \/ Commit(made1) \/ Commit(made2)
    BY DEF ApplyCall, WriteBackend, RemoveBackend
  <2>9. CASE Commit(removed)
    BY <2>3, <2>6, <2>7, <2>9
  <2>10. CASE Commit(made1)
    BY <2>1, <2>3, <2>5, <2>7, <2>10 DEF MadeInTime
  <2>11. CASE Commit(made2)
    BY <2>1, <2>3, <2>5, <2>7, <2>11 DEF MadeInTime
  <2> QED
    BY <2>8, <2>9, <2>10, <2>11
<1>4. Extends(new)
  BY <1>1, <1>2, <1>3 DEF Extends, TypeOK
<1>5. Alone(new)
  <2>1. MadeInTime(new.backend[n]) => \A k \in Nodes \ {n} : ~MadeInTime(new.backend[k])
    BY <1>2, <1>3 DEF ExclusiveInv, SyncsAreSafe
  <2> QED
    BY <1>1, <1>3, <2>1 DEF Alone
<1> QED
  BY <1>3, <1>4, <1>5

\* So do the writes of the others, which make no backend attachment.
LEMMA OthersExtend ==
    ASSUME TypeOK, ExclusiveInv, NEW n \in Nodes,
           \/ CreateProxyAttachment(n)
           \/ DeleteProxyAttachment(n)
           \/ AttacherAndGarbageCollector(n)
    PROVE  \E new \in View : Extends(new) /\ Alone(new)
<1>0. uid \in Nat /\ uid + 1 \in Nat
  BY DEF TypeOK
<1>1. Api \in View /\ Api.backend[n] \in VA /\ uid \in Nat
  BY <1>0, WrittenViews, ViewTypes
<1>2. CASE CreateProxyAttachment(n)
  <2> DEFINE new == [Api EXCEPT !.proxy[n] = uid + 1]
  <2>1. new \in View /\ Commit(new) /\ uid' = uid + 1
    BY <1>0, <1>2, WrittenViews DEF CreateProxyAttachment
  <2>2. /\ new.backend = Api.backend /\ new.proxy[n] = uid + 1
        /\ \A m \in Nodes \ {n} : new.proxy[m] = Api.proxy[m]
    BY <1>1 DEF View
  <2>3. \A m \in Nodes : Api.proxy[m] = 0
    BY <1>2 DEF CreateProxyAttachment
  <2>4. Extends(new)
    BY <1>1, <2>1, <2>2, <2>3 DEF Extends
  <2> QED
    BY <2>1, <2>2, <2>4 DEF Alone
<1>3. CASE DeleteProxyAttachment(n)
  <2> DEFINE new == [Api EXCEPT !.proxy[n] = 0]
  <2>1. new \in View /\ Commit(new) /\ uid' = uid
    BY <1>1, <1>3, WrittenViews DEF DeleteProxyAttachment
  <2>2. /\ new.backend = Api.backend /\ new.proxy[n] = 0
        /\ \A m \in Nodes \ {n} : new.proxy[m] = Api.proxy[m]
    BY <1>1 DEF View
  <2>3. Extends(new)
    BY <1>1, <2>1, <2>2 DEF Extends
  <2> QED
    BY <2>1, <2>2, <2>3 DEF Alone
<1>4. CASE AttacherAndGarbageCollector(n)
  <2> DEFINE Change(new) ==
               /\ new \in View
               /\ Commit(new)
               /\ new.proxy = Api.proxy
               /\ \A m \in Nodes \ {n} : new.backend[m] = Api.backend[m]
               /\ MadeInTime(new.backend[n]) => MadeInTime(Api.backend[n])
  <2>1. uid' = uid
    BY <1>4 DEF AttacherAndGarbageCollector, CollectGarbage, Attach, Detach
  <2>2. PICK new : Change(new)
    <3>1. CASE RemoveBackend(n)
      <4> DEFINE removed == [Api EXCEPT !.backend[n] = Absent(@.rv + 1)]
      <4>1. removed \in View /\ Commit(removed)
        BY <3>1, WrittenViews DEF RemoveBackend
      <4>2. /\ removed.proxy = Api.proxy
            /\ removed.backend[n] = Absent(Api.backend[n].rv + 1)
            /\ \A m \in Nodes \ {n} : removed.backend[m] = Api.backend[m]
        BY <1>1 DEF View
      <4>3. ~MadeInTime(removed.backend[n])
        BY <4>2 DEF MadeInTime, Absent
      <4> QED
        BY <4>1, <4>2, <4>3
    <3>2. ASSUME NEW va \in VA, va.present = Api.backend[n].present,
                 va.orphan = Api.backend[n].orphan, WriteBackend(n, va)
          PROVE  \E new : Change(new)
      <4> DEFINE next == [Api EXCEPT !.backend[n] = [va EXCEPT !.rv = Api.backend[n].rv + 1]]
      <4>1. next \in View /\ Commit(next)
        BY <3>2, WrittenViews DEF WriteBackend
      <4>2. /\ next.proxy = Api.proxy
            /\ next.backend[n] = [va EXCEPT !.rv = Api.backend[n].rv + 1]
            /\ \A m \in Nodes \ {n} : next.backend[m] = Api.backend[m]
        BY <1>1 DEF View
      <4>3. [va EXCEPT !.rv = Api.backend[n].rv + 1].present = va.present
            /\ [va EXCEPT !.rv = Api.backend[n].rv + 1].orphan = va.orphan
        BY DEF VA
      <4>4. MadeInTime(next.backend[n]) => MadeInTime(Api.backend[n])
        BY <3>2, <4>2, <4>3 DEF MadeInTime
      <4> QED
        BY <4>1, <4>2, <4>4
    <3>3. CASE WriteBackend(n, [Api.backend[n] EXCEPT !.deleting = TRUE])
      BY <1>1, <3>2, <3>3 DEF VA
    <3>4. CASE WriteBackend(n, [Api.backend[n] EXCEPT !.finalizer = TRUE, !.attached = TRUE])
      BY <1>1, <3>2, <3>4 DEF VA
    <3> QED
      BY <1>4, <3>1, <3>3, <3>4 DEF AttacherAndGarbageCollector, CollectGarbage, Attach, Detach
  <2>3. Extends(new)
    BY <1>1, <2>1, <2>2 DEF Extends
  <2>4. Alone(new)
    BY <2>2 DEF Alone, ExclusiveInv, ExclusivelyAttached
  <2> QED
    BY <2>2, <2>3, <2>4
<1> QED
  BY <1>2, <1>3, <1>4

LEMMA ExclusiveStep ==
    ASSUME TypeOK, ExclusiveInv, ~IsMultiAttachAllowed, NamedByHandle, [Next]_vars
    PROVE  ExclusiveInv'
<1>1. ASSUME NEW p \in Pods, CreatePod(p) \/ DeletePod(p) \/ RemovePod(p) PROVE ExclusiveInv'
  BY <1>1, SameViewsKeepInv DEF CreatePod, DeletePod, RemovePod, apiVars, SyncsGoOn
<1>2. ASSUME NEW n \in Nodes, CreateProxyAttachment(n) PROVE ExclusiveInv'
  BY <1>2, OthersExtend, ExtendsKeepsInv DEF CreateProxyAttachment, SyncsGoOn
<1>3. ASSUME NEW n \in Nodes, DeleteProxyAttachment(n) PROVE ExclusiveInv'
  BY <1>3, OthersExtend, ExtendsKeepsInv DEF DeleteProxyAttachment, SyncsGoOn
<1>4. ASSUME NEW n \in Nodes, AttacherAndGarbageCollector(n) PROVE ExclusiveInv'
  <2>1. UNCHANGED worker
    BY <1>4 DEF AttacherAndGarbageCollector, CollectGarbage, Attach, Detach
  <2> QED
    BY <1>4, <2>1, OthersExtend, ExtendsKeepsInv DEF SyncsGoOn
<1>5. ASSUME NEW p \in Pods, ObservePod(p) PROVE ExclusiveInv'
  BY <1>5, SameViewsKeepInv DEF ObservePod, apiVars, SyncsGoOn
<1>6. ASSUME NEW object \in Objects, Observe(object) PROVE ExclusiveInv'
  BY <1>6, SameViewsKeepInv DEF Observe, apiVars, SyncsGoOn
<1>7. ASSUME ObserveAttachment PROVE ExclusiveInv'
  <2>1. SyncsGoOn /\ uid' = uid
    BY <1>7 DEF ObserveAttachment, SyncsGoOn
  <2>2. /\ Len(views') \in Nat /\ Len(views') + 1 = Len(views)
        /\ \A i \in 1..Len(views') : views'[i] = views[i + 1]
        /\ Api' = Api
    BY <1>7, AfterEvent, ViewTypes DEF ObserveAttachment
  <2> QED
    BY <2>1, <2>2, ShorterViewsKeepInv
<1>8. ASSUME NEW p \in Pods, SyncDone(p) PROVE ExclusiveInv'
  BY <1>8, SameViewsKeepInv DEF SyncDone, apiVars, SyncsGoOn
<1>9. ASSUME NEW p \in Pods, SyncVolume(p) PROVE ExclusiveInv'
  BY <1>9, StartKeepsInv
<1>10. ASSUME NEW p \in Pods, ReadAttachment(p) PROVE ExclusiveInv'
  <2>1. worker[p] \in Worker
    BY DEF TypeOK
  <2>2. \A rv \in Nat : /\ [worker[p] EXCEPT !.pc = "create"].owner = worker[p].owner
                        /\ [worker[p] EXCEPT !.pc = "update", !.rv = rv].owner = worker[p].owner
    BY <2>1 DEF Worker
  <2>3. Cache.backend[NodeOf[p]] \in VA
    BY ViewTypes, NodeOfAssumption DEF View
  <2>4. worker'[p] = IdleWorker \/ worker'[p].owner = worker[p].owner
    BY <1>10, <2>2, <2>3 DEF ReadAttachment, TypeOK, VA
  <2>5. \A q \in Pods \ {p} : worker'[q] = worker[q]
    BY <1>10 DEF ReadAttachment, TypeOK
  <2>6. SyncsGoOn
    BY <1>10, <2>4, <2>5 DEF SyncsGoOn, ReadAttachment, IdleWorker
  <2> QED
    BY <1>10, <2>6, SameViewsKeepInv DEF ReadAttachment, apiVars
<1>11. ASSUME NEW p \in Pods, worker' = [worker EXCEPT ![p] = IdleWorker] PROVE SyncsGoOn
  BY <1>11 DEF SyncsGoOn, IdleWorker, TypeOK
<1>12. ASSUME NEW p \in Pods, Apply(p) PROVE ExclusiveInv'
  BY <1>11, <1>12, CallExtends, ExtendsKeepsInv DEF Apply
<1>13. ASSUME NEW p \in Pods, ApplyRefused(p) PROVE ExclusiveInv'
  BY <1>11, <1>13, SameViewsKeepInv DEF ApplyRefused, apiVars
<1>14. ASSUME NEW p \in Pods, ApplyFails(p) PROVE ExclusiveInv'
  <2>1. CASE ApplyCall(p)
    BY <1>11, <1>14, <2>1, CallExtends, ExtendsKeepsInv DEF ApplyFails
  <2>2. CASE UNCHANGED views
    BY <1>11, <1>14, <2>2, SameViewsKeepInv DEF ApplyFails
  <2> QED
    BY <1>14, <2>1, <2>2 DEF ApplyFails
<1>15. ASSUME Restart PROVE ExclusiveInv'
  <2>1. SyncsGoOn /\ uid' = uid
    BY <1>15 DEF Restart, SyncsGoOn, IdleWorker
  <2>2. /\ Len(views) \in Nat \ {0} /\ Len(views') = 1 /\ Api' = Api
        /\ views'[1] = views[Len(views)]
    BY <1>15, AfterRestart, ViewTypes DEF Restart, Api
  <2>3. Len(views) - 1 \in Nat /\ \A i \in 1..1 : views'[i] = views[i + (Len(views) - 1)]
    BY <2>2
  <2> QED
    BY <2>1, <2>2, <2>3, ShorterViewsKeepInv
<1>16. CASE UNCHANGED vars
  BY <1>16, SameViewsKeepInv DEF vars, SyncsGoOn
<1> QED
  BY <1>1, <1>2, <1>3, <1>4, <1>5, <1>6, <1>7, <1>8, <1>9, <1>10, <1>12, <1>13, <1>14, <1>15, <1>16
  DEF Next, Kubernetes, Informers, Syncing

LEMMA ExclusiveInit ==
    ASSUME Init
    PROVE  ExclusiveInv
<1>1. /\ Len(views) = 1 /\ Api = views[1] /\ uid = 0
      /\ \A n \in Nodes : views[1].proxy[n] = 0 /\ ~MadeInTime(views[1].backend[n])
  BY DEF Init, Api, MadeInTime, Absent
<1>2. \A p \in Pods : worker[p] = IdleWorker
  BY DEF Init
<1> QED
  BY <1>1, <1>2 DEF ExclusiveInv, UidsGiven, OneProxyAttachment, ViewsInOrder, SyncsAreSafe,
     ExclusivelyAttached, IdleWorker

\* A volume that may be attached to one node only, and whose PersistentVolume is
\* named as its handle, has no two attachments that were made in time.
THEOREM ExclusivelyAttachedAlways ==
    ASSUME ~IsMultiAttachAllowed, NamedByHandle
    PROVE  Spec => []ExclusivelyAttached
<1>1. Init => TypeOK /\ ExclusiveInv
  BY TypeInit, ExclusiveInit
<1>2. TypeOK /\ ExclusiveInv /\ [Next]_vars => (TypeOK /\ ExclusiveInv)'
  BY TypeStep, ExclusiveStep
<1>3. TypeOK /\ ExclusiveInv => ExclusivelyAttached
  BY DEF ExclusiveInv
<1> QED
  BY <1>1, <1>2, <1>3, PTL DEF Spec

-----------------------------------------------------------------------------
(***************************************************************************)
(* The handover.  A write changes the proxy attachment or the backend      *)
(* attachment of one node, so each is one step of ExclusiveAttachment; the *)
(* invariant says that none holds the volume beside a node that takes it.  *)
(***************************************************************************)
Granted == {n \in Nodes : Api.proxy[n] # 0}
Holders == {n \in Nodes : MadeInTime(Api.backend[n])}

\* The backend attachment of one node changes.
ChangesBackend(n) ==
    /\ Api'.proxy = Api.proxy
    /\ \A m \in Nodes \ {n} : Api'.backend[m] = Api.backend[m]

LEMMA BackendWrites ==
    ASSUME TypeOK, NEW n \in Nodes,
           \/ RemoveBackend(n)
           \/ \E va \in VA : WriteBackend(n, va)
    PROVE  ChangesBackend(n)
<1>1. Api \in View
  BY ViewTypes
<1>2. CASE RemoveBackend(n)
  <2> DEFINE new == [Api EXCEPT !.backend[n] = Absent(@.rv + 1)]
  <2>1. new \in View /\ Commit(new)
    BY <1>2, WrittenViews DEF RemoveBackend
  <2>2. Api' = new
    BY <2>1, AfterCommit
  <2> QED
    BY <1>1, <2>2 DEF ChangesBackend, View
<1>3. ASSUME NEW va \in VA, WriteBackend(n, va) PROVE ChangesBackend(n)
  <2> DEFINE new == [Api EXCEPT !.backend[n] = [va EXCEPT !.rv = Api.backend[n].rv + 1]]
  <2>1. new \in View /\ Commit(new)
    BY <1>3, WrittenViews DEF WriteBackend
  <2>2. Api' = new
    BY <2>1, AfterCommit
  <2> QED
    BY <1>1, <2>2 DEF ChangesBackend, View
<1> QED
  BY <1>2, <1>3

\* Such a change, by a writer that extends the views, is a node's taking or release.
LEMMA ChangeIsHandover ==
    ASSUME TypeOK, ExclusiveInv, NEW n \in Nodes, ChangesBackend(n),
           NEW new \in View, Extends(new), Alone(new)
    PROVE  \/ UNCHANGED <<Granted, Holders>>
           \/ Attachment!Take(n)
           \/ Attachment!Release(n)
<1>1. Api' = new
  BY AfterCommit DEF Extends
<1>2. Granted' = Granted
  BY DEF Granted, ChangesBackend
<1>3. \A m \in Nodes \ {n} : m \in Holders' <=> m \in Holders
  BY DEF Holders, ChangesBackend
<1>4. Holders \subseteq Nodes /\ Holders' \subseteq Nodes
  BY DEF Holders
<1>5. CASE n \in Holders <=> n \in Holders'
  BY <1>2, <1>3, <1>4, <1>5
<1>6. CASE n \in Holders /\ n \notin Holders'
  <2>1. Holders' = Holders \ {n}
    BY <1>3, <1>4, <1>6
  <2> QED
    BY <1>2, <2>1 DEF Attachment!Release, Granted, Holders
<1>7. CASE n \notin Holders /\ n \in Holders'
  <2>1. MadeInTime(new.backend[n]) /\ ~MadeInTime(Api.backend[n])
    BY <1>1, <1>7 DEF Holders
  <2>2. n \in Granted
    BY <2>1 DEF Extends, Granted
  <2>3. \A m \in Nodes \ {n} : m \notin Holders'
    BY <1>1, <2>1 DEF Alone, Holders
  <2>4. Holders' = {n} /\ Holders \subseteq {n}
    BY <1>3, <1>4, <1>7, <2>3
  <2> QED
    BY <1>2, <2>2, <2>4 DEF Attachment!Take, Granted, Holders
<1> QED
  BY <1>5, <1>6, <1>7

\* The call of a sync, and what the others write.
LEMMA CallHandsOver ==
    ASSUME TypeOK, ExclusiveInv, NEW p \in Pods, ApplyCall(p), UNCHANGED uid
    PROVE  [Attachment!Next]_(Attachment!evars)
<1> DEFINE n == NodeOf[p]
           va == WithOwner(p, Api.backend[n])
<1>1. n \in Nodes /\ Api.backend[n] \in VA
  BY NodeOfAssumption, WrittenViews
<1>2. va \in VA /\ [va EXCEPT !.finalizer = FALSE] \in VA
  BY <1>1 DEF WithOwner, VA, TypeOK, Worker
<1>3. ChangesBackend(n)
  BY <1>1, <1>2, BackendWrites DEF ApplyCall
<1>4. PICK new \in View : Extends(new) /\ Alone(new)
  BY CallExtends
<1> QED
  BY <1>1, <1>3, <1>4, ChangeIsHandover DEF Attachment!Next, Attachment!evars, Granted, Holders

LEMMA OthersHandOver ==
    ASSUME TypeOK, ExclusiveInv, NEW n \in Nodes,
           \/ CreateProxyAttachment(n)
           \/ DeleteProxyAttachment(n)
           \/ AttacherAndGarbageCollector(n)
    PROVE  [Attachment!Next]_(Attachment!evars)
<1>1. Api \in View /\ Api.backend[n] \in VA
  BY WrittenViews, ViewTypes
<1>2. CASE CreateProxyAttachment(n)
  <2> DEFINE new == [Api EXCEPT !.proxy[n] = uid + 1]
  <2>1. uid + 1 \in Nat \ {0}
    BY DEF TypeOK
  <2>2. new \in View /\ Commit(new)
    BY <1>2, <2>1, WrittenViews DEF CreateProxyAttachment
  <2>3. Api' = new
    BY <2>2, AfterCommit
  <2>4. /\ Api'.backend = Api.backend /\ Api'.proxy[n] = uid + 1
        /\ \A m \in Nodes \ {n} : Api'.proxy[m] = Api.proxy[m]
    BY <1>1, <2>3 DEF View
  <2>5. \A m \in Nodes : Api.proxy[m] = 0
    BY <1>2 DEF CreateProxyAttachment
  <2>6. Granted = {} /\ Granted' = {n} /\ Holders' = Holders
    BY <2>1, <2>4, <2>5 DEF Granted, Holders
  <2>7. Attachment!Grant(n)
    BY <2>6 DEF Attachment!Grant, Granted, Holders
  <2> QED
    BY <2>7 DEF Attachment!Next
<1>3. CASE DeleteProxyAttachment(n)
  <2> DEFINE new == [Api EXCEPT !.proxy[n] = 0]
  <2>1. new \in View /\ Commit(new)
    BY <1>3, WrittenViews DEF DeleteProxyAttachment
  <2>2. Api' = new
    BY <2>1, AfterCommit
  <2>3. /\ Api'.backend = Api.backend /\ Api'.proxy[n] = 0
        /\ \A m \in Nodes \ {n} : Api'.proxy[m] = Api.proxy[m]
    BY <1>1, <2>2 DEF View
  <2>4. Granted' = Granted \ {n} /\ Holders' = Holders
    BY <2>3 DEF Granted, Holders
  <2>5. Attachment!Withdraw(n)
    BY <2>4 DEF Attachment!Withdraw, Granted, Holders
  <2> QED
    BY <2>5 DEF Attachment!Next
<1>4. CASE AttacherAndGarbageCollector(n)
  <2>1. /\ [Api.backend[n] EXCEPT !.deleting = TRUE] \in VA
        /\ [Api.backend[n] EXCEPT !.finalizer = TRUE, !.attached = TRUE] \in VA
    BY <1>1 DEF VA
  <2>2. ChangesBackend(n)
    BY <1>4, <2>1, BackendWrites DEF AttacherAndGarbageCollector, CollectGarbage, Attach, Detach
  <2>3. PICK new \in View : Extends(new) /\ Alone(new)
    BY <1>4, OthersExtend
  <2> QED
    BY <2>2, <2>3, ChangeIsHandover DEF Attachment!Next, Attachment!evars, Granted, Holders
<1> QED
  BY <1>2, <1>3, <1>4

LEMMA StepHandsOver ==
    ASSUME TypeOK, ExclusiveInv, [Next]_vars
    PROVE  [Attachment!Next]_(Attachment!evars)
<1>1. ASSUME Api' = Api PROVE [Attachment!Next]_(Attachment!evars)
  BY <1>1 DEF Attachment!evars
<1>2. CASE UNCHANGED views
  BY <1>1, <1>2 DEF Api
<1>3. ASSUME NEW p \in Pods, CreatePod(p) \/ DeletePod(p) \/ RemovePod(p) \/ ObservePod(p)
      PROVE  [Attachment!Next]_(Attachment!evars)
  BY <1>2, <1>3 DEF CreatePod, DeletePod, RemovePod, ObservePod, apiVars
<1>4. ASSUME NEW object \in Objects, Observe(object) PROVE [Attachment!Next]_(Attachment!evars)
  BY <1>2, <1>4 DEF Observe, apiVars
<1>5. CASE ObserveAttachment
  BY <1>1, <1>5, AfterEvent DEF ObserveAttachment
<1>6. CASE Restart
  BY <1>1, <1>6, AfterRestart DEF Restart
<1>7. ASSUME NEW p \in Pods, SyncDone(p) \/ SyncVolume(p) \/ ReadAttachment(p) \/ ApplyRefused(p)
      PROVE  [Attachment!Next]_(Attachment!evars)
  BY <1>2, <1>7 DEF SyncDone, SyncVolume, ReadAttachment, ApplyRefused, apiVars
<1>8. ASSUME NEW p \in Pods, Apply(p) \/ ApplyFails(p) PROVE [Attachment!Next]_(Attachment!evars)
  BY <1>2, <1>8, CallHandsOver DEF Apply, ApplyFails
<1>9. CASE UNCHANGED vars
  BY <1>2, <1>9 DEF vars
<1> QED
  BY <1>3, <1>4, <1>5, <1>6, <1>7, <1>8, <1>9, OthersHandOver
  DEF Next, Kubernetes, Informers, Syncing

\* An exclusive volume is handed from node to node: the module implements
\* ExclusiveAttachment, whichever node, pod and sync is ahead or behind.
THEOREM ImplementsExclusiveAttachmentAlways ==
    ASSUME ~IsMultiAttachAllowed, NamedByHandle
    PROVE  Spec => ImplementsExclusiveAttachment
<1>1. Init => TypeOK /\ ExclusiveInv
  BY TypeInit, ExclusiveInit
<1>2. TypeOK /\ ExclusiveInv /\ [Next]_vars => (TypeOK /\ ExclusiveInv)'
  BY TypeStep, ExclusiveStep
<1>3. Init => Attachment!Init
  BY DEF Init, Attachment!Init, Api, MadeInTime, Absent
<1>4. TypeOK /\ ExclusiveInv /\ [Next]_vars => [Attachment!Next]_(Attachment!evars)
  BY StepHandsOver
<1> QED
  BY <1>1, <1>2, <1>3, <1>4, PTL DEF Spec, ImplementsExclusiveAttachment, Attachment!Spec

-----------------------------------------------------------------------------
(***************************************************************************)
(* No wake-up of a pod is lost.  Every event of an attachment tells two    *)
(* different views apart, and queues the cached pods once all objects are  *)
(* known; so a pod leaves the queue only with a cause that lasts until the *)
(* next event.                                                             *)
(***************************************************************************)

ViewsDiffer ==
    \A i \in 1..(Len(views) - 1) :
        views[i].proxy # views[i + 1].proxy \/ views[i].backend # views[i + 1].backend

\* What keeps a pod out of the queue for as long as the cache does not change.
Settled(p) ==
    LET u == Cache.proxy[NodeOf[p]]
        va == Cache.backend[NodeOf[p]]
    IN  \/ ~AttachRequired \/ ExclusivelyAttachedElsewhere(NodeOf[p])
        \/ worker[p].pc # "idle" /\ worker[p].owner = u
        \/ va.present /\ va.owner = u

Dropped(p) == podSeen[p] = "running" /\ p \notin queue /\ Claims \subseteq seen

HasCause(p) ==
    Dropped(p) =>
        /\ Objects \subseteq seen
        /\ Cache.proxy[NodeOf[p]] # 0
        /\ Settled(p) \/ Len(views) > 1

\* An attachment that is being deleted does not become the one of a proxy
\* attachment again: its owner is not the present one, and no later one.
ForGood(view, last) ==
    \A n \in Nodes :
        LET va == view.backend[n]
        IN  /\ va.owner <= last
            /\ va.deleting => va.present /\ va.owner # 0 /\ va.owner # view.proxy[n]

WakeupInv ==
    /\ ViewsDiffer
    /\ UidsGiven
    /\ ForGood(Api, uid)
    /\ \A p \in Pods : HasCause(p)

\* What every write does to the last view.
Writes(new) ==
    /\ Commit(new)
    /\ uid' \in Nat /\ uid <= uid'
    /\ new.proxy # Api.proxy \/ new.backend # Api.backend
    /\ \A n \in Nodes : new.proxy[n] \in {Api.proxy[n], 0, uid'}
    /\ ForGood(new, uid')

\* A backend attachment is replaced by one with these fields.
Replaces(new, n, present, owner, deleting) ==
    /\ Commit(new)
    /\ new.proxy = Api.proxy
    /\ new.backend # Api.backend
    /\ \A m \in Nodes \ {n} : new.backend[m] = Api.backend[m]
    /\ new.backend[n].present = present
    /\ new.backend[n].owner = owner
    /\ new.backend[n].deleting = deleting

LEMMA WrittenReplaces ==
    ASSUME TypeOK, NEW n \in Nodes, NEW va \in VA, WriteBackend(n, va)
    PROVE  \E new \in View : Replaces(new, n, va.present, va.owner, va.deleting)
<1> DEFINE written == [va EXCEPT !.rv = Api.backend[n].rv + 1]
           new == [Api EXCEPT !.backend[n] = written]
<1>1. Api \in View /\ Api.backend[n] \in VA /\ new \in View
  BY WrittenViews, ViewTypes
<1>2. Commit(new)
  BY DEF WriteBackend
<1>3. /\ new.proxy = Api.proxy /\ new.backend[n] = written
      /\ \A m \in Nodes \ {n} : new.backend[m] = Api.backend[m]
  BY <1>1 DEF View
<1>4. /\ written.present = va.present /\ written.owner = va.owner
      /\ written.deleting = va.deleting /\ written.rv = Api.backend[n].rv + 1
  BY DEF VA
<1>5. Api.backend[n].rv \in Nat
  BY <1>1 DEF VA
<1>6. new.backend[n].rv = Api.backend[n].rv + 1
  BY <1>3, <1>4
<1> HIDE DEF new, written
<1>7. new.backend # Api.backend
  BY <1>5, <1>6
<1> QED
  BY <1>1, <1>2, <1>3, <1>4, <1>7 DEF Replaces

LEMMA RemovedReplaces ==
    ASSUME TypeOK, NEW n \in Nodes, RemoveBackend(n)
    PROVE  \E new \in View : Replaces(new, n, FALSE, 0, FALSE)
<1> DEFINE new == [Api EXCEPT !.backend[n] = Absent(@.rv + 1)]
<1>1. Api \in View /\ Api.backend[n] \in VA /\ new \in View
  BY WrittenViews, ViewTypes
<1>2. Commit(new)
  BY DEF RemoveBackend
<1>3. /\ new.proxy = Api.proxy /\ new.backend[n] = Absent(Api.backend[n].rv + 1)
      /\ \A m \in Nodes \ {n} : new.backend[m] = Api.backend[m]
  BY <1>1 DEF View
<1>4. Api.backend[n].rv \in Nat
  BY <1>1 DEF VA
<1>5. /\ new.backend[n].rv = Api.backend[n].rv + 1 /\ new.backend[n].present = FALSE
      /\ new.backend[n].owner = 0 /\ new.backend[n].deleting = FALSE
  BY <1>3 DEF Absent
<1>6. new.backend[n].rv # Api.backend[n].rv
  BY <1>4, <1>5
<1> QED
  BY <1>1, <1>2, <1>3, <1>5, <1>6 DEF Replaces

\* A replacement whose owner was given out, and that is not being deleted, or
\* for another owner than the present one, is a write as described.
LEMMA ReplacesWrites ==
    ASSUME TypeOK, ForGood(Api, uid), uid' = uid,
           NEW n \in Nodes, NEW new \in View,
           NEW present \in BOOLEAN, NEW owner \in Nat, NEW deleting \in BOOLEAN,
           Replaces(new, n, present, owner, deleting),
           owner <= uid,
           deleting => present /\ owner # 0 /\ owner # Api.proxy[n]
    PROVE  Writes(new)
<1>1. uid' \in Nat /\ uid <= uid'
  BY DEF TypeOK
<1>2. ForGood(new, uid')
  BY DEF ForGood, Replaces
<1> QED
  BY <1>1, <1>2 DEF Writes, Replaces

\* Each writer writes that way.
LEMMA CallWrites ==
    ASSUME TypeOK, UidsGiven, ForGood(Api, uid), NEW p \in Pods, ApplyCall(p), uid' = uid
    PROVE  \E new \in View : Writes(new)
<1> DEFINE n == NodeOf[p]
           va == WithOwner(p, Api.backend[n])
<1>1. n \in Nodes /\ Api.backend[n] \in VA
  BY NodeOfAssumption, WrittenViews
<1>2. worker[p].owner \in Nat /\ worker[p].owner <= uid
  BY DEF UidsGiven, TypeOK, Worker
<1>3. /\ va \in VA /\ va.present = TRUE /\ va.owner = worker[p].owner
      /\ va.deleting = Api.backend[n].deleting
  BY <1>1, <1>2 DEF WithOwner, VA
<1>4. CASE RemoveBackend(n)
  <2>1. PICK new \in View : Replaces(new, n, FALSE, 0, FALSE)
    BY <1>1, <1>4, RemovedReplaces
  <2>2. 0 <= uid
    BY DEF TypeOK
  <2> QED
    BY <1>1, <2>1, <2>2, ReplacesWrites
<1>5. CASE WriteBackend(n, va) /\ ~Api.backend[n].deleting
  <2>1. PICK new \in View : Replaces(new, n, TRUE, worker[p].owner, va.deleting)
    BY <1>1, <1>3, <1>5, WrittenReplaces
  <2>2. va.deleting = FALSE
    BY <1>1, <1>3, <1>5 DEF VA
  <2> QED
    BY <1>1, <1>2, <2>1, <2>2, ReplacesWrites
<1>6. CASE /\ WriteBackend(n, [va EXCEPT !.finalizer = FALSE])
           /\ ~Api.backend[n].deleting
  <2> DEFINE bare == [va EXCEPT !.finalizer = FALSE]
  <2>1. /\ bare \in VA /\ bare.present = TRUE /\ bare.owner = worker[p].owner
        /\ bare.deleting = FALSE
    BY <1>1, <1>3, <1>6 DEF VA
  <2>2. PICK new \in View : Replaces(new, n, TRUE, worker[p].owner, FALSE)
    BY <1>1, <1>6, <2>1, WrittenReplaces
  <2> QED
    BY <1>1, <1>2, <2>2, ReplacesWrites
<1>7. ~Api.backend[n].present => ~Api.backend[n].deleting
  BY <1>1 DEF ForGood
<1> QED
  BY <1>4, <1>5, <1>6, <1>7 DEF ApplyCall

LEMMA OthersWrite ==
    ASSUME TypeOK, UidsGiven, ForGood(Api, uid), NEW n \in Nodes,
           \/ CreateProxyAttachment(n)
           \/ DeleteProxyAttachment(n)
           \/ AttacherAndGarbageCollector(n)
    PROVE  \E new \in View : Writes(new)
<1>0. uid \in Nat /\ uid + 1 \in Nat
  BY DEF TypeOK
<1>1. /\ Api \in View /\ uid \in Nat
      /\ \A m \in Nodes : Api.backend[m] \in VA /\ Api.backend[m].owner \in Nat
  BY <1>0, WrittenViews, ViewTypes DEF VA
<1>2. CASE CreateProxyAttachment(n)
  <2> DEFINE new == [Api EXCEPT !.proxy[n] = uid + 1]
  <2>1. new \in View /\ Commit(new) /\ uid' = uid + 1 /\ uid + 1 \in Nat
    BY <1>0, <1>2, WrittenViews DEF CreateProxyAttachment
  <2>2. /\ new.backend = Api.backend /\ new.proxy[n] = uid + 1
        /\ \A m \in Nodes \ {n} : new.proxy[m] = Api.proxy[m]
    BY <1>1 DEF View
  <2>3. Api.proxy[n] # new.proxy[n]
    BY <1>0, <1>2, <2>2 DEF CreateProxyAttachment
  <2>4. ForGood(new, uid')
    <3> SUFFICES ASSUME NEW m \in Nodes
                 PROVE  /\ new.backend[m].owner <= uid'
                        /\ new.backend[m].deleting =>
                              /\ new.backend[m].present /\ new.backend[m].owner # 0
                              /\ new.backend[m].owner # new.proxy[m]
      BY DEF ForGood
    <3>1. /\ Api.backend[m].owner <= uid
          /\ Api.backend[m].deleting =>
                /\ Api.backend[m].present /\ Api.backend[m].owner # 0
                /\ Api.backend[m].owner # Api.proxy[m]
      BY DEF ForGood
    <3>2. Api.backend[m].owner # uid + 1
      BY <1>1, <3>1
    <3> QED
      BY <1>1, <2>1, <2>2, <3>1, <3>2
  <2>5. \A m \in Nodes : new.proxy[m] \in {Api.proxy[m], 0, uid'}
    BY <2>1, <2>2
  <2>6. new.proxy # Api.proxy
    BY <2>3
  <2>7. uid' \in Nat /\ uid <= uid'
    BY <1>0, <2>1
  <2> QED
    BY <2>1, <2>4, <2>5, <2>6, <2>7 DEF Writes
<1>3. CASE DeleteProxyAttachment(n)
  <2> DEFINE new == [Api EXCEPT !.proxy[n] = 0]
  <2>1. new \in View /\ Commit(new) /\ uid' = uid
    BY <1>1, <1>3, WrittenViews DEF DeleteProxyAttachment
  <2>2. /\ new.backend = Api.backend /\ new.proxy[n] = 0
        /\ \A m \in Nodes \ {n} : new.proxy[m] = Api.proxy[m]
    BY <1>1 DEF View
  <2>3. Api.proxy[n] # new.proxy[n]
    BY <1>3, <2>2 DEF DeleteProxyAttachment
  <2>4. ForGood(new, uid')
    BY <2>1, <2>2 DEF ForGood
  <2>5. \A m \in Nodes : new.proxy[m] \in {Api.proxy[m], 0, uid'}
    BY <2>1, <2>2
  <2>6. new.proxy # Api.proxy
    BY <2>3
  <2>7. uid' \in Nat /\ uid <= uid'
    BY <1>0, <2>1
  <2> QED
    BY <2>1, <2>4, <2>5, <2>6, <2>7 DEF Writes
<1>4. CASE AttacherAndGarbageCollector(n)
  <2> DEFINE va == Api.backend[n]
  <2>1. uid' = uid /\ va \in VA /\ va.owner <= uid /\ va.owner \in Nat /\ 0 <= uid
    BY <1>1, <1>4
    DEF AttacherAndGarbageCollector, CollectGarbage, Attach, Detach, ForGood
  <2>2. CASE RemoveBackend(n)
    <3>1. PICK new \in View : Replaces(new, n, FALSE, 0, FALSE)
      BY <2>2, RemovedReplaces
    <3> QED
      BY <2>1, <3>1, ReplacesWrites
  <2>3. CASE CollectGarbage(n) /\ WriteBackend(n, [va EXCEPT !.deleting = TRUE])
    <3>1. va.present /\ va.owner # 0 /\ va.owner # Api.proxy[n]
      BY <2>3 DEF CollectGarbage, Owned
    <3>2. /\ [va EXCEPT !.deleting = TRUE] \in VA
          /\ [va EXCEPT !.deleting = TRUE].present = va.present
          /\ [va EXCEPT !.deleting = TRUE].owner = va.owner
          /\ [va EXCEPT !.deleting = TRUE].deleting = TRUE
      BY <2>1 DEF VA
    <3>3. PICK new \in View : Replaces(new, n, va.present, va.owner, TRUE)
      BY <2>3, <3>2, WrittenReplaces
    <3>4. va.present \in BOOLEAN
      BY <2>1 DEF VA
    <3> QED
      BY <2>1, <3>1, <3>3, <3>4, ReplacesWrites
  <2>4. CASE Attach(n)
    <3> DEFINE done == [va EXCEPT !.finalizer = TRUE, !.attached = TRUE]
    <3>1. va.present /\ va.deleting = FALSE /\ va.present \in BOOLEAN
      BY <2>1, <2>4 DEF Attach, VA
    <3>2. /\ done \in VA /\ done.present = va.present
          /\ done.owner = va.owner /\ done.deleting = va.deleting
      BY <2>1 DEF VA
    <3>3. WriteBackend(n, done)
      BY <2>4 DEF Attach
    <3>4. PICK new \in View : Replaces(new, n, va.present, va.owner, FALSE)
      BY <3>1, <3>2, <3>3, WrittenReplaces
    <3> QED
      BY <2>1, <3>1, <3>4, ReplacesWrites
  <2> QED
    BY <1>4, <2>2, <2>3, <2>4 DEF AttacherAndGarbageCollector, CollectGarbage, Detach
<1> QED
  BY <1>2, <1>3, <1>4

\* A write keeps the views apart, and leaves what is cached alone.
LEMMA WriteKeepsViews ==
    ASSUME TypeOK, WakeupInv, NEW new \in View, Writes(new),
           \A p \in Pods : worker'[p].owner \in {0, worker[p].owner}
    PROVE  /\ ViewsDiffer' /\ UidsGiven' /\ ForGood(Api, uid)'
           /\ Cache' = Cache /\ Len(views') > 1
<1> DEFINE L == Len(views)
<1>1. /\ Len(views') = L + 1 /\ Api' = new /\ views'[L + 1] = new
      /\ \A i \in 1..L : views'[i] = views[i]
      /\ L \in Nat \ {0} /\ Api = views[L] /\ views' # <<>>
  <2>1. Commit(new)
    BY DEF Writes
  <2> QED
    BY <2>1, AfterCommit, ViewTypes DEF Api
<1>2. uid \in Nat /\ uid' \in Nat /\ uid <= uid'
  BY DEF TypeOK, Writes
<1>3. ViewsDiffer'
  <2> SUFFICES ASSUME NEW i \in 1..L
               PROVE  views'[i].proxy # views'[i + 1].proxy \/ views'[i].backend # views'[i + 1].backend
    BY <1>1 DEF ViewsDiffer
  <2>1. CASE i = L
    BY <1>1, <2>1 DEF Writes
  <2>2. CASE i # L
    <3>1. i \in 1..(L - 1) /\ i + 1 \in 1..L
      BY <1>1, <2>2
    <3> QED
      BY <1>1, <3>1 DEF WakeupInv, ViewsDiffer
  <2> QED
    BY <2>1, <2>2
<1>4. UidsGiven'
  <2>1. ASSUME NEW i \in 1..(L + 1), NEW n \in Nodes
        PROVE  views'[i].proxy[n] <= uid'
    <3>1. \A j \in 1..L : views[j].proxy[n] \in Nat /\ views[j].proxy[n] <= uid
      BY ViewTypes DEF WakeupInv, UidsGiven, View
    <3>2. CASE i \in 1..L
      BY <1>1, <1>2, <3>1, <3>2
    <3>3. CASE i = L + 1
      <4>1. new.proxy[n] \in {Api.proxy[n], 0, uid'}
        BY DEF Writes
      <4>2. Api.proxy[n] \in Nat /\ Api.proxy[n] <= uid
        BY <1>1, <3>1
      <4> QED
        BY <1>1, <1>2, <3>3, <4>1, <4>2
    <3> QED
      BY <3>2, <3>3
  <2>2. ASSUME NEW p \in Pods PROVE worker'[p].owner <= uid'
    <3>1. worker[p].owner \in Nat /\ worker[p].owner <= uid
      BY DEF TypeOK, Worker, WakeupInv, UidsGiven
    <3> QED
      BY <1>2, <3>1
  <2> QED
    BY <1>1, <2>1, <2>2 DEF UidsGiven
<1>5. ForGood(Api, uid)'
  BY <1>1 DEF Writes, ForGood
<1>6. Cache' = Cache
  BY <1>1, ViewTypes DEF Cache
<1> QED
  BY <1>1, <1>3, <1>4, <1>5, <1>6

\* What an owner may be replaced by.
OwnersGiven ==
    \A p \in Pods : worker'[p].owner \in {0, worker[p].owner, Cache.proxy[NodeOf[p]]}

LEMMA OwnersStayGiven ==
    ASSUME TypeOK, UidsGiven, OwnersGiven, NEW p \in Pods
    PROVE  worker'[p].owner <= uid
<1>1. 0 <= uid
  BY DEF TypeOK
<1>2. Cache.proxy[NodeOf[p]] <= uid
  BY ViewTypes, NodeOfAssumption DEF UidsGiven
<1> QED
  BY <1>1, <1>2 DEF UidsGiven, OwnersGiven

LEMMA SameViewsKeepViews ==
    ASSUME TypeOK, WakeupInv, UNCHANGED <<views, uid>>, OwnersGiven
    PROVE  /\ ViewsDiffer' /\ UidsGiven' /\ ForGood(Api, uid)'
           /\ Cache' = Cache /\ Len(views') = Len(views)
<1>1. Api' = Api /\ Cache' = Cache
  BY DEF Api, Cache
<1>2. UidsGiven'
  BY OwnersStayGiven DEF WakeupInv, UidsGiven
<1> QED
  BY <1>1, <1>2 DEF WakeupInv, ViewsDiffer, ForGood

\* An event, or a restart, takes views away at the front.
LEMMA FewerViewsKeepViews ==
    ASSUME TypeOK, WakeupInv, uid' = uid, OwnersGiven, Api' = Api,
           NEW d \in Nat, Len(views') \in Nat, Len(views') + d = Len(views),
           \A i \in 1..Len(views') : views'[i] = views[i + d]
    PROVE  ViewsDiffer' /\ UidsGiven' /\ ForGood(Api, uid)'
<1>1. Len(views) \in Nat
  BY ViewTypes
<1>2. ViewsDiffer'
  <2> SUFFICES ASSUME NEW i \in 1..(Len(views') - 1)
               PROVE  views'[i].proxy # views'[i + 1].proxy \/ views'[i].backend # views'[i + 1].backend
    BY DEF ViewsDiffer
  <2>1. /\ i \in 1..Len(views') /\ i + 1 \in 1..Len(views')
        /\ i + d \in 1..(Len(views) - 1) /\ (i + 1) + d = (i + d) + 1
    BY <1>1
  <2>2. views'[i] = views[i + d] /\ views'[i + 1] = views[(i + d) + 1]
    BY <2>1
  <2> QED
    BY <2>1, <2>2 DEF WakeupInv, ViewsDiffer
<1>3. \A i \in 1..Len(views') : i + d \in 1..Len(views)
  BY <1>1
<1>4. UidsGiven'
  BY <1>3, OwnersStayGiven DEF WakeupInv, UidsGiven
<1>5. ForGood(Api, uid)'
  BY DEF WakeupInv, ForGood
<1> QED
  BY <1>2, <1>4, <1>5

\* A step that drops no pod and does not move the cache leaves the cause of a drop.
LEMMA CauseStays ==
    ASSUME NEW p \in Pods, HasCause(p), Dropped(p)' => Dropped(p),
           seen' = seen, Cache' = Cache,
           \/ Len(views') > 1
           \/ worker'[p] = worker[p] /\ Len(views') = Len(views)
    PROVE  HasCause(p)'
  BY DEF HasCause, Settled, ExclusivelyAttachedElsewhere, VolumeAttachedNodes

\* A write finds the causes as they are, or the views are more than one.
LEMMA WriteKeepsWakeups ==
    ASSUME TypeOK, WakeupInv, NEW new \in View, Writes(new),
           UNCHANGED <<podVars, seen>>, queue \subseteq queue',
           \A p \in Pods : worker'[p].owner \in {0, worker[p].owner}
    PROVE  WakeupInv'
<1>1. /\ ViewsDiffer' /\ UidsGiven' /\ ForGood(Api, uid)'
      /\ Cache' = Cache /\ Len(views') > 1
  BY WriteKeepsViews
<1>2. ASSUME NEW p \in Pods PROVE HasCause(p)'
  <2>1. Dropped(p)' => Dropped(p)
    BY DEF Dropped, podVars
  <2> QED
    BY <1>1, <2>1, CauseStays DEF WakeupInv
<1> QED
  BY <1>1, <1>2 DEF WakeupInv

\* Once the claims are known, an event of one of them, or of an attachment through
\* them, queues every cached pod.
LEMMA KnownClaimsQueue ==
    ASSUME NEW objects, Claims \subseteq objects
    PROVE  PodsThroughClaim(objects) = CachedPods
  BY DEF PodsThroughClaim, IsBoundProxyPersistentVolumeClaim, Claims

LEMMA PodEventKeepsWakeups ==
    ASSUME TypeOK, WakeupInv, NEW q \in Pods, ObservePod(q)
    PROVE  WakeupInv'
<1>1. /\ ViewsDiffer' /\ UidsGiven' /\ ForGood(Api, uid)'
      /\ Cache' = Cache /\ Len(views') = Len(views)
  BY SameViewsKeepViews DEF ObservePod, apiVars, OwnersGiven
<1>2. ASSUME NEW p \in Pods PROVE HasCause(p)'
  <2>1. Dropped(p)' => Dropped(p)
    BY DEF ObservePod, Dropped, IsBoundProxyPersistentVolumeClaim, Claims, TypeOK
  <2>2. seen' = seen /\ worker'[p] = worker[p]
    BY DEF ObservePod
  <2> QED
    BY <1>1, <2>1, <2>2, CauseStays DEF WakeupInv
<1> QED
  BY <1>1, <1>2 DEF WakeupInv

LEMMA ObjectEventKeepsWakeups ==
    ASSUME TypeOK, WakeupInv, NEW object \in Objects, Observe(object)
    PROVE  WakeupInv'
<1>1. /\ ViewsDiffer' /\ UidsGiven' /\ ForGood(Api, uid)'
      /\ Cache' = Cache /\ Len(views') = Len(views)
  BY SameViewsKeepViews DEF Observe, apiVars, OwnersGiven
<1>2. ASSUME NEW p \in Pods PROVE ~Dropped(p)'
  <2> SUFFICES ASSUME podSeen[p] = "running", Claims \subseteq seen', p \notin queue'
               PROVE  FALSE
    BY DEF Dropped, Observe, podVars
  <2>1. p \in CachedPods /\ p \notin queue
    BY DEF CachedPods, Observe
  <2>2. CASE Claims \subseteq seen
    <3>1. Dropped(p)
      BY <2>1, <2>2 DEF Dropped
    <3> QED
      BY <3>1 DEF WakeupInv, HasCause, Observe
  <2>3. CASE ~(Claims \subseteq seen)
    <3>1. object \in Claims
      BY <2>3 DEF Observe
    <3>2. PodsThroughObject(object, seen') = CachedPods
      BY <3>1, KnownClaimsQueue DEF PodsThroughObject, Claims
    <3> QED
      BY <2>1, <3>2 DEF Observe
  <2> QED
    BY <2>2, <2>3
<1> QED
  BY <1>1, <1>2 DEF WakeupInv, HasCause

LEMMA AttachmentEventKeepsWakeups ==
    ASSUME TypeOK, WakeupInv, ObserveAttachment
    PROVE  WakeupInv'
<1>1. /\ Len(views') \in Nat /\ Len(views') + 1 = Len(views)
      /\ \A i \in 1..Len(views') : views'[i] = views[i + 1]
      /\ Api' = Api
  BY AfterEvent, ViewTypes DEF ObserveAttachment
<1>2. OwnersGiven /\ uid' = uid
  BY DEF ObserveAttachment, OwnersGiven
<1>3. ViewsDiffer' /\ UidsGiven' /\ ForGood(Api, uid)'
  BY <1>1, <1>2, FewerViewsKeepViews
<1>4. ASSUME NEW p \in Pods PROVE ~Dropped(p)'
  <2> SUFFICES ASSUME Dropped(p), p \notin queue'
               PROVE  FALSE
    BY DEF Dropped, ObserveAttachment, podVars
  <2>1. Objects \subseteq seen /\ Claims \subseteq seen
    BY DEF WakeupInv, HasCause, Dropped
  <2>2. views[1].proxy # views[2].proxy \/ views[1].backend # views[2].backend
    <3>1. Len(views) \in Nat /\ Len(views) > 1
      BY ViewTypes DEF ObserveAttachment
    <3>2. 1 \in 1..(Len(views) - 1)
      BY <3>1
    <3> QED
      BY <3>2 DEF WakeupInv, ViewsDiffer
  <2>3. PodsThroughAttachment(views[1], views[2]) = CachedPods
    BY <2>1, <2>2, KnownClaimsQueue DEF PodsThroughAttachment, Objects
  <2> QED
    BY <2>3 DEF ObserveAttachment, CachedPods, Dropped
<1> QED
  BY <1>3, <1>4 DEF WakeupInv, HasCause

LEMMA RestartKeepsWakeups ==
    ASSUME TypeOK, WakeupInv, Restart
    PROVE  WakeupInv'
<1>1. /\ Len(views) \in Nat \ {0} /\ Len(views') = 1 /\ Api' = Api
      /\ views'[1] = views[Len(views)]
  BY AfterRestart, ViewTypes DEF Restart, Api
<1>2. Len(views) - 1 \in Nat /\ \A i \in 1..1 : views'[i] = views[i + (Len(views) - 1)]
  BY <1>1
<1>3. OwnersGiven /\ uid' = uid
  BY DEF Restart, OwnersGiven, IdleWorker
<1>4. ViewsDiffer' /\ UidsGiven' /\ ForGood(Api, uid)'
  BY <1>1, <1>2, <1>3, FewerViewsKeepViews
<1>5. ASSUME NEW p \in Pods PROVE ~Dropped(p)'
  BY DEF Restart, Dropped, IsBoundProxyPersistentVolumeClaim, Claims
<1> QED
  BY <1>4, <1>5 DEF WakeupInv, HasCause

\* A sync that gives its key up has a cause: what it saw, or the attachment it works on.
LEMMA SyncStartKeepsWakeups ==
    ASSUME TypeOK, WakeupInv, NEW q \in Pods, SyncDone(q) \/ SyncVolume(q)
    PROVE  WakeupInv'
<1> USE DEF IdleWorker
<1>1. /\ UNCHANGED <<views, uid, seen, podSeen>> /\ queue' = queue \ {q}
      /\ \A p \in Pods \ {q} : worker'[p] = worker[p]
  BY DEF SyncDone, SyncVolume, apiVars, podVars, TypeOK
<1>2. OwnersGiven
  <2>1. worker'[q].owner \in {worker[q].owner, Cache.proxy[NodeOf[q]]}
    <3>1. CASE SyncDone(q)
      BY <3>1 DEF SyncDone
    <3>2. CASE SyncVolume(q)
      BY <3>2 DEF SyncVolume, MakeOwner, TypeOK
    <3> QED
      BY <3>1, <3>2
  <2> QED
    BY <1>1, <2>1 DEF OwnersGiven
<1>3. /\ ViewsDiffer' /\ UidsGiven' /\ ForGood(Api, uid)'
      /\ Cache' = Cache /\ Len(views') = Len(views)
  BY <1>1, <1>2, SameViewsKeepViews
<1>4. ASSUME NEW p \in Pods, p # q PROVE HasCause(p)'
  <2>1. (Dropped(p)' => Dropped(p)) /\ seen' = seen /\ worker'[p] = worker[p]
    BY <1>1, <1>4 DEF Dropped
  <2> QED
    BY <1>3, <2>1, CauseStays DEF WakeupInv
<1>5. HasCause(q)'
  <2> SUFFICES ASSUME podSeen[q] = "running", Claims \subseteq seen
               PROVE  /\ Objects \subseteq seen /\ Cache.proxy[NodeOf[q]] # 0
                      /\ Settled(q)'
    BY <1>1, <1>3 DEF HasCause, Dropped
  <2>1. ReadyToAttach(q)
    BY DEF SyncDone, SyncVolume, NothingToSync, Claims
  <2>2. CASE SyncDone(q)
    BY <1>1, <1>3, <2>1, <2>2
    DEF SyncDone, NothingToSync, Claims, Settled, ReadyToAttach, ExclusivelyAttachedElsewhere,
        VolumeAttachedNodes
  <2>3. CASE SyncVolume(q)
    <3>1. worker'[q].pc # "idle" /\ worker'[q].owner = Cache.proxy[NodeOf[q]]
      BY <2>3 DEF SyncVolume, MakeOwner, TypeOK
    <3> QED
      BY <1>3, <2>1, <3>1 DEF Settled, ReadyToAttach
  <2> QED
    BY <2>2, <2>3
<1> QED
  BY <1>3, <1>4, <1>5 DEF WakeupInv

LEMMA ReadKeepsWakeups ==
    ASSUME TypeOK, WakeupInv, NEW q \in Pods, ReadAttachment(q)
    PROVE  WakeupInv'
<1> DEFINE va == Cache.backend[NodeOf[q]]
<1>1. /\ UNCHANGED <<views, uid, seen, podSeen, queue>>
      /\ \A p \in Pods \ {q} : worker'[p] = worker[p]
  BY DEF ReadAttachment, apiVars, podVars, TypeOK
<1>2. va \in VA /\ va.present \in BOOLEAN /\ va.rv \in Nat /\ worker[q] \in Worker
  BY ViewTypes, NodeOfAssumption DEF View, VA, TypeOK
<1>3. \/ worker'[q] = IdleWorker /\ va.present /\ va.owner = worker[q].owner
      \/ worker'[q].pc # "idle" /\ worker'[q].owner = worker[q].owner
  BY <1>2 DEF ReadAttachment, TypeOK, Worker
<1>4. OwnersGiven
  BY <1>1, <1>3 DEF OwnersGiven, IdleWorker
<1>5. /\ ViewsDiffer' /\ UidsGiven' /\ ForGood(Api, uid)'
      /\ Cache' = Cache /\ Len(views') = Len(views)
  BY <1>1, <1>4, SameViewsKeepViews
<1>6. ASSUME NEW p \in Pods, p # q PROVE HasCause(p)'
  <2>1. (Dropped(p)' => Dropped(p)) /\ seen' = seen /\ worker'[p] = worker[p]
    BY <1>1, <1>6 DEF Dropped
  <2> QED
    BY <1>5, <2>1, CauseStays DEF WakeupInv
<1>7. HasCause(q)'
  <2>1. Settled(q) => Settled(q)'
    BY <1>3, <1>5 DEF Settled, ExclusivelyAttachedElsewhere, VolumeAttachedNodes
  <2> QED
    BY <1>1, <1>5, <2>1 DEF WakeupInv, HasCause, Dropped
<1> QED
  BY <1>5, <1>6, <1>7 DEF WakeupInv

\* A call that is answered changes the attachments; one that is not is retried.
LEMMA CallKeepsWakeups ==
    ASSUME TypeOK, WakeupInv, NEW q \in Pods, Apply(q) \/ ApplyRefused(q) \/ ApplyFails(q)
    PROVE  WakeupInv'
<1>1. /\ UNCHANGED <<podVars, seen, uid>> /\ queue \subseteq queue'
      /\ worker' = [worker EXCEPT ![q] = IdleWorker]
  BY DEF Apply, ApplyRefused, ApplyFails, apiVars
<1>2. \A p \in Pods : worker'[p].owner \in {0, worker[p].owner}
  BY <1>1 DEF IdleWorker, TypeOK
<1>3. CASE ApplyCall(q)
  <2>1. PICK new \in View : Writes(new)
    BY <1>1, <1>3, CallWrites DEF WakeupInv
  <2> QED
    BY <1>1, <1>2, <2>1, WriteKeepsWakeups
<1>4. CASE UNCHANGED views /\ q \in queue'
  <2>1. OwnersGiven
    BY <1>2 DEF OwnersGiven
  <2>2. /\ ViewsDiffer' /\ UidsGiven' /\ ForGood(Api, uid)'
        /\ Cache' = Cache /\ Len(views') = Len(views)
    BY <1>1, <1>4, <2>1, SameViewsKeepViews
  <2>3. ASSUME NEW p \in Pods, p # q PROVE HasCause(p)'
    <3>1. (Dropped(p)' => Dropped(p)) /\ seen' = seen /\ worker'[p] = worker[p]
      BY <1>1, <2>3 DEF Dropped, podVars, TypeOK
    <3> QED
      BY <2>2, <3>1, CauseStays DEF WakeupInv
  <2>4. HasCause(q)'
    BY <1>4 DEF HasCause, Dropped
  <2> QED
    BY <2>2, <2>3, <2>4 DEF WakeupInv
<1> QED
  BY <1>3, <1>4 DEF Apply, ApplyRefused, ApplyFails, apiVars

LEMMA WakeupStep ==
    ASSUME TypeOK, WakeupInv, [Next]_vars
    PROVE  WakeupInv'
<1>1. ASSUME UNCHANGED <<apiVars, podSeen, seen, queue, worker>> PROVE WakeupInv'
  <2>1. /\ ViewsDiffer' /\ UidsGiven' /\ ForGood(Api, uid)'
        /\ Cache' = Cache /\ Len(views') = Len(views)
    BY <1>1, SameViewsKeepViews DEF apiVars, OwnersGiven
  <2>2. \A p \in Pods : HasCause(p)'
    BY <1>1, <2>1, CauseStays DEF WakeupInv, Dropped
  <2> QED
    BY <2>1, <2>2 DEF WakeupInv
<1>2. ASSUME NEW p \in Pods, CreatePod(p) \/ DeletePod(p) \/ RemovePod(p) PROVE WakeupInv'
  BY <1>1, <1>2 DEF CreatePod, DeletePod, RemovePod
<1>3. ASSUME NEW n \in Nodes,
             \/ CreateProxyAttachment(n)
             \/ DeleteProxyAttachment(n)
             \/ AttacherAndGarbageCollector(n)
      PROVE  WakeupInv'
  <2>1. PICK new \in View : Writes(new)
    BY <1>3, OthersWrite DEF WakeupInv
  <2>2. UNCHANGED <<podVars, seen, queue, worker>>
    BY <1>3 DEF CreateProxyAttachment, DeleteProxyAttachment, AttacherAndGarbageCollector,
                CollectGarbage, Attach, Detach
  <2> QED
    BY <2>1, <2>2, WriteKeepsWakeups
<1>4. CASE UNCHANGED vars
  BY <1>1, <1>4 DEF vars, apiVars
<1> QED
  BY <1>2, <1>3, <1>4, PodEventKeepsWakeups, ObjectEventKeepsWakeups, AttachmentEventKeepsWakeups,
     RestartKeepsWakeups, SyncStartKeepsWakeups, ReadKeepsWakeups, CallKeepsWakeups
  DEF Next, Kubernetes, Informers, Syncing

LEMMA WakeupInit ==
    ASSUME Init
    PROVE  WakeupInv
<1>1. /\ Len(views) = 1 /\ Api = views[1] /\ uid = 0
      /\ \A n \in Nodes : /\ views[1].proxy[n] = 0 /\ views[1].backend[n].owner = 0
                          /\ ~views[1].backend[n].deleting
  BY DEF Init, Api, Absent
<1>2. \A p \in Pods : worker[p].owner = 0 /\ podSeen[p] # "running"
  BY DEF Init, IdleWorker
<1> QED
  BY <1>1, <1>2 DEF WakeupInv, ViewsDiffer, UidsGiven, ForGood, HasCause, Dropped

\* Whatever the access modes, the order of events and the failures, a running pod
\* without its attachment is on its way to it, or the volume is in use elsewhere.
THEOREM UnservedPodAlwaysQueued == Spec => []UnservedPodIsQueued
<1>1. Init => TypeOK /\ WakeupInv
  BY TypeInit, WakeupInit
<1>2. TypeOK /\ WakeupInv /\ [Next]_vars => (TypeOK /\ WakeupInv)'
  BY TypeStep, WakeupStep
<1>3. TypeOK /\ WakeupInv => UnservedPodIsQueued
  <2> SUFFICES ASSUME TypeOK, WakeupInv, NEW p \in Pods,
                      pods[p] = "running", Api.proxy[NodeOf[p]] # 0, Claims \subseteq seen,
                      AttachRequired, ~ExclusivelyAttachedElsewhere(NodeOf[p]),
                      p \notin queue, worker[p].pc = "idle", podSeen[p] = pods[p],
                      ~(Len(views) > 1)
               PROVE  Taken(NodeOf[p])
    BY DEF UnservedPodIsQueued
  <2>1. Cache = Api
    BY ViewTypes DEF Api
  <2>2. Settled(p)
    BY DEF WakeupInv, HasCause, Dropped
  <2>3. Api.backend[NodeOf[p]].present /\ Api.backend[NodeOf[p]].owner = Api.proxy[NodeOf[p]]
    BY <2>1, <2>2 DEF Settled
  <2> QED
    BY <2>3, NodeOfAssumption DEF Taken, Owned, WakeupInv, ForGood
<1> QED
  BY <1>1, <1>2, <1>3, PTL DEF Spec
=============================================================================
