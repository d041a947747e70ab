------------------------- MODULE NodeVolumesProofs -------------------------
(***************************************************************************)
(* Proofs about NodeVolumes, for any pods, volumes, backend drivers and    *)
(* number of faults.                                                       *)
(***************************************************************************)
EXTENDS NodeVolumes, TLAPS

-----------------------------------------------------------------------------
(***************************************************************************)
(* Type correctness.                                                       *)
(***************************************************************************)

\* The names the steps use are entries of the managers.
LEMMA KeysAreEntries ==
    /\ \A v \in Volumes : StagingTargetPath(v) \in Entries /\ Bind(v) \in Entries
    /\ \A p \in Pods : TargetPath(p) \in Entries
BY DEF Entries

\* Every step of a Save or a Delete keeps the types of the managers' state.
LEMMA EntryTypes ==
    ASSUME BindStateTypeOK, NEW k \in Entries, NEW w \in Pods \cup Volumes,
           \/ CreateFile(k, w)
           \/ EncodeFile(k, w)
           \/ EncodeFails(k, w)
           \/ Remember(k)
           \/ RemoveFile(k)
           \/ Forget(k)
           \/ UNCHANGED entryVars
    PROVE  BindStateTypeOK'
BY DEF BindStateTypeOK, CreateFile, EncodeFile, EncodeFails, Remember, RemoveFile, Forget,
       entryVars

\* So do the other building blocks of the steps, for the variables they set.
LEMMA FaultTypes ==
    ASSUME TypeOK, Fault \/ UNCHANGED faults
    PROVE  faults' \in 0..MaxFaults
BY MaxFaultsAssumption DEF TypeOK, Fault

\* A step of a publish or unpublish call.
LEMMA PodCallTypes ==
    ASSUME TypeOK, NEW p \in Pods, NEW from,
           NEW to \in {"idle"} \cup PublishSteps \cup UnpublishSteps, PodCall(p, from, to)
    PROVE  /\ podCall' \in [Pods -> {"idle"} \cup PublishSteps \cup UnpublishSteps]
           /\ volumeCall' = volumeCall
BY DEF TypeOK, PodCall

\* A step of a stage or unstage call.
LEMMA VolumeCallTypes ==
    ASSUME TypeOK, NEW v \in Volumes, NEW from,
           NEW to \in {"idle"} \cup StageSteps \cup UnstageSteps, VolumeCall(v, from, to)
    PROVE  /\ volumeCall' \in [Volumes -> {"idle"} \cup StageSteps \cup UnstageSteps]
           /\ podCall' = podCall
BY DEF TypeOK, VolumeCall

\* A step of the volume manager.
LEMMA ManagerTypes ==
    ASSUME TypeOK, NEW p \in Pods, NEW from, NEW to \in {"idle", "annotate"} \cup BeforePublish,
           ManagerStep(p, from, to)
    PROVE  manager' \in [Pods -> {"idle", "annotate"} \cup BeforePublish]
BY DEF TypeOK, ManagerStep

\* A step of the volume manager that puts the pod back.
LEMMA RequeueTypes ==
    ASSUME TypeOK, NEW p \in Pods, NEW from, Requeue(p, from)
    PROVE  /\ manager' \in [Pods -> {"idle", "annotate"} \cup BeforePublish]
           /\ queue' \subseteq Pods
BY DEF TypeOK, ManagerStep, Requeue

\* The types of NodeVolumes: whatever the kubelet, the volume manager, the
\* informers and the crashes do in one step, the state has a value TypeOK names.
THEOREM NodeTypeCorrect == Spec => []TypeOK
<1>1. Init => TypeOK
    BY MaxFaultsAssumption DEF Init, TypeOK, BindStateInit, BindStateTypeOK, PodStates
<1>2. TypeOK /\ [Next]_vars => TypeOK'
    <2> SUFFICES ASSUME TypeOK, [Next]_vars PROVE TypeOK'
        OBVIOUS
    <2> USE DEF callVars, kubeletVars, cacheVars, backendVars
    <2>0. BindStateTypeOK /\ \A p \in Pods : VolumeOf[p] \in Volumes
        BY VolumeOfAssumption DEF TypeOK
    <2>1. ASSUME NEW p \in Pods, CreatePod(p) PROVE TypeOK'
        BY <2>1, <2>0, EntryTypes, KeysAreEntries DEF CreatePod, TypeOK, PodStates
    <2>2. ASSUME NEW p \in Pods, DeletePod(p) PROVE TypeOK'
        BY <2>2, <2>0, EntryTypes, KeysAreEntries DEF DeletePod, TypeOK, PodStates
    <2>3. ASSUME NEW p \in Pods, RemovePod(p) PROVE TypeOK'
        BY <2>3, <2>0, EntryTypes, KeysAreEntries DEF RemovePod, TypeOK, PodStates
    <2>4. ASSUME NEW p \in Pods, DeliverPod(p) PROVE TypeOK'
        BY <2>4, <2>0, EntryTypes, KeysAreEntries DEF DeliverPod, TypeOK
    <2>5. ASSUME NEW p \in Pods, PodUpdated(p) PROVE TypeOK'
        BY <2>5, <2>0, EntryTypes, KeysAreEntries DEF PodUpdated, TypeOK
    <2>6. ASSUME NEW p \in Pods, NodePublishVolume(p) PROVE TypeOK'
        <3>1. BindStateTypeOK'
            BY <2>6, <2>0, EntryTypes, KeysAreEntries DEF NodePublishVolume
        <3>2. /\ podCall' \in [Pods -> {"idle"} \cup PublishSteps \cup UnpublishSteps]
              /\ volumeCall' = volumeCall
            BY <2>6, PodCallTypes DEF NodePublishVolume, PublishSteps
        <3> QED
            BY <2>6, <3>1, <3>2, FaultTypes DEF NodePublishVolume, TypeOK
    <2>7. ASSUME NEW p \in Pods, SaveTargetPathBind(p) PROVE TypeOK'
        <3>1. BindStateTypeOK'
            BY <2>7, <2>0, EntryTypes, KeysAreEntries DEF SaveTargetPathBind
        <3>2. /\ podCall' \in [Pods -> {"idle"} \cup PublishSteps \cup UnpublishSteps]
              /\ volumeCall' = volumeCall
            BY <2>7, PodCallTypes DEF SaveTargetPathBind, PublishSteps
        <3> QED
            BY <2>7, <3>1, <3>2, FaultTypes DEF SaveTargetPathBind, TypeOK
    <2>8. ASSUME NEW p \in Pods, SetUpTargetPathFails(p) PROVE TypeOK'
        <3>1. BindStateTypeOK'
            BY <2>8, <2>0, EntryTypes, KeysAreEntries DEF SetUpTargetPathFails
        <3>2. /\ podCall' \in [Pods -> {"idle"} \cup PublishSteps \cup UnpublishSteps]
              /\ volumeCall' = volumeCall
            BY <2>8, PodCallTypes DEF SetUpTargetPathFails, PublishSteps
        <3> QED
            BY <2>8, <3>1, <3>2, FaultTypes DEF SetUpTargetPathFails, TypeOK
    <2>9. ASSUME NEW p \in Pods, NodeUnpublishVolume(p) PROVE TypeOK'
        <3>1. BindStateTypeOK'
            BY <2>9, <2>0, EntryTypes, KeysAreEntries DEF NodeUnpublishVolume
        <3>2. /\ podCall' \in [Pods -> {"idle"} \cup PublishSteps \cup UnpublishSteps]
              /\ volumeCall' = volumeCall
            BY <2>9, PodCallTypes DEF NodeUnpublishVolume, UnpublishSteps
        <3> QED
            BY <2>9, <3>1, <3>2, FaultTypes DEF NodeUnpublishVolume, TypeOK
    <2>10. ASSUME NEW p \in Pods, UnpublishBackend(p) PROVE TypeOK'
        <3>1. BindStateTypeOK'
            BY <2>10, <2>0, EntryTypes, KeysAreEntries DEF UnpublishBackend
        <3>2. /\ podCall' \in [Pods -> {"idle"} \cup PublishSteps \cup UnpublishSteps]
              /\ volumeCall' = volumeCall
            BY <2>10, PodCallTypes DEF UnpublishBackend, UnpublishSteps
        <3> QED
            BY <2>10, <3>1, <3>2, FaultTypes DEF UnpublishBackend, TypeOK
    <2>11. ASSUME NEW p \in Pods, TearDownTargetPath(p) PROVE TypeOK'
        <3>1. BindStateTypeOK'
            BY <2>11, <2>0, EntryTypes, KeysAreEntries DEF TearDownTargetPath
        <3>2. /\ podCall' \in [Pods -> {"idle"} \cup PublishSteps \cup UnpublishSteps]
              /\ volumeCall' = volumeCall
            BY <2>11, PodCallTypes DEF TearDownTargetPath, UnpublishSteps
        <3> QED
            BY <2>11, <3>1, <3>2, FaultTypes DEF TearDownTargetPath, TypeOK
    <2>12. ASSUME NEW p \in Pods, DeleteTargetPathBind(p) PROVE TypeOK'
        <3>1. BindStateTypeOK'
            BY <2>12, <2>0, EntryTypes, KeysAreEntries DEF DeleteTargetPathBind
        <3>2. /\ podCall' \in [Pods -> {"idle"} \cup PublishSteps \cup UnpublishSteps]
              /\ volumeCall' = volumeCall
            BY <2>12, PodCallTypes DEF DeleteTargetPathBind, UnpublishSteps
        <3> QED
            BY <2>12, <3>1, <3>2, FaultTypes DEF DeleteTargetPathBind, TypeOK
    <2>13. ASSUME NEW p \in Pods, SyncPod(p) PROVE TypeOK'
        <3>1. BindStateTypeOK'
            BY <2>13, <2>0, EntryTypes, KeysAreEntries DEF SyncPod
        <3>2. /\ manager' \in [Pods -> {"idle", "annotate"} \cup BeforePublish]
              /\ queue' \subseteq Pods
            BY <2>13, ManagerTypes, RequeueTypes DEF SyncPod, BeforePublish, TypeOK
        <3> QED
            BY <2>13, <2>0, <3>1, <3>2, FaultTypes DEF SyncPod, TypeOK
    <2>14. ASSUME NEW p \in Pods, SaveVolumeBind(p) PROVE TypeOK'
        <3>1. BindStateTypeOK'
            BY <2>14, <2>0, EntryTypes, KeysAreEntries DEF SaveVolumeBind
        <3>2. /\ manager' \in [Pods -> {"idle", "annotate"} \cup BeforePublish]
              /\ queue' \subseteq Pods
            BY <2>14, ManagerTypes, RequeueTypes DEF SaveVolumeBind, BeforePublish, TypeOK
        <3> QED
            BY <2>14, <2>0, <3>1, <3>2, FaultTypes DEF SaveVolumeBind, TypeOK
    <2>15. ASSUME NEW p \in Pods, mountDevice(p) PROVE TypeOK'
        <3>1. BindStateTypeOK'
            BY <2>15, <2>0, EntryTypes, KeysAreEntries DEF mountDevice
        <3>2. /\ manager' \in [Pods -> {"idle", "annotate"} \cup BeforePublish]
              /\ queue' \subseteq Pods
            BY <2>15, ManagerTypes, RequeueTypes DEF mountDevice, BeforePublish, TypeOK
        <3> QED
            BY <2>15, <2>0, <3>1, <3>2, FaultTypes DEF mountDevice, TypeOK, Handles
    <2>16. ASSUME NEW p \in Pods, setUpAt(p) PROVE TypeOK'
        <3>1. BindStateTypeOK'
            BY <2>16, <2>0, EntryTypes, KeysAreEntries DEF setUpAt
        <3>2. /\ manager' \in [Pods -> {"idle", "annotate"} \cup BeforePublish]
              /\ queue' \subseteq Pods
            BY <2>16, ManagerTypes, RequeueTypes DEF setUpAt, BeforePublish, TypeOK
        <3> QED
            BY <2>16, <2>0, <3>1, <3>2, FaultTypes DEF setUpAt, TypeOK
    <2>17. ASSUME NEW p \in Pods, annotateMounted(p) PROVE TypeOK'
        <3>1. BindStateTypeOK'
            BY <2>17, <2>0, EntryTypes, KeysAreEntries DEF annotateMounted
        <3>2. /\ manager' \in [Pods -> {"idle", "annotate"} \cup BeforePublish]
              /\ queue' \subseteq Pods
            BY <2>17, ManagerTypes, RequeueTypes DEF annotateMounted, BeforePublish, TypeOK
        <3> QED
            BY <2>17, <2>0, <3>1, <3>2, FaultTypes DEF annotateMounted, TypeOK
    <2>18. ASSUME NEW v \in Volumes, NodeStageVolume(v) PROVE TypeOK'
        <3>1. BindStateTypeOK'
            BY <2>18, <2>0, EntryTypes, KeysAreEntries DEF NodeStageVolume
        <3>2. /\ volumeCall' \in [Volumes -> {"idle"} \cup StageSteps \cup UnstageSteps]
              /\ podCall' = podCall
            BY <2>18, VolumeCallTypes DEF NodeStageVolume, StageSteps
        <3> QED
            BY <2>18, <3>1, <3>2, FaultTypes DEF NodeStageVolume, TypeOK
    <2>19. ASSUME NEW v \in Volumes, BindStagingTargetPath(v) PROVE TypeOK'
        <3>1. BindStateTypeOK'
            BY <2>19, <2>0, EntryTypes, KeysAreEntries DEF BindStagingTargetPath
        <3>2. /\ volumeCall' \in [Volumes -> {"idle"} \cup StageSteps \cup UnstageSteps]
              /\ podCall' = podCall
            BY <2>19, VolumeCallTypes DEF BindStagingTargetPath, StageSteps
        <3> QED
            BY <2>19, <3>1, <3>2, FaultTypes DEF BindStagingTargetPath, TypeOK
    <2>20. ASSUME NEW v \in Volumes, NodeUnstageVolume(v) PROVE TypeOK'
        <3>1. BindStateTypeOK'
            BY <2>20, <2>0, EntryTypes, KeysAreEntries DEF NodeUnstageVolume
        <3>2. /\ volumeCall' \in [Volumes -> {"idle"} \cup StageSteps \cup UnstageSteps]
              /\ podCall' = podCall
            BY <2>20, VolumeCallTypes DEF NodeUnstageVolume, UnstageSteps
        <3> QED
            BY <2>20, <3>1, <3>2, FaultTypes DEF NodeUnstageVolume, TypeOK
    <2>21. ASSUME NEW v \in Volumes, UnstageBackend(v) PROVE TypeOK'
        <3>1. BindStateTypeOK'
            BY <2>21, <2>0, EntryTypes, KeysAreEntries DEF UnstageBackend
        <3>2. /\ volumeCall' \in [Volumes -> {"idle"} \cup StageSteps \cup UnstageSteps]
              /\ podCall' = podCall
            BY <2>21, VolumeCallTypes DEF UnstageBackend, UnstageSteps
        <3> QED
            BY <2>21, <3>1, <3>2, FaultTypes DEF UnstageBackend, TypeOK
    <2>22. ASSUME NEW v \in Volumes, DeleteVolumeBind(v) PROVE TypeOK'
        <3>1. BindStateTypeOK'
            BY <2>22, <2>0, EntryTypes, KeysAreEntries DEF DeleteVolumeBind
        <3>2. /\ volumeCall' \in [Volumes -> {"idle"} \cup StageSteps \cup UnstageSteps]
              /\ podCall' = podCall
            BY <2>22, VolumeCallTypes DEF DeleteVolumeBind, UnstageSteps
        <3> QED
            BY <2>22, <3>1, <3>2, FaultTypes DEF DeleteVolumeBind, TypeOK
    <2>23. ASSUME NEW v \in Volumes, UnbindStagingTargetPath(v) PROVE TypeOK'
        <3>1. BindStateTypeOK'
            BY <2>23, <2>0, EntryTypes, KeysAreEntries DEF UnbindStagingTargetPath
        <3>2. /\ volumeCall' \in [Volumes -> {"idle"} \cup StageSteps \cup UnstageSteps]
              /\ podCall' = podCall
            BY <2>23, VolumeCallTypes DEF UnbindStagingTargetPath, UnstageSteps
        <3> QED
            BY <2>23, <3>1, <3>2, FaultTypes DEF UnbindStagingTargetPath, TypeOK
    <2>24. ASSUME NEW v \in Volumes, NEW object \in Objects, DeliverObject(v, object) PROVE TypeOK'
        BY <2>24, <2>0, EntryTypes, KeysAreEntries DEF DeliverObject, TypeOK, PodsOf
    <2>25. CASE KubeletRestart
        BY <2>25, <2>0, FaultTypes DEF KubeletRestart, TypeOK, entryVars, BindStateTypeOK
    <2>26. CASE Crash
        BY <2>26, <2>0, FaultTypes DEF Crash, TypeOK, LoseMemory, BindStateTypeOK, PodStates
    <2>27. CASE Start
        BY <2>27, <2>0 DEF Start, TypeOK, Recreate, BindStateTypeOK
    <2>28. CASE UNCHANGED vars
        BY <2>28, <2>0 DEF vars, entryVars, BindStateTypeOK, TypeOK
    <2> QED
        BY <2>1, <2>2, <2>3, <2>4, <2>5, <2>6, <2>7, <2>8, <2>9, <2>10, <2>11, <2>12,
           <2>13, <2>14, <2>15, <2>16, <2>17, <2>18, <2>19, <2>20, <2>21, <2>22, <2>23,
           <2>24, <2>25, <2>26, <2>27, <2>28
           DEF Next, KubeletCall, KubeletDeviceCall, VolumeManager
<1> QED
    BY <1>1, <1>2, PTL DEF Spec

-----------------------------------------------------------------------------
(***************************************************************************)
(* The annotation.  AnnotatedIsMounted is not inductive: a sync that has   *)
(* mounted the volume annotates later, and an unpublish call unmounts      *)
(* later.  The one found the volume mounted, and the other is only made    *)
(* for a pod that is leaving.                                              *)
(***************************************************************************)

\* Nothing is known of a pod that does not exist yet.
AbsentIsUnknown ==
    \A p \in Pods : pod[p] = "absent" =>
        cached[p] = "absent" /\ manager[p] = "idle" /\ p \notin annotated

UnpublishedIsLeaving ==
    \A p \in Pods : podCall[p] \in UnpublishSteps => pod[p] \in {"leaving", "gone"}

AnnotatingIsMounted ==
    \A p \in Pods : (manager[p] = "annotate" /\ pod[p] = "wanted") => p \in published

AnnotationInvariant ==
    /\ TypeOK
    /\ AbsentIsUnknown
    /\ UnpublishedIsLeaving
    /\ AnnotatingIsMounted
    /\ AnnotatedIsMounted

\* The invariant speaks of six variables only.
LEMMA AnnotationFrame ==
    ASSUME AnnotationInvariant, TypeOK',
           UNCHANGED <<pod, cached, manager, podCall, published, annotated>>
    PROVE  AnnotationInvariant'
BY DEF AnnotationInvariant, AbsentIsUnknown, UnpublishedIsLeaving, AnnotatingIsMounted,
       AnnotatedIsMounted

\* The invariant is inductive, action by action.
LEMMA AnnotationStep ==
    ASSUME AnnotationInvariant, TypeOK', [Next]_vars
    PROVE  AnnotationInvariant'
<1> USE DEF AnnotationInvariant, AbsentIsUnknown, UnpublishedIsLeaving, AnnotatingIsMounted,
            AnnotatedIsMounted, callVars, kubeletVars, cacheVars, backendVars
<1>1. ASSUME NEW p \in Pods, CreatePod(p) PROVE AnnotationInvariant'
    BY <1>1 DEF CreatePod, TypeOK, PodStates, UnpublishSteps
<1>2. ASSUME NEW p \in Pods, DeletePod(p) PROVE AnnotationInvariant'
    BY <1>2 DEF DeletePod, TypeOK, PodStates, UnpublishSteps
<1>3. ASSUME NEW p \in Pods, RemovePod(p) PROVE AnnotationInvariant'
    BY <1>3 DEF RemovePod, TypeOK, PodStates, UnpublishSteps
<1>4. ASSUME NEW p \in Pods, DeliverPod(p) PROVE AnnotationInvariant'
    BY <1>4 DEF DeliverPod, TypeOK, PodStates, UnpublishSteps
<1>5. ASSUME NEW p \in Pods, PodUpdated(p) PROVE AnnotationInvariant'
    BY <1>5, AnnotationFrame DEF PodUpdated
<1>6. ASSUME NEW p \in Pods, NodePublishVolume(p) PROVE AnnotationInvariant'
    BY <1>6 DEF NodePublishVolume, PodCall, TypeOK, UnpublishSteps
<1>7. ASSUME NEW p \in Pods, SaveTargetPathBind(p) PROVE AnnotationInvariant'
    BY <1>7 DEF SaveTargetPathBind, PodCall, TypeOK, UnpublishSteps
<1>8. ASSUME NEW p \in Pods, SetUpTargetPathFails(p) PROVE AnnotationInvariant'
    BY <1>8 DEF SetUpTargetPathFails, PodCall, TypeOK, UnpublishSteps
<1>9. ASSUME NEW p \in Pods, NodeUnpublishVolume(p) PROVE AnnotationInvariant'
    BY <1>9 DEF NodeUnpublishVolume, PodCall, TypeOK, UnpublishSteps
<1>10. ASSUME NEW p \in Pods, UnpublishBackend(p) PROVE AnnotationInvariant'
    BY <1>10 DEF UnpublishBackend, PodCall, TypeOK, UnpublishSteps
<1>11. ASSUME NEW p \in Pods, TearDownTargetPath(p) PROVE AnnotationInvariant'
    BY <1>11 DEF TearDownTargetPath, PodCall, TypeOK, UnpublishSteps
<1>12. ASSUME NEW p \in Pods, DeleteTargetPathBind(p) PROVE AnnotationInvariant'
    BY <1>12 DEF DeleteTargetPathBind, PodCall, TypeOK, UnpublishSteps
<1>13. ASSUME NEW p \in Pods, SyncPod(p) PROVE AnnotationInvariant'
    BY <1>13 DEF SyncPod, ManagerStep, Requeue, TypeOK, ReadyToMount
<1>14. ASSUME NEW p \in Pods, SaveVolumeBind(p) PROVE AnnotationInvariant'
    BY <1>14 DEF SaveVolumeBind, ManagerStep, Requeue, TypeOK
<1>15. ASSUME NEW p \in Pods, mountDevice(p) PROVE AnnotationInvariant'
    BY <1>15 DEF mountDevice, ManagerStep, Requeue, TypeOK
<1>16. ASSUME NEW p \in Pods, setUpAt(p) PROVE AnnotationInvariant'
    BY <1>16 DEF setUpAt, ManagerStep, Requeue, TypeOK
<1>17. ASSUME NEW p \in Pods, annotateMounted(p) PROVE AnnotationInvariant'
    BY <1>17 DEF annotateMounted, ManagerStep, Requeue, TypeOK
<1>18. ASSUME NEW v \in Volumes, NodeStageVolume(v) PROVE AnnotationInvariant'
    BY <1>18, AnnotationFrame DEF NodeStageVolume, VolumeCall
<1>19. ASSUME NEW v \in Volumes, BindStagingTargetPath(v) PROVE AnnotationInvariant'
    BY <1>19, AnnotationFrame DEF BindStagingTargetPath, VolumeCall
<1>20. ASSUME NEW v \in Volumes, NodeUnstageVolume(v) PROVE AnnotationInvariant'
    BY <1>20, AnnotationFrame DEF NodeUnstageVolume, VolumeCall
<1>21. ASSUME NEW v \in Volumes, UnstageBackend(v) PROVE AnnotationInvariant'
    BY <1>21, AnnotationFrame DEF UnstageBackend, VolumeCall
<1>22. ASSUME NEW v \in Volumes, DeleteVolumeBind(v) PROVE AnnotationInvariant'
    BY <1>22, AnnotationFrame DEF DeleteVolumeBind, VolumeCall
<1>23. ASSUME NEW v \in Volumes, UnbindStagingTargetPath(v) PROVE AnnotationInvariant'
    BY <1>23, AnnotationFrame DEF UnbindStagingTargetPath, VolumeCall
<1>24. ASSUME NEW v \in Volumes, NEW object \in Objects, DeliverObject(v, object) PROVE AnnotationInvariant'
    BY <1>24, AnnotationFrame DEF DeliverObject
<1>25. CASE KubeletRestart
    BY <1>25, AnnotationFrame DEF KubeletRestart
<1>26. CASE Crash
    BY <1>26 DEF Crash, TypeOK, UnpublishSteps
<1>27. CASE Start
    BY <1>27 DEF Start, TypeOK
<1>28. CASE UNCHANGED vars
    BY <1>28, AnnotationFrame DEF vars
<1> QED
    BY <1>1, <1>2, <1>3, <1>4, <1>5, <1>6, <1>7, <1>8, <1>9, <1>10, <1>11, <1>12,
       <1>13, <1>14, <1>15, <1>16, <1>17, <1>18, <1>19, <1>20, <1>21, <1>22, <1>23,
       <1>24, <1>25, <1>26, <1>27, <1>28
       DEF Next, KubeletCall, KubeletDeviceCall, VolumeManager

\* Pods, syncs and annotations belong together all the time.
LEMMA AnnotationInvariantAlways == Spec => []AnnotationInvariant
<1>1. Init => AnnotationInvariant
    BY MaxFaultsAssumption
       DEF Init, AnnotationInvariant, TypeOK, BindStateInit, BindStateTypeOK, PodStates,
           AbsentIsUnknown, UnpublishedIsLeaving, AnnotatingIsMounted, AnnotatedIsMounted,
           UnpublishSteps
<1>2. AnnotationInvariant /\ TypeOK' /\ [Next]_vars => AnnotationInvariant'
    BY AnnotationStep
<1> QED
    BY <1>1, <1>2, NodeTypeCorrect, PTL DEF Spec

\* A pod that stays carries the volume-mounted annotation only while the
\* backend volume is mounted at its target path (sync_volume.go:174-184),
\* for any number of crashes, failures and repeated calls.
THEOREM AnnotatedAlwaysMounted == Spec => []AnnotatedIsMounted
<1>1. AnnotationInvariant => AnnotatedIsMounted
    BY DEF AnnotationInvariant
<1> QED
    BY <1>1, AnnotationInvariantAlways, PTL

-----------------------------------------------------------------------------
(***************************************************************************)
(* What the kubelet was told.  A call that saves a path is followed from   *)
(* the file it creates to the map; while it runs the kubelet is uncertain, *)
(* and nobody else touches the entry of that path.                         *)
(***************************************************************************)

\* The files and the map of the three managers are kept apart.
LEMMA KeysDiffer ==
    /\ \A v, u \in Volumes : StagingTargetPath(v) # Bind(u)
    /\ \A v \in Volumes, p \in Pods : TargetPath(p) # Bind(v) /\ TargetPath(p) # StagingTargetPath(v)
    /\ \A v, u \in Volumes : StagingTargetPath(v) = StagingTargetPath(u) => v = u
    /\ \A p, q \in Pods : TargetPath(p) = TargetPath(q) => p = q
BY DEF StagingTargetPath, Bind, TargetPath

SameEntry(e) ==
    /\ file'[e] = file[e]
    /\ open'[e] = open[e]
    /\ memory'[e] = memory[e]

\* A step of a Save or a Delete leaves all other entries alone.
LEMMA OtherEntries ==
    ASSUME BindStateTypeOK, NEW k \in Entries, NEW w \in Pods \cup Volumes,
           \/ CreateFile(k, w)
           \/ EncodeFile(k, w)
           \/ EncodeFails(k, w)
           \/ Remember(k)
           \/ RemoveFile(k)
           \/ Forget(k)
    PROVE  \A e \in Entries \ {k} : SameEntry(e)
BY DEF BindStateTypeOK, CreateFile, EncodeFile, EncodeFails, Remember, RemoveFile, Forget,
       SameEntry

PodRecorded(p) ==
    /\ podCall[p] # "idle" => up /\ mount[p] = "uncertain"
    /\ podCall[p] = "encode" => p \in open[TargetPath(p)]
    /\ podCall[p] = "remember" => file[TargetPath(p)] = "valid"
    /\ mount[p] = "mounted" =>
        file[TargetPath(p)] = "valid" /\ (up => memory[TargetPath(p)])

VolumeRecorded(v) ==
    /\ volumeCall[v] # "idle" => up /\ device[v] = "uncertain"
    /\ volumeCall[v] = "encode" => v \in open[StagingTargetPath(v)]
    /\ volumeCall[v] = "remember" => file[StagingTargetPath(v)] = "valid"
    /\ device[v] = "staged" =>
        file[StagingTargetPath(v)] = "valid" /\ (up => memory[StagingTargetPath(v)])

RecordInvariant ==
    /\ TypeOK
    /\ \A p \in Pods : PodRecorded(p)
    /\ \A v \in Volumes : VolumeRecorded(v)

\* What the record of a pod's target path depends on.
LEMMA PodRecordedFrame ==
    ASSUME NEW p \in Pods, PodRecorded(p), SameEntry(TargetPath(p)),
           up' = up, podCall'[p] = podCall[p], mount'[p] = mount[p]
    PROVE  PodRecorded(p)'
BY DEF PodRecorded, SameEntry

\* The same for a volume's staging path.
LEMMA VolumeRecordedFrame ==
    ASSUME NEW v \in Volumes, VolumeRecorded(v), SameEntry(StagingTargetPath(v)),
           up' = up, volumeCall'[v] = volumeCall[v], device'[v] = device[v]
    PROVE  VolumeRecorded(v)'
BY DEF VolumeRecorded, SameEntry

\* A step of the managers on another entry, or on none, and of nobody's call.
LEMMA RecordFrame ==
    ASSUME RecordInvariant, TypeOK', UNCHANGED <<up, podCall, volumeCall, mount, device>>,
           \A p \in Pods : SameEntry(TargetPath(p)),
           \A v \in Volumes : SameEntry(StagingTargetPath(v))
    PROVE  RecordInvariant'
BY PodRecordedFrame, VolumeRecordedFrame DEF RecordInvariant

\* A step of the call for pod p.
LEMMA PodCallFrame ==
    ASSUME RecordInvariant, TypeOK', NEW p \in Pods, PodRecorded(p)',
           UNCHANGED <<up, volumeCall, device>>,
           \A q \in Pods \ {p} : podCall'[q] = podCall[q] /\ mount'[q] = mount[q],
           \A e \in Entries \ {TargetPath(p)} : SameEntry(e)
    PROVE  RecordInvariant'
<1>1. \A q \in Pods \ {p} : PodRecorded(q)'
    BY PodRecordedFrame, KeysDiffer, KeysAreEntries DEF RecordInvariant
<1>2. \A v \in Volumes : VolumeRecorded(v)'
    BY VolumeRecordedFrame, KeysDiffer, KeysAreEntries DEF RecordInvariant
<1> QED
    BY <1>1, <1>2 DEF RecordInvariant

\* A step of the call for volume v, on its staging path or its bind.
LEMMA VolumeCallFrame ==
    ASSUME RecordInvariant, TypeOK', NEW v \in Volumes, VolumeRecorded(v)',
           UNCHANGED <<up, podCall, mount>>,
           \A u \in Volumes \ {v} : volumeCall'[u] = volumeCall[u] /\ device'[u] = device[u],
           \A e \in Entries \ {StagingTargetPath(v), Bind(v)} : SameEntry(e)
    PROVE  RecordInvariant'
<1>1. \A u \in Volumes \ {v} : VolumeRecorded(u)'
    BY VolumeRecordedFrame, KeysDiffer, KeysAreEntries DEF RecordInvariant
<1>2. \A p \in Pods : PodRecorded(p)'
    BY PodRecordedFrame, KeysDiffer, KeysAreEntries DEF RecordInvariant
<1> QED
    BY <1>1, <1>2 DEF RecordInvariant

\* The invariant is inductive, action by action.
LEMMA RecordStep ==
    ASSUME RecordInvariant, TypeOK', [Next]_vars
    PROVE  RecordInvariant'
<1> USE DEF callVars, kubeletVars, cacheVars, backendVars
<1>0. /\ TypeOK /\ BindStateTypeOK
      /\ \A p \in Pods : VolumeOf[p] \in Volumes
      /\ UNCHANGED entryVars => \A e \in Entries : SameEntry(e)
    BY VolumeOfAssumption DEF RecordInvariant, TypeOK, entryVars, SameEntry
<1>1. ASSUME NEW p \in Pods, CreatePod(p) PROVE RecordInvariant'
    BY <1>1, <1>0, RecordFrame, KeysAreEntries DEF CreatePod
<1>2. ASSUME NEW p \in Pods, DeletePod(p) PROVE RecordInvariant'
    BY <1>2, <1>0, RecordFrame, KeysAreEntries DEF DeletePod
<1>3. ASSUME NEW p \in Pods, RemovePod(p) PROVE RecordInvariant'
    BY <1>3, <1>0, RecordFrame, KeysAreEntries DEF RemovePod
<1>4. ASSUME NEW p \in Pods, DeliverPod(p) PROVE RecordInvariant'
    BY <1>4, <1>0, RecordFrame, KeysAreEntries DEF DeliverPod
<1>5. ASSUME NEW p \in Pods, PodUpdated(p) PROVE RecordInvariant'
    BY <1>5, <1>0, RecordFrame, KeysAreEntries DEF PodUpdated
<1>6. ASSUME NEW p \in Pods, SyncPod(p) PROVE RecordInvariant'
    BY <1>6, <1>0, RecordFrame, KeysAreEntries DEF SyncPod
<1>7. ASSUME NEW p \in Pods, mountDevice(p) PROVE RecordInvariant'
    BY <1>7, <1>0, RecordFrame, KeysAreEntries DEF mountDevice
<1>8. ASSUME NEW p \in Pods, setUpAt(p) PROVE RecordInvariant'
    BY <1>8, <1>0, RecordFrame, KeysAreEntries DEF setUpAt
<1>9. ASSUME NEW p \in Pods, annotateMounted(p) PROVE RecordInvariant'
    BY <1>9, <1>0, RecordFrame, KeysAreEntries DEF annotateMounted
<1>10. ASSUME NEW p \in Pods, SaveVolumeBind(p) PROVE RecordInvariant'
    <2>1. \A e \in Entries \ {Bind(VolumeOf[p])} : SameEntry(e)
        BY <1>10, <1>0, OtherEntries, KeysAreEntries DEF SaveVolumeBind
    <2> QED
        BY <1>10, <1>0, <2>1, RecordFrame, KeysAreEntries, KeysDiffer DEF SaveVolumeBind
<1>11. ASSUME NEW p \in Pods, NodePublishVolume(p) PROVE RecordInvariant'
    <2>1. \A e \in Entries \ {TargetPath(p)} : SameEntry(e)
        BY <1>11, <1>0, KeysAreEntries DEF NodePublishVolume
    <2>2. /\ \A q \in Pods \ {p} : podCall'[q] = podCall[q] /\ mount'[q] = mount[q]
          /\ UNCHANGED <<up, volumeCall, device>>
        BY <1>11, <1>0 DEF NodePublishVolume, PodCall, TypeOK
    <2>3. PodRecorded(p)'
        BY <1>11, <1>0, KeysAreEntries
           DEF RecordInvariant, PodRecorded, NodePublishVolume, PodCall, TypeOK, entryVars,
               NoCalls, PodsOf
    <2> QED
        BY <2>1, <2>2, <2>3, PodCallFrame
<1>12. ASSUME NEW p \in Pods, SaveTargetPathBind(p) PROVE RecordInvariant'
    <2>1. \A e \in Entries \ {TargetPath(p)} : SameEntry(e)
        BY <1>12, <1>0, OtherEntries, KeysAreEntries DEF SaveTargetPathBind
    <2>2. /\ \A q \in Pods \ {p} : podCall'[q] = podCall[q] /\ mount'[q] = mount[q]
          /\ UNCHANGED <<up, volumeCall, device>>
        BY <1>12, <1>0 DEF SaveTargetPathBind, PodCall, TypeOK
    <2>3. PodRecorded(p)'
        BY <1>12, <1>0, KeysAreEntries
           DEF RecordInvariant, PodRecorded, SaveTargetPathBind, PodCall, TypeOK, entryVars,
               CreateFile, EncodeFile, Remember, BindStateTypeOK
    <2> QED
        BY <2>1, <2>2, <2>3, PodCallFrame
<1>13. ASSUME NEW p \in Pods, SetUpTargetPathFails(p) PROVE RecordInvariant'
    <2>1. \A e \in Entries \ {TargetPath(p)} : SameEntry(e)
        BY <1>13, <1>0, OtherEntries, KeysAreEntries DEF SetUpTargetPathFails
    <2>2. /\ \A q \in Pods \ {p} : podCall'[q] = podCall[q] /\ mount'[q] = mount[q]
          /\ UNCHANGED <<up, volumeCall, device>>
        BY <1>13, <1>0 DEF SetUpTargetPathFails, PodCall, TypeOK
    <2>3. PodRecorded(p)'
        BY <1>13, <1>0, KeysAreEntries
           DEF RecordInvariant, PodRecorded, SetUpTargetPathFails, PodCall, TypeOK, entryVars,
               EncodeFails
    <2> QED
        BY <2>1, <2>2, <2>3, PodCallFrame
<1>14. ASSUME NEW p \in Pods, NodeUnpublishVolume(p) PROVE RecordInvariant'
    <2>1. \A e \in Entries \ {TargetPath(p)} : SameEntry(e)
        BY <1>14, <1>0, KeysAreEntries DEF NodeUnpublishVolume
    <2>2. /\ \A q \in Pods \ {p} : podCall'[q] = podCall[q] /\ mount'[q] = mount[q]
          /\ UNCHANGED <<up, volumeCall, device>>
        BY <1>14, <1>0 DEF NodeUnpublishVolume, PodCall, TypeOK
    <2>3. PodRecorded(p)'
        BY <1>14, <1>0, KeysAreEntries
           DEF RecordInvariant, PodRecorded, NodeUnpublishVolume, PodCall, TypeOK, entryVars
    <2> QED
        BY <2>1, <2>2, <2>3, PodCallFrame
<1>15. ASSUME NEW p \in Pods, UnpublishBackend(p) PROVE RecordInvariant'
    <2>1. \A e \in Entries \ {TargetPath(p)} : SameEntry(e)
        BY <1>15, <1>0, KeysAreEntries DEF UnpublishBackend
    <2>2. /\ \A q \in Pods \ {p} : podCall'[q] = podCall[q] /\ mount'[q] = mount[q]
          /\ UNCHANGED <<up, volumeCall, device>>
        BY <1>15, <1>0 DEF UnpublishBackend, PodCall, TypeOK
    <2>3. PodRecorded(p)'
        BY <1>15, <1>0, KeysAreEntries
           DEF RecordInvariant, PodRecorded, UnpublishBackend, PodCall, TypeOK, entryVars
    <2> QED
        BY <2>1, <2>2, <2>3, PodCallFrame
<1>16. ASSUME NEW p \in Pods, TearDownTargetPath(p) PROVE RecordInvariant'
    <2>1. \A e \in Entries \ {TargetPath(p)} : SameEntry(e)
        BY <1>16, <1>0, KeysAreEntries DEF TearDownTargetPath
    <2>2. /\ \A q \in Pods \ {p} : podCall'[q] = podCall[q] /\ mount'[q] = mount[q]
          /\ UNCHANGED <<up, volumeCall, device>>
        BY <1>16, <1>0 DEF TearDownTargetPath, PodCall, TypeOK
    <2>3. PodRecorded(p)'
        BY <1>16, <1>0, KeysAreEntries
           DEF RecordInvariant, PodRecorded, TearDownTargetPath, PodCall, TypeOK, entryVars
    <2> QED
        BY <2>1, <2>2, <2>3, PodCallFrame
<1>17. ASSUME NEW p \in Pods, DeleteTargetPathBind(p) PROVE RecordInvariant'
    <2>1. \A e \in Entries \ {TargetPath(p)} : SameEntry(e)
        BY <1>17, <1>0, OtherEntries, KeysAreEntries DEF DeleteTargetPathBind
    <2>2. /\ \A q \in Pods \ {p} : podCall'[q] = podCall[q] /\ mount'[q] = mount[q]
          /\ UNCHANGED <<up, volumeCall, device>>
        BY <1>17, <1>0 DEF DeleteTargetPathBind, PodCall, TypeOK
    <2>3. PodRecorded(p)'
        BY <1>17, <1>0, KeysAreEntries
           DEF RecordInvariant, PodRecorded, DeleteTargetPathBind, PodCall, TypeOK, entryVars,
               RemoveFile, Forget
    <2> QED
        BY <2>1, <2>2, <2>3, PodCallFrame
<1>18. ASSUME NEW v \in Volumes, NodeStageVolume(v) PROVE RecordInvariant'
    <2>1. \A e \in Entries \ {StagingTargetPath(v), Bind(v)} : SameEntry(e)
        BY <1>18, <1>0, OtherEntries, KeysAreEntries DEF NodeStageVolume
    <2>2. /\ \A u \in Volumes \ {v} : volumeCall'[u] = volumeCall[u] /\ device'[u] = device[u]
          /\ UNCHANGED <<up, podCall, mount>>
        BY <1>18, <1>0 DEF NodeStageVolume, VolumeCall, TypeOK
    <2>3. VolumeRecorded(v)'
        BY <1>18, <1>0, KeysAreEntries, KeysDiffer
           DEF RecordInvariant, VolumeRecorded, NodeStageVolume, VolumeCall, TypeOK, entryVars,
               CreateFile, BindStateTypeOK
    <2> QED
        BY <2>1, <2>2, <2>3, VolumeCallFrame
<1>19. ASSUME NEW v \in Volumes, BindStagingTargetPath(v) PROVE RecordInvariant'
    <2>1. \A e \in Entries \ {StagingTargetPath(v), Bind(v)} : SameEntry(e)
        BY <1>19, <1>0, OtherEntries, KeysAreEntries DEF BindStagingTargetPath
    <2>2. /\ \A u \in Volumes \ {v} : volumeCall'[u] = volumeCall[u] /\ device'[u] = device[u]
          /\ UNCHANGED <<up, podCall, mount>>
        BY <1>19, <1>0 DEF BindStagingTargetPath, VolumeCall, TypeOK
    <2>3. VolumeRecorded(v)'
        BY <1>19, <1>0, KeysAreEntries, KeysDiffer
           DEF RecordInvariant, VolumeRecorded, BindStagingTargetPath, VolumeCall, TypeOK,
               entryVars, EncodeFile, EncodeFails, Remember, BindStateTypeOK
    <2> QED
        BY <2>1, <2>2, <2>3, VolumeCallFrame
<1>20. ASSUME NEW v \in Volumes, NodeUnstageVolume(v) PROVE RecordInvariant'
    <2>1. \A e \in Entries \ {StagingTargetPath(v), Bind(v)} : SameEntry(e)
        BY <1>20, <1>0, KeysAreEntries DEF NodeUnstageVolume
    <2>2. /\ \A u \in Volumes \ {v} : volumeCall'[u] = volumeCall[u] /\ device'[u] = device[u]
          /\ UNCHANGED <<up, podCall, mount>>
        BY <1>20, <1>0 DEF NodeUnstageVolume, VolumeCall, TypeOK
    <2>3. VolumeRecorded(v)'
        BY <1>20, <1>0, KeysAreEntries, KeysDiffer
           DEF RecordInvariant, VolumeRecorded, NodeUnstageVolume, VolumeCall, TypeOK, entryVars
    <2> QED
        BY <2>1, <2>2, <2>3, VolumeCallFrame
<1>21. ASSUME NEW v \in Volumes, UnstageBackend(v) PROVE RecordInvariant'
    <2>1. \A e \in Entries \ {StagingTargetPath(v), Bind(v)} : SameEntry(e)
        BY <1>21, <1>0, KeysAreEntries DEF UnstageBackend
    <2>2. /\ \A u \in Volumes \ {v} : volumeCall'[u] = volumeCall[u] /\ device'[u] = device[u]
          /\ UNCHANGED <<up, podCall, mount>>
        BY <1>21, <1>0 DEF UnstageBackend, VolumeCall, TypeOK
    <2>3. VolumeRecorded(v)'
        BY <1>21, <1>0, KeysAreEntries, KeysDiffer
           DEF RecordInvariant, VolumeRecorded, UnstageBackend, VolumeCall, TypeOK, entryVars
    <2> QED
        BY <2>1, <2>2, <2>3, VolumeCallFrame
<1>22. ASSUME NEW v \in Volumes, DeleteVolumeBind(v) PROVE RecordInvariant'
    <2>1. \A e \in Entries \ {StagingTargetPath(v), Bind(v)} : SameEntry(e)
        BY <1>22, <1>0, OtherEntries, KeysAreEntries DEF DeleteVolumeBind
    <2>2. /\ \A u \in Volumes \ {v} : volumeCall'[u] = volumeCall[u] /\ device'[u] = device[u]
          /\ UNCHANGED <<up, podCall, mount>>
        BY <1>22, <1>0 DEF DeleteVolumeBind, VolumeCall, TypeOK
    <2>3. VolumeRecorded(v)'
        BY <1>22, <1>0, KeysAreEntries, KeysDiffer
           DEF RecordInvariant, VolumeRecorded, DeleteVolumeBind, VolumeCall, TypeOK,
               entryVars, RemoveFile, Forget
    <2> QED
        BY <2>1, <2>2, <2>3, VolumeCallFrame
<1>23. ASSUME NEW v \in Volumes, UnbindStagingTargetPath(v) PROVE RecordInvariant'
    <2>1. \A e \in Entries \ {StagingTargetPath(v), Bind(v)} : SameEntry(e)
        BY <1>23, <1>0, OtherEntries, KeysAreEntries DEF UnbindStagingTargetPath
    <2>2. /\ \A u \in Volumes \ {v} : volumeCall'[u] = volumeCall[u] /\ device'[u] = device[u]
          /\ UNCHANGED <<up, podCall, mount>>
        BY <1>23, <1>0 DEF UnbindStagingTargetPath, VolumeCall, TypeOK
    <2>3. VolumeRecorded(v)'
        BY <1>23, <1>0, KeysAreEntries, KeysDiffer
           DEF RecordInvariant, VolumeRecorded, UnbindStagingTargetPath, VolumeCall, TypeOK,
               entryVars, RemoveFile, Forget
    <2> QED
        BY <2>1, <2>2, <2>3, VolumeCallFrame
<1>24. ASSUME NEW v \in Volumes, NEW object \in Objects, DeliverObject(v, object) PROVE RecordInvariant'
    BY <1>24, <1>0, RecordFrame, KeysAreEntries DEF DeliverObject
<1>25. CASE KubeletRestart
    BY <1>25, <1>0
       DEF KubeletRestart, RecordInvariant, PodRecorded, VolumeRecorded, entryVars, NoCalls,
           PodsOf, TypeOK
<1>26. CASE Crash
    BY <1>26, <1>0 DEF Crash, LoseMemory, RecordInvariant, PodRecorded, VolumeRecorded
<1>27. CASE Start
    BY <1>27, <1>0, KeysAreEntries
       DEF Start, Recreate, RecordInvariant, PodRecorded, VolumeRecorded
<1>28. CASE UNCHANGED vars
    BY <1>28, <1>0, RecordFrame, KeysAreEntries DEF vars
<1> QED
    BY <1>1, <1>2, <1>3, <1>4, <1>5, <1>6, <1>7, <1>8, <1>9, <1>10, <1>11, <1>12,
       <1>13, <1>14, <1>15, <1>16, <1>17, <1>18, <1>19, <1>20, <1>21, <1>22, <1>23,
       <1>24, <1>25, <1>26, <1>27, <1>28
       DEF Next, KubeletCall, KubeletDeviceCall, VolumeManager

\* It holds at the start, before anything is recorded.
LEMMA RecordInit == Init => RecordInvariant
BY MaxFaultsAssumption
   DEF Init, RecordInvariant, TypeOK, BindStateInit, BindStateTypeOK, PodStates,
       PodRecorded, VolumeRecorded

\* Acknowledged paths are recorded, with the calls in progress accounted for.
LEMMA RecordInvariantAlways == Spec => []RecordInvariant
<1>1. RecordInvariant /\ TypeOK' /\ [Next]_vars => RecordInvariant'
    BY RecordStep
<1> QED
    BY RecordInit, <1>1, NodeTypeCorrect, PTL DEF Spec

\* A pod the kubelet was told is published has its target path recorded, and
\* a volume it was told is staged its staging path, on disk and, while the
\* process runs, in the map (sync_volume.go:50, getDeviceMountPath), through
\* any crashes, repeated calls and failed saves.
THEOREM AcknowledgedAlwaysRecorded == Spec => []AcknowledgedIsRecorded
<1>1. RecordInvariant => AcknowledgedIsRecorded
    BY DEF RecordInvariant, PodRecorded, VolumeRecorded, AcknowledgedIsRecorded
<1> QED
    BY <1>1, RecordInvariantAlways, PTL
-----------------------------------------------------------------------------
(***************************************************************************)
(* No lost wake-ups of the volume manager.                                 *)
(***************************************************************************)

\* What leaves the pods, the caches and the syncs alone cannot lose a wake-up.
LEMMA WakeupFrame ==
    ASSUME WaitingPodIsQueued,
           UNCHANGED <<up, pod, annotated, known, queue, manager, cached>>
    PROVE  WaitingPodIsQueued'
BY DEF WaitingPodIsQueued

\* The invariant is inductive on top of AnnotationInvariant, action by action.
LEMMA WakeupStep ==
    ASSUME AnnotationInvariant, WaitingPodIsQueued, [Next]_vars
    PROVE  WaitingPodIsQueued'
<1> USE DEF callVars, kubeletVars, cacheVars, backendVars, entryVars
<1>0. /\ WaitingPodIsQueued
      /\ \A p \in Pods : pod[p] = "absent" => cached[p] = "absent"
      /\ queue \subseteq Pods /\ VolumeOf \in [Pods -> Volumes]
      /\ manager \in [Pods -> {"idle", "annotate"} \cup BeforePublish]
      /\ known \in [Volumes -> SUBSET Objects]
      /\ pod \in [Pods -> PodStates] /\ cached \in [Pods -> PodStates]
    BY VolumeOfAssumption DEF AnnotationInvariant, AbsentIsUnknown, TypeOK
<1> USE DEF WaitingPodIsQueued
<1>1. ASSUME NEW p \in Pods, CreatePod(p) PROVE WaitingPodIsQueued'
    BY <1>1, <1>0 DEF CreatePod
<1>2. ASSUME NEW p \in Pods, DeletePod(p) PROVE WaitingPodIsQueued'
    BY <1>2, <1>0 DEF DeletePod
<1>3. ASSUME NEW p \in Pods, RemovePod(p) PROVE WaitingPodIsQueued'
    BY <1>3, <1>0 DEF RemovePod
<1>4. ASSUME NEW p \in Pods, DeliverPod(p) PROVE WaitingPodIsQueued'
    BY <1>4, <1>0 DEF DeliverPod
<1>5. ASSUME NEW p \in Pods, PodUpdated(p) PROVE WaitingPodIsQueued'
    BY <1>5, <1>0 DEF PodUpdated
<1>6. ASSUME NEW p \in Pods, NodePublishVolume(p) PROVE WaitingPodIsQueued'
    BY <1>6, WakeupFrame DEF NodePublishVolume
<1>7. ASSUME NEW p \in Pods, SaveTargetPathBind(p) PROVE WaitingPodIsQueued'
    BY <1>7, WakeupFrame DEF SaveTargetPathBind
<1>8. ASSUME NEW p \in Pods, SetUpTargetPathFails(p) PROVE WaitingPodIsQueued'
    BY <1>8, WakeupFrame DEF SetUpTargetPathFails
<1>9. ASSUME NEW p \in Pods, NodeUnpublishVolume(p) PROVE WaitingPodIsQueued'
    BY <1>9, WakeupFrame DEF NodeUnpublishVolume
<1>10. ASSUME NEW p \in Pods, UnpublishBackend(p) PROVE WaitingPodIsQueued'
    BY <1>10, WakeupFrame DEF UnpublishBackend
<1>11. ASSUME NEW p \in Pods, TearDownTargetPath(p) PROVE WaitingPodIsQueued'
    BY <1>11, WakeupFrame DEF TearDownTargetPath
<1>12. ASSUME NEW p \in Pods, DeleteTargetPathBind(p) PROVE WaitingPodIsQueued'
    BY <1>12, WakeupFrame DEF DeleteTargetPathBind
<1>13. ASSUME NEW p \in Pods, SyncPod(p) PROVE WaitingPodIsQueued'
    BY <1>13, <1>0 DEF SyncPod, NothingToSync, ReadyToMount, ManagerStep
<1>14. ASSUME NEW p \in Pods, SaveVolumeBind(p) PROVE WaitingPodIsQueued'
    BY <1>14, <1>0 DEF SaveVolumeBind, ManagerStep, Requeue
<1>15. ASSUME NEW p \in Pods, mountDevice(p) PROVE WaitingPodIsQueued'
    BY <1>15, <1>0 DEF mountDevice, ManagerStep, Requeue
<1>16. ASSUME NEW p \in Pods, setUpAt(p) PROVE WaitingPodIsQueued'
    BY <1>16, <1>0 DEF setUpAt, ManagerStep, Requeue
<1>17. ASSUME NEW p \in Pods, annotateMounted(p) PROVE WaitingPodIsQueued'
    BY <1>17, <1>0 DEF annotateMounted, ManagerStep, Requeue
<1>18. ASSUME NEW v \in Volumes, NodeStageVolume(v) PROVE WaitingPodIsQueued'
    BY <1>18, WakeupFrame DEF NodeStageVolume
<1>19. ASSUME NEW v \in Volumes, BindStagingTargetPath(v) PROVE WaitingPodIsQueued'
    BY <1>19, WakeupFrame DEF BindStagingTargetPath
<1>20. ASSUME NEW v \in Volumes, NodeUnstageVolume(v) PROVE WaitingPodIsQueued'
    BY <1>20, WakeupFrame DEF NodeUnstageVolume
<1>21. ASSUME NEW v \in Volumes, UnstageBackend(v) PROVE WaitingPodIsQueued'
    BY <1>21, WakeupFrame DEF UnstageBackend
<1>22. ASSUME NEW v \in Volumes, DeleteVolumeBind(v) PROVE WaitingPodIsQueued'
    BY <1>22, WakeupFrame DEF DeleteVolumeBind
<1>23. ASSUME NEW v \in Volumes, UnbindStagingTargetPath(v) PROVE WaitingPodIsQueued'
    BY <1>23, WakeupFrame DEF UnbindStagingTargetPath
<1>24. ASSUME NEW v \in Volumes, NEW object \in Objects, DeliverObject(v, object) PROVE WaitingPodIsQueued'
    BY <1>24, <1>0 DEF DeliverObject, HandlerNeeds, Objects, PodsOf, Alive
<1>25. CASE KubeletRestart
    BY <1>25, WakeupFrame DEF KubeletRestart
<1>26. CASE Crash
    BY <1>26, <1>0 DEF Crash
<1>27. CASE Start
    BY <1>27, <1>0 DEF Start
<1>28. CASE UNCHANGED vars
    BY <1>28, WakeupFrame DEF vars
<1> QED
    BY <1>1, <1>2, <1>3, <1>4, <1>5, <1>6, <1>7, <1>8, <1>9, <1>10, <1>11, <1>12, <1>13,
       <1>14, <1>15, <1>16, <1>17, <1>18, <1>19, <1>20, <1>21, <1>22, <1>23, <1>24, <1>25,
       <1>26, <1>27, <1>28
       DEF Next, KubeletCall, KubeletDeviceCall, VolumeManager

\* No wake-up of the volume manager is lost, whatever the order of pods, claims,
\* volumes, attachments and target paths, and through crashes and failures.
THEOREM WaitingPodAlwaysQueued == Spec => []WaitingPodIsQueued
<1>1. Init => WaitingPodIsQueued
    BY DEF Init, WaitingPodIsQueued
<1>2. AnnotationInvariant /\ WaitingPodIsQueued /\ [Next]_vars => WaitingPodIsQueued'
    BY WakeupStep
<1> QED
    BY <1>1, <1>2, AnnotationInvariantAlways, PTL DEF Spec
=============================================================================
