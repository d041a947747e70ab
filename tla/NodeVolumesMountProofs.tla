----------------------- MODULE NodeVolumesMountProofs -----------------------
(***************************************************************************)
(* While a volume is mounted its bind is recorded, for any pods, volumes,  *)
(* backend drivers and number of faults.                                   *)
(*                                                                         *)
(* The bind goes when the volume is unstaged, which the kubelet does when  *)
(* no pod has the volume mounted.  So the proof follows what the kubelet   *)
(* believes of a pod down to what the volume manager may still do for it.  *)
(***************************************************************************)
EXTENDS NodeVolumesProofs

\* A target path that is recorded is one the kubelet will have torn down, and
\* while the process runs the map has what the disk has.
TargetPathKept(p) ==
    /\ memory[TargetPath(p)] => up /\ mount[p] # "none"
    /\ file[TargetPath(p)] = "valid" => mount[p] # "none"
    /\ (up /\ file[TargetPath(p)] = "valid") => memory[TargetPath(p)] \/ podCall[p] = "remember"
    /\ podCall[p] = "forget" => file[TargetPath(p)] # "valid"

\* Once the directory is taken down the volume is not mounted, and no sync that
\* is not counted as raced is on its way to mount it.
DismountedIsSettled(p) ==
    (p \notin raced /\ (mount[p] = "none" \/ podCall[p] \in {"remove", "forget"})) =>
        p \notin published /\ manager[p] \notin BeforePublish

\* The bind is saved before it is needed.
BindKept(p) ==
    p \notin raced =>
        /\ (p \in published \/ manager[p] \in BeforePublish \ {"save"}) =>
            file[Bind(VolumeOf[p])] # "absent"
        /\ (up /\ (p \in published \/ manager[p] \in {"stage", "publish"})) =>
            memory[Bind(VolumeOf[p])]

UnstagedIsUnmounted(v) ==
    volumeCall[v] \in UnstageSteps => \A p \in PodsOf(v) : mount[p] = "none"

MountInvariant ==
    /\ RecordInvariant
    /\ \A p \in Pods :
        /\ manager[p] # "idle" => up
        /\ TargetPathKept(p)
        /\ DismountedIsSettled(p)
        /\ BindKept(p)
    /\ \A v \in Volumes : UnstagedIsUnmounted(v)

-----------------------------------------------------------------------------
(***************************************************************************)
(* What each part of the invariant does not depend on.                     *)
(***************************************************************************)

\* The entry of the target path, and the call and the mount of that pod.
LEMMA TargetPathFrame ==
    ASSUME NEW p \in Pods, TargetPathKept(p), SameEntry(TargetPath(p)), up' = up,
           podCall'[p] = podCall[p], mount'[p] = mount[p]
    PROVE  TargetPathKept(p)'
BY DEF TargetPathKept, SameEntry

\* Saving a bind again does no harm to the pods that have it.
LEMMA BindMonotone ==
    ASSUME NEW p \in Pods, BindKept(p), UNCHANGED <<up, published, raced>>,
           manager'[p] = manager[p],
           memory[Bind(VolumeOf[p])] => memory'[Bind(VolumeOf[p])],
           file[Bind(VolumeOf[p])] # "absent" => file'[Bind(VolumeOf[p])] # "absent"
    PROVE  BindKept(p)'
BY DEF BindKept

\* The entry of the bind, and where the pods' syncs and mounts are.
LEMMA BindFrame ==
    ASSUME NEW p \in Pods, BindKept(p), SameEntry(Bind(VolumeOf[p])),
           UNCHANGED <<up, manager, published, raced>>
    PROVE  BindKept(p)'
BY DEF BindKept, SameEntry

\* A step that leaves the entries, the calls and the kubelet's beliefs alone.
LEMMA ManagerFrame ==
    ASSUME MountInvariant, RecordInvariant', UNCHANGED <<entryVars, up, callVars, mount>>,
           \A p \in Pods :
               (manager'[p] # "idle" => up) /\ DismountedIsSettled(p)' /\ BindKept(p)'
    PROVE  MountInvariant'
BY DEF MountInvariant, TargetPathKept, UnstagedIsUnmounted, entryVars, callVars

\* A step of the call for pod p that leaves the volume manager alone.
LEMMA PodCallMountFrame ==
    ASSUME MountInvariant, RecordInvariant', NEW p \in Pods,
           TargetPathKept(p)', DismountedIsSettled(p)', BindKept(p)',
           volumeCall[VolumeOf[p]] = "idle" \/ mount'[p] = "none" \/ mount[p] # "none",
           UNCHANGED <<up, volumeCall, manager>>,
           \A q \in Pods \ {p} :
               /\ podCall'[q] = podCall[q] /\ mount'[q] = mount[q]
               /\ (q \in raced' <=> q \in raced) /\ (q \in published' <=> q \in published),
           \A e \in Entries \ {TargetPath(p)} : SameEntry(e)
    PROVE  MountInvariant'
<1> USE VolumeOfAssumption
<1>1. \A q \in Pods \ {p} : TargetPathKept(q)'
    BY TargetPathFrame, KeysDiffer, KeysAreEntries DEF MountInvariant
<1>2. \A q \in Pods \ {p} : DismountedIsSettled(q)' /\ BindKept(q)'
    BY KeysDiffer, KeysAreEntries DEF MountInvariant, DismountedIsSettled, BindKept, SameEntry
<1>3. \A v \in Volumes : UnstagedIsUnmounted(v)'
    BY DEF MountInvariant, UnstagedIsUnmounted, PodsOf, UnstageSteps
<1> QED
    BY <1>1, <1>2, <1>3 DEF MountInvariant

\* A step of the call for volume v that leaves the bind alone.
LEMMA VolumeCallMountFrame ==
    ASSUME MountInvariant, RecordInvariant', NEW v \in Volumes,
           UnstagedIsUnmounted(v)',
           UNCHANGED <<up, podCall, manager, mount, published, raced>>,
           \A u \in Volumes \ {v} : volumeCall'[u] = volumeCall[u],
           \A e \in Entries \ {StagingTargetPath(v)} : SameEntry(e)
    PROVE  MountInvariant'
<1> USE VolumeOfAssumption
<1>1. \A p \in Pods : TargetPathKept(p)' /\ BindKept(p)'
    BY TargetPathFrame, BindFrame, KeysDiffer, KeysAreEntries DEF MountInvariant
<1>2. \A p \in Pods : DismountedIsSettled(p)'
    BY DEF MountInvariant, DismountedIsSettled
<1>3. \A u \in Volumes : UnstagedIsUnmounted(u)'
    BY DEF MountInvariant, UnstagedIsUnmounted
<1> QED
    BY <1>1, <1>2, <1>3 DEF MountInvariant

-----------------------------------------------------------------------------
\* The invariant is inductive, action by action.
LEMMA MountStep ==
    ASSUME MountInvariant, RecordInvariant', [Next]_vars
    PROVE  MountInvariant'
<1> USE DEF callVars, kubeletVars, cacheVars, backendVars
<1>0. /\ RecordInvariant /\ TypeOK /\ TypeOK' /\ BindStateTypeOK
      /\ \A p \in Pods : VolumeOf[p] \in Volumes
      /\ UNCHANGED entryVars => \A e \in Entries : SameEntry(e)
    BY VolumeOfAssumption DEF MountInvariant, RecordInvariant, TypeOK, entryVars, SameEntry
<1>1. ASSUME NEW p \in Pods, CreatePod(p) PROVE MountInvariant'
    BY <1>1, <1>0, ManagerFrame
       DEF CreatePod, MountInvariant, DismountedIsSettled, BindKept, entryVars
<1>2. ASSUME NEW p \in Pods, DeletePod(p) PROVE MountInvariant'
    BY <1>2, <1>0, ManagerFrame
       DEF DeletePod, MountInvariant, DismountedIsSettled, BindKept, entryVars
<1>3. ASSUME NEW p \in Pods, RemovePod(p) PROVE MountInvariant'
    BY <1>3, <1>0, ManagerFrame
       DEF RemovePod, MountInvariant, DismountedIsSettled, BindKept, entryVars
<1>4. ASSUME NEW p \in Pods, DeliverPod(p) PROVE MountInvariant'
    BY <1>4, <1>0, ManagerFrame
       DEF DeliverPod, MountInvariant, DismountedIsSettled, BindKept, entryVars
<1>5. ASSUME NEW p \in Pods, PodUpdated(p) PROVE MountInvariant'
    BY <1>5, <1>0, ManagerFrame
       DEF PodUpdated, MountInvariant, DismountedIsSettled, BindKept, entryVars
<1>6. ASSUME NEW p \in Pods, SyncPod(p) PROVE MountInvariant'
    <2>1. \A q \in Pods : DismountedIsSettled(q)'
        BY <1>6, <1>0
           DEF SyncPod, MountInvariant, DismountedIsSettled, ManagerStep, Requeue, TypeOK,
               BeforePublish, ReadyToMount, TargetPathKept
    <2>2. \A q \in Pods : BindKept(q)' /\ (manager'[q] # "idle" => up)
        BY <1>6, <1>0
           DEF SyncPod, MountInvariant, BindKept, ManagerStep, Requeue, TypeOK, BeforePublish,
               entryVars
    <2> QED
        BY <1>6, <2>1, <2>2, <1>0, ManagerFrame DEF SyncPod
<1>7. ASSUME NEW p \in Pods, mountDevice(p) PROVE MountInvariant'
    <2>1. \A q \in Pods : DismountedIsSettled(q)'
        BY <1>7, <1>0
           DEF mountDevice, MountInvariant, DismountedIsSettled, ManagerStep, Requeue, TypeOK,
               BeforePublish
    <2>2. \A q \in Pods : BindKept(q)' /\ (manager'[q] # "idle" => up)
        BY <1>7, <1>0
           DEF mountDevice, MountInvariant, BindKept, ManagerStep, Requeue, TypeOK,
               BeforePublish, entryVars
    <2> QED
        BY <1>7, <2>1, <2>2, <1>0, ManagerFrame DEF mountDevice
<1>8. ASSUME NEW p \in Pods, setUpAt(p) PROVE MountInvariant'
    <2>1. \A q \in Pods : DismountedIsSettled(q)'
        BY <1>8, <1>0
           DEF setUpAt, MountInvariant, DismountedIsSettled, ManagerStep, Requeue, TypeOK,
               BeforePublish
    <2>2. \A q \in Pods : BindKept(q)' /\ (manager'[q] # "idle" => up)
        BY <1>8, <1>0
           DEF setUpAt, MountInvariant, BindKept, ManagerStep, Requeue, TypeOK, BeforePublish,
               entryVars
    <2> QED
        BY <1>8, <2>1, <2>2, <1>0, ManagerFrame DEF setUpAt
<1>9. ASSUME NEW p \in Pods, annotateMounted(p) PROVE MountInvariant'
    <2>1. \A q \in Pods : DismountedIsSettled(q)'
        BY <1>9, <1>0
           DEF annotateMounted, MountInvariant, DismountedIsSettled, ManagerStep, Requeue,
               TypeOK, BeforePublish
    <2>2. \A q \in Pods : BindKept(q)' /\ (manager'[q] # "idle" => up)
        BY <1>9, <1>0
           DEF annotateMounted, MountInvariant, BindKept, ManagerStep, Requeue, TypeOK,
               BeforePublish, entryVars
    <2> QED
        BY <1>9, <2>1, <2>2, <1>0, ManagerFrame DEF annotateMounted
<1>10. ASSUME NEW p \in Pods, SaveVolumeBind(p) PROVE MountInvariant'
    <2>1. \A e \in Entries \ {Bind(VolumeOf[p])} : SameEntry(e)
        BY <1>10, <1>0, OtherEntries, KeysAreEntries DEF SaveVolumeBind
    <2>2. \A q \in Pods : TargetPathKept(q)'
        BY <1>10, <1>0, <2>1, TargetPathFrame, KeysAreEntries, KeysDiffer
           DEF SaveVolumeBind, MountInvariant
    <2>3. \A q \in Pods : DismountedIsSettled(q)' /\ (manager'[q] # "idle" => up')
        BY <1>10, <1>0
           DEF SaveVolumeBind, MountInvariant, DismountedIsSettled, ManagerStep, Requeue,
                       TypeOK, BeforePublish
    <2>4. \A q \in Pods : BindKept(q)'
        <3>1. /\ memory[Bind(VolumeOf[p])] => memory'[Bind(VolumeOf[p])]
              /\ file[Bind(VolumeOf[p])] # "absent" => file'[Bind(VolumeOf[p])] # "absent"
            BY <1>10, <1>0, KeysAreEntries
               DEF SaveVolumeBind, CreateFile, EncodeFile, EncodeFails, Remember, BindStateTypeOK
        <3>2. /\ manager[p] = "save" => file'[Bind(VolumeOf[p])] # "absent"
              /\ manager[p] = "remember" => memory'[Bind(VolumeOf[p])]
            BY <1>10, <1>0, KeysAreEntries
               DEF SaveVolumeBind, CreateFile, Remember, BindStateTypeOK, ManagerStep, Requeue
        <3>3. \A q \in Pods :
                  /\ memory[Bind(VolumeOf[q])] => memory'[Bind(VolumeOf[q])]
                  /\ file[Bind(VolumeOf[q])] # "absent" => file'[Bind(VolumeOf[q])] # "absent"
            BY <3>1, <2>1, <1>0, KeysAreEntries DEF SameEntry
        <3>4. \A q \in Pods \ {p} : manager'[q] = manager[q]
            BY <1>10, <1>0 DEF SaveVolumeBind, ManagerStep, Requeue, TypeOK
        <3>5. UNCHANGED <<up, published, raced>>
            BY <1>10 DEF SaveVolumeBind
        <3>6. \A q \in Pods \ {p} : BindKept(q)'
            <4> SUFFICES ASSUME NEW q \in Pods \ {p} PROVE BindKept(q)'
                OBVIOUS
            <4>1. BindKept(q)
                BY DEF MountInvariant
            <4> QED
                BY <4>1, <3>3, <3>4, <3>5, BindMonotone
        <3>7. \/ manager[p] = "save" /\ manager'[p] = "encode"
              \/ manager[p] = "encode" /\ manager'[p] \in {"remember", "idle"}
              \/ manager[p] = "remember" /\ manager'[p] \in {"stage", "publish"}
            BY <1>10, <1>0 DEF SaveVolumeBind, ManagerStep, Requeue, TypeOK
        <3>8. BindKept(p)'
            BY <3>2, <3>3, <3>5, <3>7 DEF MountInvariant, BindKept, BeforePublish
        <3> QED
            BY <3>6, <3>8
    <2> QED
        BY <1>10, <2>2, <2>3, <2>4 DEF SaveVolumeBind, MountInvariant, UnstagedIsUnmounted
<1>11. ASSUME NEW p \in Pods, NodePublishVolume(p) PROVE MountInvariant'
    <2>1. \A e \in Entries \ {TargetPath(p)} : SameEntry(e)
        BY <1>11, <1>0, KeysAreEntries DEF NodePublishVolume
    <2>2. /\ \A q \in Pods \ {p} :
              /\ podCall'[q] = podCall[q] /\ mount'[q] = mount[q]
              /\ (q \in raced' <=> q \in raced) /\ (q \in published' <=> q \in published)
          /\ UNCHANGED <<up, volumeCall, manager>>
          /\ volumeCall[VolumeOf[p]] = "idle" \/ mount'[p] = "none" \/ mount[p] # "none"
        BY <1>11, <1>0
           DEF NodePublishVolume, PodCall, TypeOK, RecordInvariant, PodRecorded, NoCalls
    <2>3. TargetPathKept(p)'
        BY <1>11, <1>0, KeysAreEntries
           DEF MountInvariant, RecordInvariant, PodRecorded, TargetPathKept, NodePublishVolume,
               PodCall, TypeOK,
               entryVars, BindStateTypeOK
    <2>4. DismountedIsSettled(p)'
        BY <1>11, <1>0
           DEF MountInvariant, RecordInvariant, PodRecorded, DismountedIsSettled,
               NodePublishVolume, PodCall, TypeOK
    <2>5. BindKept(p)'
        BY <1>11, <1>0, <2>1, KeysAreEntries, KeysDiffer
           DEF MountInvariant, BindKept, SameEntry, NodePublishVolume
    <2> QED
        BY <2>1, <2>2, <2>3, <2>4, <2>5, PodCallMountFrame
<1>12. ASSUME NEW p \in Pods, SaveTargetPathBind(p) PROVE MountInvariant'
    <2>1. \A e \in Entries \ {TargetPath(p)} : SameEntry(e)
        BY <1>12, <1>0, OtherEntries, KeysAreEntries DEF SaveTargetPathBind
    <2>2. /\ \A q \in Pods \ {p} :
              /\ podCall'[q] = podCall[q] /\ mount'[q] = mount[q]
              /\ (q \in raced' <=> q \in raced) /\ (q \in published' <=> q \in published)
          /\ UNCHANGED <<up, volumeCall, manager>>
          /\ volumeCall[VolumeOf[p]] = "idle" \/ mount'[p] = "none" \/ mount[p] # "none"
        BY <1>12, <1>0
           DEF SaveTargetPathBind, PodCall, TypeOK, RecordInvariant, PodRecorded, NoCalls
    <2>3. TargetPathKept(p)'
        BY <1>12, <1>0, KeysAreEntries
           DEF MountInvariant, RecordInvariant, PodRecorded, TargetPathKept,
               SaveTargetPathBind, PodCall, TypeOK,
               entryVars, BindStateTypeOK, CreateFile, EncodeFile, Remember
    <2>4. DismountedIsSettled(p)'
        BY <1>12, <1>0
           DEF MountInvariant, RecordInvariant, PodRecorded, DismountedIsSettled,
               SaveTargetPathBind, PodCall, TypeOK
    <2>5. BindKept(p)'
        BY <1>12, <1>0, <2>1, KeysAreEntries, KeysDiffer
           DEF MountInvariant, BindKept, SameEntry, SaveTargetPathBind
    <2> QED
        BY <2>1, <2>2, <2>3, <2>4, <2>5, PodCallMountFrame
<1>13. ASSUME NEW p \in Pods, SetUpTargetPathFails(p) PROVE MountInvariant'
    <2>1. \A e \in Entries \ {TargetPath(p)} : SameEntry(e)
        BY <1>13, <1>0, OtherEntries, KeysAreEntries DEF SetUpTargetPathFails
    <2>2. /\ \A q \in Pods \ {p} :
              /\ podCall'[q] = podCall[q] /\ mount'[q] = mount[q]
              /\ (q \in raced' <=> q \in raced) /\ (q \in published' <=> q \in published)
          /\ UNCHANGED <<up, volumeCall, manager>>
          /\ volumeCall[VolumeOf[p]] = "idle" \/ mount'[p] = "none" \/ mount[p] # "none"
        BY <1>13, <1>0
           DEF SetUpTargetPathFails, PodCall, TypeOK, RecordInvariant, PodRecorded, NoCalls
    <2>3. TargetPathKept(p)'
        BY <1>13, <1>0, KeysAreEntries
           DEF MountInvariant, RecordInvariant, PodRecorded, TargetPathKept,
               SetUpTargetPathFails, PodCall, TypeOK,
               entryVars, BindStateTypeOK, EncodeFails
    <2>4. DismountedIsSettled(p)'
        BY <1>13, <1>0
           DEF MountInvariant, RecordInvariant, PodRecorded, DismountedIsSettled,
               SetUpTargetPathFails, PodCall, TypeOK
    <2>5. BindKept(p)'
        BY <1>13, <1>0, <2>1, KeysAreEntries, KeysDiffer
           DEF MountInvariant, BindKept, SameEntry, SetUpTargetPathFails
    <2> QED
        BY <2>1, <2>2, <2>3, <2>4, <2>5, PodCallMountFrame
<1>14. ASSUME NEW p \in Pods, NodeUnpublishVolume(p) PROVE MountInvariant'
    <2>1. \A e \in Entries \ {TargetPath(p)} : SameEntry(e)
        BY <1>14, <1>0, KeysAreEntries DEF NodeUnpublishVolume
    <2>2. /\ \A q \in Pods \ {p} :
              /\ podCall'[q] = podCall[q] /\ mount'[q] = mount[q]
              /\ (q \in raced' <=> q \in raced) /\ (q \in published' <=> q \in published)
          /\ UNCHANGED <<up, volumeCall, manager>>
          /\ volumeCall[VolumeOf[p]] = "idle" \/ mount'[p] = "none" \/ mount[p] # "none"
        BY <1>14, <1>0
           DEF NodeUnpublishVolume, PodCall, TypeOK, RecordInvariant, PodRecorded, NoCalls
    <2>3. TargetPathKept(p)'
        BY <1>14, <1>0, KeysAreEntries
           DEF MountInvariant, RecordInvariant, PodRecorded, TargetPathKept,
               NodeUnpublishVolume, PodCall, TypeOK,
               entryVars, BindStateTypeOK
    <2>4. DismountedIsSettled(p)'
        BY <1>14, <1>0
           DEF MountInvariant, RecordInvariant, PodRecorded, DismountedIsSettled,
               NodeUnpublishVolume, PodCall, TypeOK
    <2>5. BindKept(p)'
        BY <1>14, <1>0, <2>1, KeysAreEntries, KeysDiffer
           DEF MountInvariant, BindKept, SameEntry, NodeUnpublishVolume
    <2> QED
        BY <2>1, <2>2, <2>3, <2>4, <2>5, PodCallMountFrame
<1>15. ASSUME NEW p \in Pods, UnpublishBackend(p) PROVE MountInvariant'
    <2>1. \A e \in Entries \ {TargetPath(p)} : SameEntry(e)
        BY <1>15, <1>0, KeysAreEntries DEF UnpublishBackend
    <2>2. /\ \A q \in Pods \ {p} :
              /\ podCall'[q] = podCall[q] /\ mount'[q] = mount[q]
              /\ (q \in raced' <=> q \in raced) /\ (q \in published' <=> q \in published)
          /\ UNCHANGED <<up, volumeCall, manager>>
          /\ volumeCall[VolumeOf[p]] = "idle" \/ mount'[p] = "none" \/ mount[p] # "none"
        BY <1>15, <1>0
           DEF UnpublishBackend, PodCall, TypeOK, RecordInvariant, PodRecorded, NoCalls
    <2>3. TargetPathKept(p)'
        BY <1>15, <1>0, KeysAreEntries
           DEF MountInvariant, RecordInvariant, PodRecorded, TargetPathKept, UnpublishBackend,
               PodCall, TypeOK,
               entryVars, BindStateTypeOK
    <2>4. DismountedIsSettled(p)'
        BY <1>15, <1>0
           DEF MountInvariant, RecordInvariant, PodRecorded, DismountedIsSettled,
               UnpublishBackend, PodCall, TypeOK
    <2>5. BindKept(p)'
        BY <1>15, <1>0, <2>1, KeysAreEntries, KeysDiffer
           DEF MountInvariant, BindKept, SameEntry, UnpublishBackend
    <2> QED
        BY <2>1, <2>2, <2>3, <2>4, <2>5, PodCallMountFrame
<1>16. ASSUME NEW p \in Pods, TearDownTargetPath(p) PROVE MountInvariant'
    <2>1. \A e \in Entries \ {TargetPath(p)} : SameEntry(e)
        BY <1>16, <1>0, KeysAreEntries DEF TearDownTargetPath
    <2>2. /\ \A q \in Pods \ {p} :
              /\ podCall'[q] = podCall[q] /\ mount'[q] = mount[q]
              /\ (q \in raced' <=> q \in raced) /\ (q \in published' <=> q \in published)
          /\ UNCHANGED <<up, volumeCall, manager>>
          /\ volumeCall[VolumeOf[p]] = "idle" \/ mount'[p] = "none" \/ mount[p] # "none"
        BY <1>16, <1>0
           DEF TearDownTargetPath, PodCall, TypeOK, RecordInvariant, PodRecorded, NoCalls
    <2>3. TargetPathKept(p)'
        BY <1>16, <1>0, KeysAreEntries
           DEF MountInvariant, RecordInvariant, PodRecorded, TargetPathKept,
               TearDownTargetPath, PodCall, TypeOK,
               entryVars, BindStateTypeOK
    <2>4. DismountedIsSettled(p)'
        BY <1>16, <1>0
           DEF MountInvariant, RecordInvariant, PodRecorded, DismountedIsSettled,
               TearDownTargetPath, PodCall, TypeOK
    <2>5. BindKept(p)'
        BY <1>16, <1>0, <2>1, KeysAreEntries, KeysDiffer
           DEF MountInvariant, BindKept, SameEntry, TearDownTargetPath
    <2> QED
        BY <2>1, <2>2, <2>3, <2>4, <2>5, PodCallMountFrame
<1>17. ASSUME NEW p \in Pods, DeleteTargetPathBind(p) PROVE MountInvariant'
    <2>1. \A e \in Entries \ {TargetPath(p)} : SameEntry(e)
        BY <1>17, <1>0, OtherEntries, KeysAreEntries DEF DeleteTargetPathBind
    <2>2. /\ \A q \in Pods \ {p} :
              /\ podCall'[q] = podCall[q] /\ mount'[q] = mount[q]
              /\ (q \in raced' <=> q \in raced) /\ (q \in published' <=> q \in published)
          /\ UNCHANGED <<up, volumeCall, manager>>
          /\ volumeCall[VolumeOf[p]] = "idle" \/ mount'[p] = "none" \/ mount[p] # "none"
        BY <1>17, <1>0
           DEF DeleteTargetPathBind, PodCall, TypeOK, RecordInvariant, PodRecorded, NoCalls
    <2>3. TargetPathKept(p)'
        BY <1>17, <1>0, KeysAreEntries
           DEF MountInvariant, RecordInvariant, PodRecorded, TargetPathKept,
               DeleteTargetPathBind, PodCall, TypeOK,
               entryVars, BindStateTypeOK, RemoveFile, Forget
    <2>4. DismountedIsSettled(p)'
        BY <1>17, <1>0
           DEF MountInvariant, RecordInvariant, PodRecorded, DismountedIsSettled,
               DeleteTargetPathBind, PodCall, TypeOK
    <2>5. BindKept(p)'
        BY <1>17, <1>0, <2>1, KeysAreEntries, KeysDiffer
           DEF MountInvariant, BindKept, SameEntry, DeleteTargetPathBind
    <2> QED
        BY <2>1, <2>2, <2>3, <2>4, <2>5, PodCallMountFrame
<1>18. ASSUME NEW v \in Volumes, NodeStageVolume(v) PROVE MountInvariant'
    <2>1. \A e \in Entries \ {StagingTargetPath(v)} : SameEntry(e)
        BY <1>18, <1>0, OtherEntries, KeysAreEntries DEF NodeStageVolume
    <2>2. UnstagedIsUnmounted(v)' /\ \A u \in Volumes \ {v} : volumeCall'[u] = volumeCall[u]
        BY <1>18, <1>0
           DEF NodeStageVolume, MountInvariant, UnstagedIsUnmounted, VolumeCall, TypeOK,
               UnstageSteps
    <2> QED
        BY <1>18, <2>1, <2>2, VolumeCallMountFrame DEF NodeStageVolume, VolumeCall
<1>19. ASSUME NEW v \in Volumes, BindStagingTargetPath(v) PROVE MountInvariant'
    <2>1. \A e \in Entries \ {StagingTargetPath(v)} : SameEntry(e)
        BY <1>19, <1>0, OtherEntries, KeysAreEntries DEF BindStagingTargetPath
    <2>2. UnstagedIsUnmounted(v)' /\ \A u \in Volumes \ {v} : volumeCall'[u] = volumeCall[u]
        BY <1>19, <1>0
           DEF BindStagingTargetPath, MountInvariant, UnstagedIsUnmounted, VolumeCall, TypeOK,
               UnstageSteps
    <2> QED
        BY <1>19, <2>1, <2>2, VolumeCallMountFrame DEF BindStagingTargetPath, VolumeCall
<1>20. ASSUME NEW v \in Volumes, NodeUnstageVolume(v) PROVE MountInvariant'
    <2>1. \A e \in Entries \ {StagingTargetPath(v)} : SameEntry(e)
        BY <1>20, <1>0, KeysAreEntries DEF NodeUnstageVolume
    <2>2. UnstagedIsUnmounted(v)' /\ \A u \in Volumes \ {v} : volumeCall'[u] = volumeCall[u]
        BY <1>20, <1>0
           DEF NodeUnstageVolume, MountInvariant, UnstagedIsUnmounted, VolumeCall, TypeOK,
               UnstageSteps
    <2> QED
        BY <1>20, <2>1, <2>2, VolumeCallMountFrame DEF NodeUnstageVolume, VolumeCall
<1>21. ASSUME NEW v \in Volumes, UnstageBackend(v) PROVE MountInvariant'
    <2>1. \A e \in Entries \ {StagingTargetPath(v)} : SameEntry(e)
        BY <1>21, <1>0, KeysAreEntries DEF UnstageBackend
    <2>2. UnstagedIsUnmounted(v)' /\ \A u \in Volumes \ {v} : volumeCall'[u] = volumeCall[u]
        BY <1>21, <1>0
           DEF UnstageBackend, MountInvariant, UnstagedIsUnmounted, VolumeCall, TypeOK,
               UnstageSteps
    <2> QED
        BY <1>21, <2>1, <2>2, VolumeCallMountFrame DEF UnstageBackend, VolumeCall
<1>22. ASSUME NEW v \in Volumes, UnbindStagingTargetPath(v) PROVE MountInvariant'
    <2>1. \A e \in Entries \ {StagingTargetPath(v)} : SameEntry(e)
        BY <1>22, <1>0, OtherEntries, KeysAreEntries DEF UnbindStagingTargetPath
    <2>2. UnstagedIsUnmounted(v)' /\ \A u \in Volumes \ {v} : volumeCall'[u] = volumeCall[u]
        BY <1>22, <1>0
           DEF UnbindStagingTargetPath, MountInvariant, UnstagedIsUnmounted, VolumeCall,
               TypeOK, UnstageSteps
    <2> QED
        BY <1>22, <2>1, <2>2, VolumeCallMountFrame DEF UnbindStagingTargetPath, VolumeCall
<1>23. ASSUME NEW v \in Volumes, DeleteVolumeBind(v) PROVE MountInvariant'
    <2>1. \A e \in Entries \ {Bind(v)} : SameEntry(e)
        BY <1>23, <1>0, OtherEntries, KeysAreEntries DEF DeleteVolumeBind
    <2>2. \A u \in Volumes : volumeCall'[u] \in UnstageSteps => volumeCall[u] \in UnstageSteps
        BY <1>23, <1>0 DEF DeleteVolumeBind, VolumeCall, TypeOK, UnstageSteps
    <2>3. \A p \in PodsOf(v) : p \notin raced => p \notin published /\ manager[p] \notin BeforePublish
        BY <1>23 DEF DeleteVolumeBind, VolumeCall, MountInvariant, UnstagedIsUnmounted,
                 DismountedIsSettled, UnstageSteps, PodsOf
    <2>4. \A p \in PodsOf(v) : BindKept(p)'
        BY <1>23, <2>3 DEF DeleteVolumeBind, BindKept, PodsOf, BeforePublish
    <2>5. \A p \in Pods \ PodsOf(v) : BindKept(p)'
        BY <1>23, <1>0, <2>1, BindFrame, KeysAreEntries
           DEF DeleteVolumeBind, MountInvariant, PodsOf, Bind
    <2>6. \A p \in Pods : TargetPathKept(p)' /\ DismountedIsSettled(p)'
        BY <1>23, <1>0, <2>1, TargetPathFrame, KeysAreEntries, KeysDiffer
           DEF DeleteVolumeBind, VolumeCall, MountInvariant, DismountedIsSettled
    <2> QED
        BY <1>23, <2>2, <2>4, <2>5, <2>6 DEF DeleteVolumeBind, MountInvariant, UnstagedIsUnmounted
<1>24. ASSUME NEW v \in Volumes, NEW object \in Objects, DeliverObject(v, object) PROVE MountInvariant'
    BY <1>24, <1>0, ManagerFrame
       DEF DeliverObject, MountInvariant, DismountedIsSettled, BindKept, entryVars
<1>25. CASE KubeletRestart
    BY <1>25, <1>0
       DEF KubeletRestart, MountInvariant, TargetPathKept, DismountedIsSettled, BindKept,
                   UnstagedIsUnmounted, entryVars, NoCalls, TypeOK, PodsOf, UnstageSteps
<1>26. CASE Crash
    BY <1>26, <1>0, KeysAreEntries
       DEF Crash, LoseMemory, MountInvariant, TargetPathKept, DismountedIsSettled, BindKept,
                   UnstagedIsUnmounted, BeforePublish, UnstageSteps
<1>27. CASE Start
    <2>1. \A p \in Pods : TargetPathKept(p)'
        BY <1>27, <1>0, KeysAreEntries DEF Start, Recreate, MountInvariant, TargetPathKept
    <2>2. \A p \in Pods : BindKept(p)'
        BY <1>27, <1>0, KeysAreEntries
           DEF Start, Recreate, MountInvariant, BindKept, BindStateTypeOK, BeforePublish
    <2> QED
        BY <1>27, <2>1, <2>2, <1>0
           DEF Start, MountInvariant, DismountedIsSettled, UnstagedIsUnmounted
<1>28. CASE UNCHANGED vars
    BY <1>28, <1>0, ManagerFrame
       DEF vars, MountInvariant, DismountedIsSettled, BindKept, entryVars
<1> QED
    BY <1>1, <1>2, <1>3, <1>4, <1>5, <1>6, <1>7, <1>8, <1>9, <1>10, <1>11, <1>12,
       <1>13, <1>14, <1>15, <1>16, <1>17, <1>18, <1>19, <1>20, <1>21, <1>22, <1>23,
       <1>24, <1>25, <1>26, <1>27, <1>28
       DEF Next, KubeletCall, KubeletDeviceCall, VolumeManager

\* It holds at the start, before anything is mounted.
LEMMA MountInit == Init => MountInvariant
BY RecordInit, VolumeOfAssumption, KeysAreEntries
   DEF Init, MountInvariant, BindStateInit, TargetPathKept, DismountedIsSettled, BindKept,
       UnstagedIsUnmounted, BeforePublish, UnstageSteps

\* Mounts, binds and syncs belong together all the time.
LEMMA MountInvariantAlways == Spec => []MountInvariant
<1>1. MountInvariant /\ RecordInvariant' /\ [Next]_vars => MountInvariant'
    BY MountStep
<1> QED
    BY MountInit, <1>1, RecordInvariantAlways, PTL DEF Spec

\* While a backend volume is mounted at a pod's target path its bind is
\* recorded, on disk and, while the process runs, in the map, so that
\* NodeUnpublishVolume knows whom to call (nodeserver.go:222): through any
\* crashes, failures and repeated calls, with any number of pods sharing the
\* volume, except for pods whose sync overlapped the end of their unpublish.
THEOREM MountedAlwaysRecorded == Spec => []MountedIsRecorded
<1>1. MountInvariant => MountedIsRecorded
    <2> SUFFICES ASSUME MountInvariant, NEW p \in published \ raced
                 PROVE  /\ file[Bind(VolumeOf[p])] # "absent"
                        /\ up => memory[Bind(VolumeOf[p])]
        BY DEF MountedIsRecorded
    <2>1. p \in Pods
        BY DEF MountInvariant, RecordInvariant, TypeOK
    <2> QED
        BY <2>1 DEF MountInvariant, BindKept
<1> QED
    BY <1>1, MountInvariantAlways, PTL

-----------------------------------------------------------------------------
(***************************************************************************)
(* The converse: what was dismounted and unstaged has left nothing.        *)
(***************************************************************************)

\* A target path that is dismounted is gone, but for the pods that are counted as raced.
DismountedIsRemoved(p) ==
    (p \notin raced /\ (mount[p] = "none" \/ podCall[p] \in {"remove", "forget"})) => p \notin dir

\* The kubelet does not let go of a device it has mounts of.
MountedIsStaged(p) == mount[p] # "none" => device[VolumeOf[p]] # "none"

\* A bind whose file is there is in the map, or about to be; and an unstage call
\* that got past the bind has left none.
BindDropped(v) ==
    PodsOf(v) \cap raced = {} =>
        /\ (up /\ file[Bind(v)] = "valid") =>
            memory[Bind(v)] \/ \E p \in PodsOf(v) : manager[p] = "remember"
        /\ volumeCall[v] = "forgetbind" => file[Bind(v)] # "valid"
        /\ (device[v] = "none" \/ volumeCall[v] \in {"unbind", "forgetpath"}) =>
            file[Bind(v)] # "valid" /\ ~memory[Bind(v)]

StagingPathDropped(v) ==
    /\ volumeCall[v] = "forgetpath" => file[StagingTargetPath(v)] = "absent"
    /\ (v \in StagingDrivers /\ device[v] = "none") =>
        file[StagingTargetPath(v)] = "absent" /\ ~memory[StagingTargetPath(v)]

CleanInvariant ==
    /\ MountInvariant
    /\ \A p \in Pods : DismountedIsRemoved(p) /\ MountedIsStaged(p)
    /\ \A v \in Volumes : BindDropped(v) /\ StagingPathDropped(v)

\* A step that leaves the entries, the calls and the kubelet's beliefs alone, and
\* no sync between the file and the map of a bind.
LEMMA CleanManagerFrame ==
    ASSUME CleanInvariant, MountInvariant', UNCHANGED <<entryVars, up, callVars, mount, device>>,
           raced \subseteq raced',
           \A p \in Pods :
               (manager[p] = "remember" => manager'[p] = "remember") /\ DismountedIsRemoved(p)'
    PROVE  CleanInvariant'
<1>1. \A p \in Pods : MountedIsStaged(p)'
    BY DEF CleanInvariant, MountedIsStaged
<1>2. \A v \in Volumes : BindDropped(v)' /\ StagingPathDropped(v)'
    BY DEF CleanInvariant, BindDropped, StagingPathDropped, entryVars, callVars, PodsOf
<1> QED
    BY <1>1, <1>2 DEF CleanInvariant

\* A bind nobody touches.
LEMMA BindDroppedFrame ==
    ASSUME NEW v \in Volumes, BindDropped(v), SameEntry(Bind(v)), raced \subseteq raced',
           UNCHANGED <<up, manager>>, volumeCall'[v] = volumeCall[v], device'[v] = device[v]
    PROVE  BindDropped(v)'
BY DEF BindDropped, SameEntry, PodsOf

\* A staging path nobody touches.
LEMMA StagingPathFrame ==
    ASSUME NEW v \in Volumes, StagingPathDropped(v), SameEntry(StagingTargetPath(v)),
           volumeCall'[v] = volumeCall[v], device'[v] = device[v]
    PROVE  StagingPathDropped(v)'
BY DEF StagingPathDropped, SameEntry

\* A step of the call for pod p that leaves the volume manager alone.
LEMMA CleanPodCallFrame ==
    ASSUME CleanInvariant, MountInvariant', NEW p \in Pods,
           DismountedIsRemoved(p)', MountedIsStaged(p)', raced \subseteq raced',
           UNCHANGED <<up, volumeCall, device, manager>>,
           \A q \in Pods \ {p} :
               /\ podCall'[q] = podCall[q] /\ mount'[q] = mount[q]
               /\ (q \in dir' => q \in dir),
           \A e \in Entries \ {TargetPath(p)} : SameEntry(e)
    PROVE  CleanInvariant'
<1>1. \A q \in Pods \ {p} : DismountedIsRemoved(q)' /\ MountedIsStaged(q)'
    BY DEF CleanInvariant, DismountedIsRemoved, MountedIsStaged
<1>2. \A v \in Volumes : BindDropped(v)' /\ StagingPathDropped(v)'
    BY BindDroppedFrame, StagingPathFrame, KeysDiffer, KeysAreEntries DEF CleanInvariant
<1> QED
    BY <1>1, <1>2 DEF CleanInvariant

\* A step of the call for volume v, on its staging path or its bind.
LEMMA CleanVolumeCallFrame ==
    ASSUME CleanInvariant, MountInvariant', NEW v \in Volumes,
           \A p \in PodsOf(v) : MountedIsStaged(p)',
           BindDropped(v)', StagingPathDropped(v)',
           UNCHANGED <<up, podCall, manager, mount, dir, raced>>,
           \A u \in Volumes \ {v} : volumeCall'[u] = volumeCall[u] /\ device'[u] = device[u],
           \A e \in Entries \ {StagingTargetPath(v), Bind(v)} : SameEntry(e)
    PROVE  CleanInvariant'
<1>1. \A p \in Pods : DismountedIsRemoved(p)' /\ MountedIsStaged(p)'
    BY VolumeOfAssumption DEF CleanInvariant, DismountedIsRemoved, MountedIsStaged, PodsOf
<1>2. ASSUME NEW u \in Volumes \ {v} PROVE SameEntry(Bind(u)) /\ SameEntry(StagingTargetPath(u))
    BY KeysAreEntries, KeysDiffer DEF Bind
<1>3. \A u \in Volumes \ {v} : BindDropped(u)' /\ StagingPathDropped(u)'
    BY <1>2, BindDroppedFrame, StagingPathFrame DEF CleanInvariant
<1> QED
    BY <1>1, <1>3 DEF CleanInvariant

\* When the pods of a volume are not raced nobody saves its bind once the kubelet
\* has them all unmounted.
LEMMA NobodySaves ==
    ASSUME CleanInvariant, NEW v \in Volumes, PodsOf(v) \cap raced = {},
           \/ device[v] = "none"
           \/ volumeCall[v] \in UnstageSteps
           \/ \A p \in PodsOf(v) : mount[p] = "none"
    PROVE  \A p \in PodsOf(v) : manager[p] \notin BeforePublish
<1>1. \A p \in PodsOf(v) : mount[p] = "none"
    BY DEF CleanInvariant, MountInvariant, UnstagedIsUnmounted, MountedIsStaged, PodsOf
<1> QED
    BY <1>1 DEF CleanInvariant, MountInvariant, DismountedIsSettled, PodsOf

-----------------------------------------------------------------------------
\* The invariant is inductive, action by action.
LEMMA CleanStep ==
    ASSUME CleanInvariant, MountInvariant', [Next]_vars
    PROVE  CleanInvariant'
<1> USE DEF callVars, kubeletVars, cacheVars, backendVars
<1>0. /\ MountInvariant /\ RecordInvariant /\ TypeOK /\ BindStateTypeOK
      /\ \A p \in Pods : VolumeOf[p] \in Volumes
      /\ UNCHANGED entryVars => \A e \in Entries : SameEntry(e)
    BY VolumeOfAssumption DEF CleanInvariant, MountInvariant, RecordInvariant, TypeOK, entryVars, SameEntry
<1>1. ASSUME NEW p \in Pods, CreatePod(p) PROVE CleanInvariant'
    BY <1>1, <1>0, CleanManagerFrame DEF CreatePod, CleanInvariant, DismountedIsRemoved, entryVars
<1>2. ASSUME NEW p \in Pods, DeletePod(p) PROVE CleanInvariant'
    BY <1>2, <1>0, CleanManagerFrame DEF DeletePod, CleanInvariant, DismountedIsRemoved, entryVars
<1>3. ASSUME NEW p \in Pods, RemovePod(p) PROVE CleanInvariant'
    BY <1>3, <1>0, CleanManagerFrame DEF RemovePod, CleanInvariant, DismountedIsRemoved, entryVars
<1>4. ASSUME NEW p \in Pods, DeliverPod(p) PROVE CleanInvariant'
    BY <1>4, <1>0, CleanManagerFrame DEF DeliverPod, CleanInvariant, DismountedIsRemoved, entryVars
<1>5. ASSUME NEW p \in Pods, PodUpdated(p) PROVE CleanInvariant'
    BY <1>5, <1>0, CleanManagerFrame DEF PodUpdated, CleanInvariant, DismountedIsRemoved, entryVars
<1>6. ASSUME NEW p \in Pods, SyncPod(p) PROVE CleanInvariant'
    <2>1. \A q \in Pods :
              (manager[q] = "remember" => manager'[q] = "remember") /\ DismountedIsRemoved(q)'
        BY <1>6, <1>0 DEF SyncPod, ManagerStep, CleanInvariant, DismountedIsRemoved, TypeOK
    <2> QED
        BY <1>6, <2>1, CleanManagerFrame DEF SyncPod
<1>7. ASSUME NEW p \in Pods, mountDevice(p) PROVE CleanInvariant'
    <2>1. \A q \in Pods :
              (manager[q] = "remember" => manager'[q] = "remember") /\ DismountedIsRemoved(q)'
        BY <1>7, <1>0
           DEF mountDevice, ManagerStep, Requeue, CleanInvariant, DismountedIsRemoved, TypeOK
    <2> QED
        BY <1>7, <2>1, CleanManagerFrame DEF mountDevice
<1>8. ASSUME NEW p \in Pods, setUpAt(p) PROVE CleanInvariant'
    <2>1. \A q \in Pods :
              (manager[q] = "remember" => manager'[q] = "remember") /\ DismountedIsRemoved(q)'
        BY <1>8, <1>0
           DEF setUpAt, ManagerStep, Requeue, CleanInvariant, DismountedIsRemoved, TypeOK, MountInvariant, DismountedIsSettled, BeforePublish
    <2> QED
        BY <1>8, <2>1, CleanManagerFrame DEF setUpAt
<1>9. ASSUME NEW p \in Pods, annotateMounted(p) PROVE CleanInvariant'
    <2>1. \A q \in Pods :
              (manager[q] = "remember" => manager'[q] = "remember") /\ DismountedIsRemoved(q)'
        BY <1>9, <1>0
           DEF annotateMounted, ManagerStep, Requeue, CleanInvariant, DismountedIsRemoved, TypeOK
    <2> QED
        BY <1>9, <2>1, CleanManagerFrame DEF annotateMounted
<1>10. ASSUME NEW p \in Pods, SaveVolumeBind(p) PROVE CleanInvariant'
    <2> DEFINE v == VolumeOf[p]
    <2>1. \A e \in Entries \ {Bind(v)} : SameEntry(e)
        BY <1>10, <1>0, OtherEntries, KeysAreEntries DEF SaveVolumeBind
    <2>2. UNCHANGED <<up, podCall, volumeCall, mount, device, dir, raced>>
        BY <1>10 DEF SaveVolumeBind
    <2>3. \A q \in Pods \ {p} : manager'[q] = manager[q]
        BY <1>10, <1>0 DEF SaveVolumeBind, ManagerStep, Requeue, TypeOK
    <2>4. \A q \in Pods : DismountedIsRemoved(q)' /\ MountedIsStaged(q)'
        BY <2>2 DEF CleanInvariant, DismountedIsRemoved, MountedIsStaged
    <2>5. \A u \in Volumes : StagingPathDropped(u)'
        BY <2>1, <2>2, StagingPathFrame, KeysAreEntries, KeysDiffer, <1>0 DEF CleanInvariant
    <2>6. \A u \in Volumes \ {v} : BindDropped(u)'
        BY <2>1, <2>2, <2>3, KeysAreEntries, <1>0
           DEF CleanInvariant, BindDropped, SameEntry, PodsOf, Bind
    <2>7. BindDropped(v)'
        <3> SUFFICES ASSUME PodsOf(v) \cap raced = {} PROVE BindDropped(v)'
            BY <2>2 DEF BindDropped, PodsOf
        <3>1. manager[p] \in BeforePublish /\ p \in PodsOf(v) /\ v \in Volumes
            BY <1>10, <1>0 DEF SaveVolumeBind, ManagerStep, Requeue, BeforePublish, PodsOf
        <3>2. device[v] # "none" /\ volumeCall[v] \notin UnstageSteps
            BY <3>1, NobodySaves
        <3>3. file'[Bind(v)] = "valid" =>
                  memory'[Bind(v)] \/ (up => \E q \in PodsOf(v) : manager'[q] = "remember")
            <4>1. CASE CreateFile(Bind(v), p)
                BY <4>1, <1>0, KeysAreEntries DEF CreateFile, BindStateTypeOK
            <4>2. CASE ManagerStep(p, "encode", "remember")
                BY <4>2, <1>0, <3>1 DEF ManagerStep, TypeOK
            <4>3. CASE Requeue(p, "encode") /\ EncodeFails(Bind(v), p)
                BY <4>3, <1>0, <3>1, <2>3
                   DEF EncodeFails, Requeue, ManagerStep, CleanInvariant, BindDropped, TypeOK
            <4>4. CASE Remember(Bind(v))
                BY <4>4, <1>0, KeysAreEntries DEF Remember, BindStateTypeOK
            <4> QED
                BY <1>10, <4>1, <4>2, <4>3, <4>4 DEF SaveVolumeBind
        <3> QED
            BY <2>2, <3>2, <3>3 DEF BindDropped, UnstageSteps, PodsOf
    <2> QED
        BY <2>4, <2>5, <2>6, <2>7 DEF CleanInvariant
<1>11. ASSUME NEW p \in Pods, NodePublishVolume(p) PROVE CleanInvariant'
    <2>1. \A e \in Entries \ {TargetPath(p)} : SameEntry(e)
        BY <1>11, <1>0, KeysAreEntries DEF NodePublishVolume
    <2>2. /\ \A q \in Pods \ {p} :
              /\ podCall'[q] = podCall[q] /\ mount'[q] = mount[q]
              /\ (q \in dir' => q \in dir)
          /\ UNCHANGED <<up, volumeCall, device, manager>>
          /\ raced \subseteq raced'
        BY <1>11, <1>0 DEF NodePublishVolume, PodCall, TypeOK
    <2>3. DismountedIsRemoved(p)' /\ MountedIsStaged(p)'
        BY <1>11, <1>0
           DEF CleanInvariant, RecordInvariant, PodRecorded, DismountedIsRemoved,
               MountedIsStaged, NodePublishVolume, PodCall, TypeOK
    <2> QED
        BY <2>1, <2>2, <2>3, CleanPodCallFrame
<1>12. ASSUME NEW p \in Pods, SaveTargetPathBind(p) PROVE CleanInvariant'
    <2>1. \A e \in Entries \ {TargetPath(p)} : SameEntry(e)
        BY <1>12, <1>0, OtherEntries, KeysAreEntries DEF SaveTargetPathBind
    <2>2. /\ \A q \in Pods \ {p} :
              /\ podCall'[q] = podCall[q] /\ mount'[q] = mount[q]
              /\ (q \in dir' => q \in dir)
          /\ UNCHANGED <<up, volumeCall, device, manager>>
          /\ raced \subseteq raced'
        BY <1>12, <1>0 DEF SaveTargetPathBind, PodCall, TypeOK
    <2>3. DismountedIsRemoved(p)' /\ MountedIsStaged(p)'
        BY <1>12, <1>0
           DEF CleanInvariant, RecordInvariant, PodRecorded, DismountedIsRemoved,
               MountedIsStaged, SaveTargetPathBind, PodCall, TypeOK
    <2> QED
        BY <2>1, <2>2, <2>3, CleanPodCallFrame
<1>13. ASSUME NEW p \in Pods, SetUpTargetPathFails(p) PROVE CleanInvariant'
    <2>1. \A e \in Entries \ {TargetPath(p)} : SameEntry(e)
        BY <1>13, <1>0, OtherEntries, KeysAreEntries DEF SetUpTargetPathFails
    <2>2. /\ \A q \in Pods \ {p} :
              /\ podCall'[q] = podCall[q] /\ mount'[q] = mount[q]
              /\ (q \in dir' => q \in dir)
          /\ UNCHANGED <<up, volumeCall, device, manager>>
          /\ raced \subseteq raced'
        BY <1>13, <1>0 DEF SetUpTargetPathFails, PodCall, TypeOK
    <2>3. DismountedIsRemoved(p)' /\ MountedIsStaged(p)'
        BY <1>13, <1>0
           DEF CleanInvariant, RecordInvariant, PodRecorded, DismountedIsRemoved,
               MountedIsStaged, SetUpTargetPathFails, PodCall, TypeOK
    <2> QED
        BY <2>1, <2>2, <2>3, CleanPodCallFrame
<1>14. ASSUME NEW p \in Pods, NodeUnpublishVolume(p) PROVE CleanInvariant'
    <2>1. \A e \in Entries \ {TargetPath(p)} : SameEntry(e)
        BY <1>14, <1>0, KeysAreEntries DEF NodeUnpublishVolume
    <2>2. /\ \A q \in Pods \ {p} :
              /\ podCall'[q] = podCall[q] /\ mount'[q] = mount[q]
              /\ (q \in dir' => q \in dir)
          /\ UNCHANGED <<up, volumeCall, device, manager>>
          /\ raced \subseteq raced'
        BY <1>14, <1>0 DEF NodeUnpublishVolume, PodCall, TypeOK
    <2>3. DismountedIsRemoved(p)' /\ MountedIsStaged(p)'
        BY <1>14, <1>0
           DEF CleanInvariant, RecordInvariant, PodRecorded, DismountedIsRemoved,
               MountedIsStaged, NodeUnpublishVolume, PodCall, TypeOK
    <2> QED
        BY <2>1, <2>2, <2>3, CleanPodCallFrame
<1>15. ASSUME NEW p \in Pods, UnpublishBackend(p) PROVE CleanInvariant'
    <2>1. \A e \in Entries \ {TargetPath(p)} : SameEntry(e)
        BY <1>15, <1>0, KeysAreEntries DEF UnpublishBackend
    <2>2. /\ \A q \in Pods \ {p} :
              /\ podCall'[q] = podCall[q] /\ mount'[q] = mount[q]
              /\ (q \in dir' => q \in dir)
          /\ UNCHANGED <<up, volumeCall, device, manager>>
          /\ raced \subseteq raced'
        BY <1>15, <1>0 DEF UnpublishBackend, PodCall, TypeOK
    <2>3. DismountedIsRemoved(p)' /\ MountedIsStaged(p)'
        BY <1>15, <1>0
           DEF CleanInvariant, RecordInvariant, PodRecorded, DismountedIsRemoved,
               MountedIsStaged, UnpublishBackend, PodCall, TypeOK
    <2> QED
        BY <2>1, <2>2, <2>3, CleanPodCallFrame
<1>16. ASSUME NEW p \in Pods, TearDownTargetPath(p) PROVE CleanInvariant'
    <2>1. \A e \in Entries \ {TargetPath(p)} : SameEntry(e)
        BY <1>16, <1>0, KeysAreEntries DEF TearDownTargetPath
    <2>2. /\ \A q \in Pods \ {p} :
              /\ podCall'[q] = podCall[q] /\ mount'[q] = mount[q]
              /\ (q \in dir' => q \in dir)
          /\ UNCHANGED <<up, volumeCall, device, manager>>
          /\ raced \subseteq raced'
        BY <1>16, <1>0 DEF TearDownTargetPath, PodCall, TypeOK
    <2>3. DismountedIsRemoved(p)' /\ MountedIsStaged(p)'
        BY <1>16, <1>0
           DEF CleanInvariant, RecordInvariant, PodRecorded, DismountedIsRemoved,
               MountedIsStaged, TearDownTargetPath, PodCall, TypeOK
    <2> QED
        BY <2>1, <2>2, <2>3, CleanPodCallFrame
<1>17. ASSUME NEW p \in Pods, DeleteTargetPathBind(p) PROVE CleanInvariant'
    <2>1. \A e \in Entries \ {TargetPath(p)} : SameEntry(e)
        BY <1>17, <1>0, OtherEntries, KeysAreEntries DEF DeleteTargetPathBind
    <2>2. /\ \A q \in Pods \ {p} :
              /\ podCall'[q] = podCall[q] /\ mount'[q] = mount[q]
              /\ (q \in dir' => q \in dir)
          /\ UNCHANGED <<up, volumeCall, device, manager>>
          /\ raced \subseteq raced'
        BY <1>17, <1>0 DEF DeleteTargetPathBind, PodCall, TypeOK
    <2>3. DismountedIsRemoved(p)' /\ MountedIsStaged(p)'
        BY <1>17, <1>0
           DEF CleanInvariant, RecordInvariant, PodRecorded, DismountedIsRemoved,
               MountedIsStaged, DeleteTargetPathBind, PodCall, TypeOK
    <2> QED
        BY <2>1, <2>2, <2>3, CleanPodCallFrame
<1>18. ASSUME NEW v \in Volumes, NodeStageVolume(v) PROVE CleanInvariant'
    <2>1. \A e \in Entries \ {StagingTargetPath(v), Bind(v)} : SameEntry(e)
        BY <1>18, <1>0, OtherEntries, KeysAreEntries DEF NodeStageVolume
    <2>2. /\ \A u \in Volumes \ {v} : volumeCall'[u] = volumeCall[u] /\ device'[u] = device[u]
          /\ UNCHANGED <<up, podCall, manager, mount, dir, raced>>
        BY <1>18, <1>0 DEF NodeStageVolume, VolumeCall, TypeOK
    <2>3. \A p \in PodsOf(v) : MountedIsStaged(p)'
        BY <1>18, <1>0
           DEF CleanInvariant, MountedIsStaged, MountInvariant, UnstagedIsUnmounted, UnstageSteps,
               PodsOf, NodeStageVolume, VolumeCall, TypeOK
    <2>4. (PodsOf(v) \cap raced = {} /\ (volumeCall[v] \in UnstageSteps \/ volumeCall'[v] \in UnstageSteps))
              => \A p \in PodsOf(v) : manager[p] # "remember"
        BY <1>18, NobodySaves, <1>0 DEF NodeStageVolume, VolumeCall, UnstageSteps, BeforePublish, TypeOK
    <2>5. BindDropped(v)'
        BY <1>18, <1>0, <2>2, <2>4, KeysAreEntries, KeysDiffer
           DEF CleanInvariant, RecordInvariant, VolumeRecorded, BindDropped, UnstageSteps,
               NodeStageVolume, VolumeCall, TypeOK, BindStateTypeOK, entryVars, PodsOf, CreateFile
    <2>6. StagingPathDropped(v)'
        BY <1>18, <1>0, <2>2, KeysAreEntries, KeysDiffer
           DEF CleanInvariant, RecordInvariant, VolumeRecorded, StagingPathDropped,
               NodeStageVolume, VolumeCall, TypeOK, BindStateTypeOK, entryVars, CreateFile
    <2> QED
        BY <2>1, <2>2, <2>3, <2>5, <2>6, CleanVolumeCallFrame
<1>19. ASSUME NEW v \in Volumes, BindStagingTargetPath(v) PROVE CleanInvariant'
    <2>1. \A e \in Entries \ {StagingTargetPath(v), Bind(v)} : SameEntry(e)
        BY <1>19, <1>0, OtherEntries, KeysAreEntries DEF BindStagingTargetPath
    <2>2. /\ \A u \in Volumes \ {v} : volumeCall'[u] = volumeCall[u] /\ device'[u] = device[u]
          /\ UNCHANGED <<up, podCall, manager, mount, dir, raced>>
        BY <1>19, <1>0 DEF BindStagingTargetPath, VolumeCall, TypeOK
    <2>3. \A p \in PodsOf(v) : MountedIsStaged(p)'
        BY <1>19, <1>0
           DEF CleanInvariant, MountedIsStaged, MountInvariant, UnstagedIsUnmounted, UnstageSteps,
               PodsOf, BindStagingTargetPath, VolumeCall, TypeOK
    <2>4. (PodsOf(v) \cap raced = {} /\ (volumeCall[v] \in UnstageSteps \/ volumeCall'[v] \in UnstageSteps))
              => \A p \in PodsOf(v) : manager[p] # "remember"
        BY <1>19, NobodySaves, <1>0 DEF BindStagingTargetPath, VolumeCall, UnstageSteps, BeforePublish, TypeOK
    <2>5. BindDropped(v)'
        BY <1>19, <1>0, <2>2, <2>4, KeysAreEntries, KeysDiffer
           DEF CleanInvariant, RecordInvariant, VolumeRecorded, BindDropped, UnstageSteps,
               BindStagingTargetPath, VolumeCall, TypeOK, BindStateTypeOK, entryVars, PodsOf, EncodeFile, EncodeFails, Remember
    <2>6. StagingPathDropped(v)'
        BY <1>19, <1>0, <2>2, KeysAreEntries, KeysDiffer
           DEF CleanInvariant, RecordInvariant, VolumeRecorded, StagingPathDropped,
               BindStagingTargetPath, VolumeCall, TypeOK, BindStateTypeOK, entryVars, EncodeFile, EncodeFails, Remember
    <2> QED
        BY <2>1, <2>2, <2>3, <2>5, <2>6, CleanVolumeCallFrame
<1>20. ASSUME NEW v \in Volumes, NodeUnstageVolume(v) PROVE CleanInvariant'
    <2>1. \A e \in Entries \ {StagingTargetPath(v), Bind(v)} : SameEntry(e)
        BY <1>20, <1>0, KeysAreEntries DEF NodeUnstageVolume
    <2>2. /\ \A u \in Volumes \ {v} : volumeCall'[u] = volumeCall[u] /\ device'[u] = device[u]
          /\ UNCHANGED <<up, podCall, manager, mount, dir, raced>>
        BY <1>20, <1>0 DEF NodeUnstageVolume, VolumeCall, TypeOK
    <2>3. \A p \in PodsOf(v) : MountedIsStaged(p)'
        BY <1>20, <1>0
           DEF CleanInvariant, MountedIsStaged, MountInvariant, UnstagedIsUnmounted, UnstageSteps,
               PodsOf, NodeUnstageVolume, VolumeCall, TypeOK
    <2>4. (PodsOf(v) \cap raced = {} /\ (volumeCall[v] \in UnstageSteps \/ volumeCall'[v] \in UnstageSteps))
              => \A p \in PodsOf(v) : manager[p] # "remember"
        BY <1>20, NobodySaves, <1>0 DEF NodeUnstageVolume, VolumeCall, UnstageSteps, BeforePublish, TypeOK
    <2>5. BindDropped(v)'
        BY <1>20, <1>0, <2>2, <2>4, KeysAreEntries, KeysDiffer
           DEF CleanInvariant, RecordInvariant, VolumeRecorded, BindDropped, UnstageSteps,
               NodeUnstageVolume, VolumeCall, TypeOK, BindStateTypeOK, entryVars, PodsOf
    <2>6. StagingPathDropped(v)'
        BY <1>20, <1>0, <2>2, KeysAreEntries, KeysDiffer
           DEF CleanInvariant, RecordInvariant, VolumeRecorded, StagingPathDropped,
               NodeUnstageVolume, VolumeCall, TypeOK, BindStateTypeOK, entryVars
    <2> QED
        BY <2>1, <2>2, <2>3, <2>5, <2>6, CleanVolumeCallFrame
<1>21. ASSUME NEW v \in Volumes, UnstageBackend(v) PROVE CleanInvariant'
    <2>1. \A e \in Entries \ {StagingTargetPath(v), Bind(v)} : SameEntry(e)
        BY <1>21, <1>0, KeysAreEntries DEF UnstageBackend
    <2>2. /\ \A u \in Volumes \ {v} : volumeCall'[u] = volumeCall[u] /\ device'[u] = device[u]
          /\ UNCHANGED <<up, podCall, manager, mount, dir, raced>>
        BY <1>21, <1>0 DEF UnstageBackend, VolumeCall, TypeOK
    <2>3. \A p \in PodsOf(v) : MountedIsStaged(p)'
        BY <1>21, <1>0
           DEF CleanInvariant, MountedIsStaged, MountInvariant, UnstagedIsUnmounted, UnstageSteps,
               PodsOf, UnstageBackend, VolumeCall, TypeOK
    <2>4. (PodsOf(v) \cap raced = {} /\ (volumeCall[v] \in UnstageSteps \/ volumeCall'[v] \in UnstageSteps))
              => \A p \in PodsOf(v) : manager[p] # "remember"
        BY <1>21, NobodySaves, <1>0 DEF UnstageBackend, VolumeCall, UnstageSteps, BeforePublish, TypeOK
    <2>5. BindDropped(v)'
        BY <1>21, <1>0, <2>2, <2>4, KeysAreEntries, KeysDiffer
           DEF CleanInvariant, RecordInvariant, VolumeRecorded, BindDropped, UnstageSteps,
               UnstageBackend, VolumeCall, TypeOK, BindStateTypeOK, entryVars, PodsOf
    <2>6. StagingPathDropped(v)'
        BY <1>21, <1>0, <2>2, KeysAreEntries, KeysDiffer
           DEF CleanInvariant, RecordInvariant, VolumeRecorded, StagingPathDropped,
               UnstageBackend, VolumeCall, TypeOK, BindStateTypeOK, entryVars
    <2> QED
        BY <2>1, <2>2, <2>3, <2>5, <2>6, CleanVolumeCallFrame
<1>22. ASSUME NEW v \in Volumes, DeleteVolumeBind(v) PROVE CleanInvariant'
    <2>1. \A e \in Entries \ {StagingTargetPath(v), Bind(v)} : SameEntry(e)
        BY <1>22, <1>0, OtherEntries, KeysAreEntries DEF DeleteVolumeBind
    <2>2. /\ \A u \in Volumes \ {v} : volumeCall'[u] = volumeCall[u] /\ device'[u] = device[u]
          /\ UNCHANGED <<up, podCall, manager, mount, dir, raced>>
        BY <1>22, <1>0 DEF DeleteVolumeBind, VolumeCall, TypeOK
    <2>3. \A p \in PodsOf(v) : MountedIsStaged(p)'
        BY <1>22, <1>0
           DEF CleanInvariant, MountedIsStaged, MountInvariant, UnstagedIsUnmounted, UnstageSteps,
               PodsOf, DeleteVolumeBind, VolumeCall, TypeOK
    <2>4. (PodsOf(v) \cap raced = {} /\ (volumeCall[v] \in UnstageSteps \/ volumeCall'[v] \in UnstageSteps))
              => \A p \in PodsOf(v) : manager[p] # "remember"
        BY <1>22, NobodySaves, <1>0 DEF DeleteVolumeBind, VolumeCall, UnstageSteps, BeforePublish, TypeOK
    <2>5. BindDropped(v)'
        BY <1>22, <1>0, <2>2, <2>4, KeysAreEntries, KeysDiffer
           DEF CleanInvariant, RecordInvariant, VolumeRecorded, BindDropped, UnstageSteps,
               DeleteVolumeBind, VolumeCall, TypeOK, BindStateTypeOK, entryVars, PodsOf, RemoveFile, Forget
    <2>6. StagingPathDropped(v)'
        BY <1>22, <1>0, <2>2, KeysAreEntries, KeysDiffer
           DEF CleanInvariant, RecordInvariant, VolumeRecorded, StagingPathDropped,
               DeleteVolumeBind, VolumeCall, TypeOK, BindStateTypeOK, entryVars, RemoveFile, Forget
    <2> QED
        BY <2>1, <2>2, <2>3, <2>5, <2>6, CleanVolumeCallFrame
<1>23. ASSUME NEW v \in Volumes, UnbindStagingTargetPath(v) PROVE CleanInvariant'
    <2>1. \A e \in Entries \ {StagingTargetPath(v), Bind(v)} : SameEntry(e)
        BY <1>23, <1>0, OtherEntries, KeysAreEntries DEF UnbindStagingTargetPath
    <2>2. /\ \A u \in Volumes \ {v} : volumeCall'[u] = volumeCall[u] /\ device'[u] = device[u]
          /\ UNCHANGED <<up, podCall, manager, mount, dir, raced>>
        BY <1>23, <1>0 DEF UnbindStagingTargetPath, VolumeCall, TypeOK
    <2>3. \A p \in PodsOf(v) : MountedIsStaged(p)'
        BY <1>23, <1>0
           DEF CleanInvariant, MountedIsStaged, MountInvariant, UnstagedIsUnmounted, UnstageSteps,
               PodsOf, UnbindStagingTargetPath, VolumeCall, TypeOK
    <2>4. (PodsOf(v) \cap raced = {} /\ (volumeCall[v] \in UnstageSteps \/ volumeCall'[v] \in UnstageSteps))
              => \A p \in PodsOf(v) : manager[p] # "remember"
        BY <1>23, NobodySaves, <1>0 DEF UnbindStagingTargetPath, VolumeCall, UnstageSteps, BeforePublish, TypeOK
    <2>5. BindDropped(v)'
        BY <1>23, <1>0, <2>2, <2>4, KeysAreEntries, KeysDiffer
           DEF CleanInvariant, RecordInvariant, VolumeRecorded, BindDropped, UnstageSteps,
               UnbindStagingTargetPath, VolumeCall, TypeOK, BindStateTypeOK, entryVars, PodsOf, RemoveFile, Forget
    <2>6. StagingPathDropped(v)'
        BY <1>23, <1>0, <2>2, KeysAreEntries, KeysDiffer
           DEF CleanInvariant, RecordInvariant, VolumeRecorded, StagingPathDropped,
               UnbindStagingTargetPath, VolumeCall, TypeOK, BindStateTypeOK, entryVars, RemoveFile, Forget
    <2> QED
        BY <2>1, <2>2, <2>3, <2>5, <2>6, CleanVolumeCallFrame
<1>24. ASSUME NEW v \in Volumes, NEW object \in Objects, DeliverObject(v, object) PROVE CleanInvariant'
    BY <1>24, <1>0, CleanManagerFrame DEF DeliverObject, CleanInvariant, DismountedIsRemoved, entryVars
<1>25. CASE KubeletRestart
    <2>1. \A p \in Pods : DismountedIsRemoved(p)' /\ MountedIsStaged(p)'
        BY <1>25, <1>0
           DEF KubeletRestart, CleanInvariant, DismountedIsRemoved, MountedIsStaged, NoCalls, PodsOf
    <2>2. \A v \in Volumes : BindDropped(v)' /\ StagingPathDropped(v)'
        BY <1>25, <1>0
           DEF KubeletRestart, CleanInvariant, BindDropped, StagingPathDropped, PodsOf, entryVars
    <2> QED
        BY <2>1, <2>2 DEF CleanInvariant
<1>26. CASE Crash
    <2>1. \A p \in Pods : DismountedIsRemoved(p)' /\ MountedIsStaged(p)'
        BY <1>26, <1>0 DEF Crash, CleanInvariant, DismountedIsRemoved, MountedIsStaged
    <2>2. \A v \in Volumes : BindDropped(v)' /\ StagingPathDropped(v)'
        BY <1>26, <1>0, KeysAreEntries
           DEF Crash, LoseMemory, CleanInvariant, BindDropped, StagingPathDropped, PodsOf
    <2> QED
        BY <2>1, <2>2 DEF CleanInvariant
<1>27. CASE Start
    <2>1. \A p \in Pods : DismountedIsRemoved(p)' /\ MountedIsStaged(p)'
        BY <1>27, <1>0 DEF Start, CleanInvariant, DismountedIsRemoved, MountedIsStaged
    <2>2. \A v \in Volumes : BindDropped(v)' /\ StagingPathDropped(v)'
        BY <1>27, <1>0, KeysAreEntries
           DEF Start, Recreate, CleanInvariant, BindDropped, StagingPathDropped, PodsOf,
               BindStateTypeOK
    <2> QED
        BY <2>1, <2>2 DEF CleanInvariant
<1>28. CASE UNCHANGED vars
    BY <1>28, <1>0, CleanManagerFrame DEF vars, CleanInvariant, DismountedIsRemoved, entryVars
<1> QED
    BY <1>1, <1>2, <1>3, <1>4, <1>5, <1>6, <1>7, <1>8, <1>9, <1>10, <1>11, <1>12,
       <1>13, <1>14, <1>15, <1>16, <1>17, <1>18, <1>19, <1>20, <1>21, <1>22, <1>23,
       <1>24, <1>25, <1>26, <1>27, <1>28
       DEF Next, KubeletCall, KubeletDeviceCall, VolumeManager

\* When the kubelet was told that a pod's volume is unpublished there is no mount,
\* no directory and no entry of it (nodeserver.go:213-265); when it was told that a
\* volume is unstaged its bind is gone, and the staging path where the backend
\* stages (nodeserver.go:84-150): whatever failed, crashed or was repeated on the way.
THEOREM NothingAlwaysLeftBehind == Spec => []NothingLeftBehind
<1>1. Init => CleanInvariant
    <2>1. Init => MountInvariant
        BY MountInit
    <2> QED
        BY <2>1, KeysAreEntries, VolumeOfAssumption
           DEF Init, CleanInvariant, BindStateInit, DismountedIsRemoved, MountedIsStaged,
               BindDropped, StagingPathDropped
<1>2. CleanInvariant /\ MountInvariant' /\ [Next]_vars => CleanInvariant'
    BY CleanStep
<1>3. CleanInvariant => NothingLeftBehind
    BY DEF CleanInvariant, MountInvariant, TargetPathKept, DismountedIsSettled, BindDropped,
           StagingPathDropped, DismountedIsRemoved, NothingLeftBehind
<1> QED
    BY <1>1, <1>2, <1>3, MountInvariantAlways, PTL DEF Spec

-----------------------------------------------------------------------------
(***************************************************************************)
(* The abstract specification PodMounts is implemented.  Its guards need   *)
(* to know of which pods the kubelet believes that they have a mount, and  *)
(* that a pod counted as raced is on its way out.                          *)
(***************************************************************************)

PodBelieved(p) ==
    /\ mount[p] # "none" => pod[p] \in {"wanted", "leaving"}
    /\ p \in raced => pod[p] \in {"leaving", "gone"}

BeliefInvariant ==
    /\ MountInvariant
    /\ AnnotationInvariant
    /\ \A p \in Pods : PodBelieved(p)

\* A step that touches no pod, no belief of a mount and no race.
LEMMA BeliefFrame ==
    ASSUME BeliefInvariant, UNCHANGED <<pod, mount, raced>>
    PROVE  \A p \in Pods : PodBelieved(p)'
BY DEF BeliefInvariant, PodBelieved

\* What the calls say of a pod, in the words of the invariants it rests on.
LEMMA CallsOfPods ==
    ASSUME BeliefInvariant, NEW p \in Pods
    PROVE  /\ podCall[p] # "idle" => mount[p] = "uncertain" /\ pod[p] \in {"wanted", "leaving"}
           /\ podCall[p] \in UnpublishSteps => pod[p] = "leaving"
BY DEF BeliefInvariant, PodBelieved, MountInvariant, RecordInvariant, PodRecorded,
       AnnotationInvariant, UnpublishedIsLeaving, UnpublishSteps

\* The invariant is inductive, given the two it contains.
LEMMA BeliefStep ==
    ASSUME BeliefInvariant, MountInvariant', AnnotationInvariant', [Next]_vars
    PROVE  BeliefInvariant'
<1> USE DEF callVars, kubeletVars, cacheVars, backendVars
<1>0. /\ TypeOK /\ TypeOK'
      /\ \A p \in Pods : PodBelieved(p)
    BY DEF BeliefInvariant, AnnotationInvariant
<1> SUFFICES \A p \in Pods : PodBelieved(p)'
    BY DEF BeliefInvariant
<1> DEFINE Goal == \A p \in Pods : PodBelieved(p)'
<1> HIDE DEF Goal
<1> SUFFICES Goal
    BY DEF Goal
<1>1. ASSUME NEW p \in Pods, CreatePod(p) PROVE Goal
    BY <1>1, <1>0 DEF Goal, CreatePod, PodBelieved, TypeOK
<1>2. ASSUME NEW p \in Pods, DeletePod(p) PROVE Goal
    BY <1>2, <1>0 DEF Goal, DeletePod, PodBelieved, TypeOK
<1>3. ASSUME NEW p \in Pods, RemovePod(p) PROVE Goal
    BY <1>3, <1>0 DEF Goal, RemovePod, PodBelieved, TypeOK
<1>4. ASSUME NEW p \in Pods, DeliverPod(p) PROVE Goal
    BY <1>4, BeliefFrame DEF Goal, DeliverPod
<1>5. ASSUME NEW p \in Pods, PodUpdated(p) PROVE Goal
    BY <1>5, BeliefFrame DEF Goal, PodUpdated
<1>6. ASSUME NEW p \in Pods, NodePublishVolume(p) PROVE Goal
    BY <1>6, <1>0 DEF Goal, NodePublishVolume, PodBelieved, TypeOK
<1>7. ASSUME NEW p \in Pods, SaveTargetPathBind(p) PROVE Goal
    BY <1>7, <1>0, CallsOfPods DEF Goal, SaveTargetPathBind, PodBelieved, PodCall, TypeOK
<1>8. ASSUME NEW p \in Pods, SetUpTargetPathFails(p) PROVE Goal
    BY <1>8, BeliefFrame DEF Goal, SetUpTargetPathFails
<1>9. ASSUME NEW p \in Pods, NodeUnpublishVolume(p) PROVE Goal
    BY <1>9, <1>0 DEF Goal, NodeUnpublishVolume, PodBelieved, TypeOK
<1>10. ASSUME NEW p \in Pods, UnpublishBackend(p) PROVE Goal
    BY <1>10, BeliefFrame DEF Goal, UnpublishBackend
<1>11. ASSUME NEW p \in Pods, TearDownTargetPath(p) PROVE Goal
    BY <1>11, <1>0, CallsOfPods DEF Goal, TearDownTargetPath, PodBelieved, PodCall, UnpublishSteps, TypeOK
<1>12. ASSUME NEW p \in Pods, DeleteTargetPathBind(p) PROVE Goal
    BY <1>12, <1>0 DEF Goal, DeleteTargetPathBind, PodBelieved, PodCall, TypeOK
<1>13. ASSUME NEW p \in Pods, SyncPod(p) PROVE Goal
    BY <1>13, <1>0, CallsOfPods DEF Goal, SyncPod, PodBelieved, UnpublishSteps
<1>14. ASSUME NEW p \in Pods, SaveVolumeBind(p) PROVE Goal
    BY <1>14, BeliefFrame DEF Goal, SaveVolumeBind
<1>15. ASSUME NEW p \in Pods, mountDevice(p) PROVE Goal
    BY <1>15, BeliefFrame DEF Goal, mountDevice
<1>16. ASSUME NEW p \in Pods, setUpAt(p) PROVE Goal
    BY <1>16, BeliefFrame DEF Goal, setUpAt
<1>17. ASSUME NEW p \in Pods, annotateMounted(p) PROVE Goal
    BY <1>17, BeliefFrame DEF Goal, annotateMounted
<1>18. ASSUME NEW v \in Volumes, NodeStageVolume(v) PROVE Goal
    BY <1>18, BeliefFrame DEF Goal, NodeStageVolume
<1>19. ASSUME NEW v \in Volumes, BindStagingTargetPath(v) PROVE Goal
    BY <1>19, BeliefFrame DEF Goal, BindStagingTargetPath
<1>20. ASSUME NEW v \in Volumes, NodeUnstageVolume(v) PROVE Goal
    BY <1>20, BeliefFrame DEF Goal, NodeUnstageVolume
<1>21. ASSUME NEW v \in Volumes, UnstageBackend(v) PROVE Goal
    BY <1>21, BeliefFrame DEF Goal, UnstageBackend
<1>22. ASSUME NEW v \in Volumes, DeleteVolumeBind(v) PROVE Goal
    BY <1>22, BeliefFrame DEF Goal, DeleteVolumeBind
<1>23. ASSUME NEW v \in Volumes, UnbindStagingTargetPath(v) PROVE Goal
    BY <1>23, BeliefFrame DEF Goal, UnbindStagingTargetPath
<1>24. ASSUME NEW v \in Volumes, NEW object \in Objects, DeliverObject(v, object) PROVE Goal
    BY <1>24, BeliefFrame DEF Goal, DeliverObject
<1>25. CASE KubeletRestart
    BY <1>25, <1>0 DEF Goal, KubeletRestart, PodBelieved
<1>26. CASE Crash
    BY <1>26, BeliefFrame DEF Goal, Crash
<1>27. CASE Start
    BY <1>27, BeliefFrame DEF Goal, Start
<1>28. CASE UNCHANGED vars
    BY <1>28, BeliefFrame DEF Goal, vars
<1> QED
    BY <1>1, <1>2, <1>3, <1>4, <1>5, <1>6, <1>7, <1>8, <1>9, <1>10, <1>11, <1>12,
       <1>13, <1>14, <1>15, <1>16, <1>17, <1>18, <1>19, <1>20, <1>21, <1>22, <1>23,
       <1>24, <1>25, <1>26, <1>27, <1>28
       DEF Next, KubeletCall, KubeletDeviceCall, VolumeManager

\* Believed mounts are of pods that are there, all the time.
LEMMA BeliefInvariantAlways == Spec => []BeliefInvariant
<1>1. Init /\ MountInvariant /\ AnnotationInvariant => BeliefInvariant
    BY DEF Init, BeliefInvariant, PodBelieved
<1>2. BeliefInvariant /\ MountInvariant' /\ AnnotationInvariant' /\ [Next]_vars => BeliefInvariant'
    BY BeliefStep
<1> QED
    BY <1>1, <1>2, MountInvariantAlways, AnnotationInvariantAlways, PTL DEF Spec

\* What is recorded depends on the files of the binds only.
LEMMA SameRecorded ==
    ASSUME \A v \in Volumes : SameEntry(Bind(v))
    PROVE  recorded' = recorded
BY DEF recorded, SameEntry

\* A step the abstract specification does not see.
LEMMA NothingToSee ==
    ASSUME \A v \in Volumes : SameEntry(Bind(v)), UNCHANGED <<pod, annotated, mounted>>
    PROVE  UNCHANGED Mounts!mvars
BY SameRecorded DEF Mounts!mvars

\* Every step is one of PodMounts or is not seen there.
LEMMA MountsStep ==
    ASSUME BeliefInvariant, [Next]_vars
    PROVE  [Mounts!Next]_(Mounts!mvars)
<1> USE DEF callVars, kubeletVars, cacheVars, backendVars
<1>0. /\ TypeOK /\ BindStateTypeOK
      /\ \A p \in Pods : VolumeOf[p] \in Volumes /\ PodBelieved(p)
      /\ UNCHANGED entryVars => \A v \in Volumes : SameEntry(Bind(v))
    BY VolumeOfAssumption, KeysAreEntries
       DEF BeliefInvariant, AnnotationInvariant, TypeOK, entryVars, SameEntry
<1> DEFINE Goal == [Mounts!Next]_(Mounts!mvars)
<1> HIDE DEF Goal
<1> SUFFICES Goal
    BY DEF Goal
<1>unseen. UNCHANGED Mounts!mvars => Goal
    BY DEF Goal
<1>ofPod. ASSUME NEW p \in Pods,
               \/ Mounts!Arrive(p) \/ Mounts!Leave(p) \/ Mounts!Go(p)
               \/ Mounts!Mount(p) \/ Mounts!Annotate(p) \/ Mounts!Unmount(p)
        PROVE  Goal
    BY <1>ofPod DEF Goal, Mounts!Next
<1>ofVolume. ASSUME NEW v \in Volumes, Mounts!Record(v) \/ Mounts!Erase(v) PROVE Goal
    BY <1>ofVolume DEF Goal, Mounts!Next
<1>1. ASSUME NEW p \in Pods, CreatePod(p) PROVE Goal
    <2>1. Mounts!Arrive(p)
        BY <1>1, <1>0, SameRecorded
           DEF CreatePod, Mounts!Arrive, Mounts!PodMoves, mounted
    <2> QED
        BY <2>1, <1>ofPod
<1>2. ASSUME NEW p \in Pods, DeletePod(p) PROVE Goal
    <2>1. Mounts!Leave(p)
        BY <1>2, <1>0, SameRecorded
           DEF DeletePod, Mounts!Leave, Mounts!PodMoves, mounted
    <2> QED
        BY <2>1, <1>ofPod
<1>3. ASSUME NEW p \in Pods, RemovePod(p) PROVE Goal
    <2>1. p \notin mounted
        BY <1>3 DEF RemovePod, mounted, BeliefInvariant, MountInvariant, DismountedIsSettled
    <2>2. Mounts!Go(p)
        BY <1>3, <1>0, <2>1, SameRecorded
           DEF RemovePod, Mounts!Go, Mounts!PodMoves, mounted
    <2> QED
        BY <2>2, <1>ofPod
<1>4. ASSUME NEW p \in Pods, DeliverPod(p) PROVE Goal
    BY <1>4, <1>0, <1>unseen, NothingToSee DEF DeliverPod, mounted
<1>5. ASSUME NEW p \in Pods, PodUpdated(p) PROVE Goal
    BY <1>5, <1>0, <1>unseen, NothingToSee DEF PodUpdated, mounted
<1>6. ASSUME NEW p \in Pods, NodePublishVolume(p) PROVE Goal
    BY <1>6, <1>0, <1>unseen, NothingToSee DEF NodePublishVolume, mounted
<1>7. ASSUME NEW p \in Pods, SaveTargetPathBind(p) PROVE Goal
    <2>1. \A v \in Volumes : SameEntry(Bind(v))
        BY <1>7, <1>0, OtherEntries, KeysAreEntries, KeysDiffer DEF SaveTargetPathBind
    <2> QED
        BY <1>7, <2>1, <1>unseen, NothingToSee DEF SaveTargetPathBind, mounted
<1>8. ASSUME NEW p \in Pods, SetUpTargetPathFails(p) PROVE Goal
    <2>1. \A v \in Volumes : SameEntry(Bind(v))
        BY <1>8, <1>0, OtherEntries, KeysAreEntries, KeysDiffer DEF SetUpTargetPathFails
    <2> QED
        BY <1>8, <2>1, <1>unseen, NothingToSee DEF SetUpTargetPathFails, mounted
<1>9. ASSUME NEW p \in Pods, NodeUnpublishVolume(p) PROVE Goal
    BY <1>9, <1>0, <1>unseen, NothingToSee DEF NodeUnpublishVolume, mounted
<1>10. ASSUME NEW p \in Pods, UnpublishBackend(p) PROVE Goal
    <2>1. \/ Mounts!Unmount(p)
          \/ UNCHANGED Mounts!mvars
        <3>1. pod[p] = "leaving"
            BY <1>10, CallsOfPods DEF UnpublishBackend, PodCall, UnpublishSteps
        <3>2. mounted' = mounted \ {p} \/ mounted' = mounted
            BY <1>10 DEF UnpublishBackend, mounted
        <3>3. recorded' = recorded /\ UNCHANGED <<pod, annotated>>
            BY <1>10, <1>0, SameRecorded DEF UnpublishBackend
        <3> QED
            BY <3>1, <3>2, <3>3 DEF Mounts!Unmount, Mounts!mvars
    <2> QED
        BY <2>1, <1>unseen, <1>ofPod
<1>11. ASSUME NEW p \in Pods, TearDownTargetPath(p) PROVE Goal
    <2>1. mounted' = mounted
        BY <1>11 DEF TearDownTargetPath, mounted
    <2> QED
        BY <1>11, <2>1, <1>0, <1>unseen, NothingToSee DEF TearDownTargetPath
<1>12. ASSUME NEW p \in Pods, DeleteTargetPathBind(p) PROVE Goal
    <2>1. \A v \in Volumes : SameEntry(Bind(v))
        BY <1>12, <1>0, OtherEntries, KeysAreEntries, KeysDiffer DEF DeleteTargetPathBind
    <2> QED
        BY <1>12, <2>1, <1>unseen, NothingToSee DEF DeleteTargetPathBind, mounted
<1>13. ASSUME NEW p \in Pods, SyncPod(p) PROVE Goal
    <2>1. mounted' = mounted
        <3>1. (p \notin raced /\ podCall[p] \in {"remove", "forget"}) => p \notin published
            BY DEF BeliefInvariant, MountInvariant, DismountedIsSettled
        <3> QED
            BY <1>13, <3>1 DEF SyncPod, mounted
    <2> QED
        BY <1>13, <2>1, <1>0, <1>unseen, NothingToSee DEF SyncPod
<1>14. ASSUME NEW p \in Pods, SaveVolumeBind(p) PROVE Goal
    <2>1. \A e \in Entries \ {Bind(VolumeOf[p])} : SameEntry(e)
        BY <1>14, <1>0, OtherEntries, KeysAreEntries DEF SaveVolumeBind
    <2>2. UNCHANGED <<pod, annotated, mounted>>
        BY <1>14 DEF SaveVolumeBind, mounted
    <2>3. file[Bind(VolumeOf[p])] # "absent" => file'[Bind(VolumeOf[p])] # "absent"
        BY <1>14, <1>0, KeysAreEntries
           DEF SaveVolumeBind, CreateFile, EncodeFile, EncodeFails, Remember, BindStateTypeOK
    <2>4. recorded' = recorded \cup {VolumeOf[p]} \/ recorded' = recorded
        BY <2>1, <2>3, <1>0, KeysAreEntries DEF recorded, SameEntry, Bind
    <2>5. Mounts!Record(VolumeOf[p]) \/ UNCHANGED Mounts!mvars
        BY <2>2, <2>4 DEF Mounts!Record, Mounts!mvars
    <2> QED
        BY <2>5, <1>0, <1>unseen, <1>ofVolume
<1>15. ASSUME NEW p \in Pods, mountDevice(p) PROVE Goal
    BY <1>15, <1>0, <1>unseen, NothingToSee DEF mountDevice, mounted
<1>16. ASSUME NEW p \in Pods, setUpAt(p) PROVE Goal
    <2>1. recorded' = recorded /\ UNCHANGED <<pod, annotated, raced>>
        BY <1>16, <1>0, SameRecorded DEF setUpAt
    <2>2. manager[p] = "publish" /\ published' \in {published, published \cup {p}}
        BY <1>16 DEF setUpAt, ManagerStep, Requeue
    <2>3. CASE p \in raced \/ published' = published
        BY <2>1, <2>2, <2>3, <1>unseen DEF mounted, Mounts!mvars
    <2>4. CASE p \notin raced /\ published' = published \cup {p}
        <3>1. VolumeOf[p] \in recorded
            BY <2>2, <2>4, <1>0
               DEF BeliefInvariant, MountInvariant, BindKept, BeforePublish, recorded
        <3>2. pod[p] \in {"wanted", "leaving"}
            BY <2>2, <2>4, <1>0
               DEF BeliefInvariant, MountInvariant, DismountedIsSettled, BeforePublish, PodBelieved
        <3>3. mounted' = mounted \cup {p}
            BY <2>1, <2>4 DEF mounted
        <3> QED
            BY <3>1, <3>2, <3>3, <2>1, <1>ofPod DEF Mounts!Mount
    <2> QED
        BY <2>2, <2>3, <2>4
<1>17. ASSUME NEW p \in Pods, annotateMounted(p) PROVE Goal
    <2>1. recorded' = recorded /\ UNCHANGED <<pod, mounted>>
        BY <1>17, <1>0, SameRecorded DEF annotateMounted, mounted
    <2>2. CASE annotated' = annotated
        BY <2>1, <2>2, <1>unseen DEF Mounts!mvars
    <2>3. CASE pod[p] = "wanted" /\ annotated' = annotated \cup {p}
        <3>1. p \in published
            BY <1>17, <2>3
               DEF annotateMounted, ManagerStep, Requeue, BeliefInvariant, AnnotationInvariant,
                   AnnotatingIsMounted
        <3>2. p \in mounted
            BY <3>1, <2>3, <1>0 DEF mounted, PodBelieved
        <3> QED
            BY <3>2, <2>1, <2>3, <1>ofPod DEF Mounts!Annotate
    <2> QED
        BY <1>17, <2>2, <2>3 DEF annotateMounted
<1>18. ASSUME NEW v \in Volumes, NodeStageVolume(v) PROVE Goal
    <2>1. \A u \in Volumes : SameEntry(Bind(u))
        BY <1>18, <1>0, OtherEntries, KeysAreEntries, KeysDiffer DEF NodeStageVolume
    <2> QED
        BY <1>18, <2>1, <1>unseen, NothingToSee DEF NodeStageVolume, mounted
<1>19. ASSUME NEW v \in Volumes, BindStagingTargetPath(v) PROVE Goal
    <2>1. \A u \in Volumes : SameEntry(Bind(u))
        BY <1>19, <1>0, OtherEntries, KeysAreEntries, KeysDiffer DEF BindStagingTargetPath
    <2> QED
        BY <1>19, <2>1, <1>unseen, NothingToSee DEF BindStagingTargetPath, mounted
<1>20. ASSUME NEW v \in Volumes, NodeUnstageVolume(v) PROVE Goal
    BY <1>20, <1>0, <1>unseen, NothingToSee DEF NodeUnstageVolume, mounted
<1>21. ASSUME NEW v \in Volumes, UnstageBackend(v) PROVE Goal
    BY <1>21, <1>0, <1>unseen, NothingToSee DEF UnstageBackend, mounted
<1>22. ASSUME NEW v \in Volumes, DeleteVolumeBind(v) PROVE Goal
    <2>1. \A e \in Entries \ {Bind(v)} : SameEntry(e)
        BY <1>22, <1>0, OtherEntries, KeysAreEntries DEF DeleteVolumeBind
    <2>2. UNCHANGED <<pod, annotated, mounted>>
        BY <1>22 DEF DeleteVolumeBind, mounted
    <2>3. \A p \in mounted : VolumeOf[p] # v
        BY <1>22, <1>0
           DEF DeleteVolumeBind, VolumeCall, UnstageSteps, BeliefInvariant, MountInvariant,
               UnstagedIsUnmounted, DismountedIsSettled, PodsOf, mounted, TypeOK
    <2>4. file'[Bind(v)] = "absent" \/ file'[Bind(v)] = file[Bind(v)]
        BY <1>22, <1>0, KeysAreEntries DEF DeleteVolumeBind, RemoveFile, Forget, BindStateTypeOK
    <2>5. recorded' = recorded \ {v} \/ recorded' = recorded
        BY <2>1, <2>4, <1>0, KeysAreEntries DEF recorded, SameEntry, Bind
    <2>6. Mounts!Erase(v) \/ UNCHANGED Mounts!mvars
        BY <2>2, <2>3, <2>5 DEF Mounts!Erase, Mounts!mvars
    <2> QED
        BY <2>6, <1>unseen, <1>ofVolume
<1>23. ASSUME NEW v \in Volumes, UnbindStagingTargetPath(v) PROVE Goal
    <2>1. \A u \in Volumes : SameEntry(Bind(u))
        BY <1>23, <1>0, OtherEntries, KeysAreEntries, KeysDiffer DEF UnbindStagingTargetPath
    <2> QED
        BY <1>23, <2>1, <1>unseen, NothingToSee DEF UnbindStagingTargetPath, mounted
<1>24. ASSUME NEW v \in Volumes, NEW object \in Objects, DeliverObject(v, object) PROVE Goal
    BY <1>24, <1>0, <1>unseen, NothingToSee DEF DeliverObject, mounted
<1>25. CASE KubeletRestart
    BY <1>25, <1>0, <1>unseen, NothingToSee DEF KubeletRestart, mounted
<1>26. CASE Crash
    BY <1>26, <1>unseen DEF Crash, LoseMemory, mounted, recorded, Mounts!mvars
<1>27. CASE Start
    BY <1>27, <1>unseen DEF Start, Recreate, mounted, recorded, Mounts!mvars
<1>28. CASE UNCHANGED vars
    BY <1>28, <1>0, <1>unseen, NothingToSee DEF vars, mounted
<1> QED
    BY <1>1, <1>2, <1>3, <1>4, <1>5, <1>6, <1>7, <1>8, <1>9, <1>10, <1>11, <1>12,
       <1>13, <1>14, <1>15, <1>16, <1>17, <1>18, <1>19, <1>20, <1>21, <1>22, <1>23,
       <1>24, <1>25, <1>26, <1>27, <1>28
       DEF Next, KubeletCall, KubeletDeviceCall, VolumeManager

\* The node-server implements PodMounts: whatever the kubelet calls, however calls
\* fail or are repeated and whenever the process or the kubelet restarts, what is
\* mounted is recorded before and erased after (sync_volume.go:123,
\* nodeserver.go:84-150), a pod is told of its volume while it is mounted, and it
\* is unmounted before it goes; pods counted as raced are excepted.
THEOREM RefinesPodMounts == Spec => ImplementsPodMounts
<1>1. Init => Mounts!Init
    BY KeysAreEntries DEF Init, BindStateInit, Mounts!Init, recorded, mounted
<1>2. BeliefInvariant /\ [Next]_vars => [Mounts!Next]_(Mounts!mvars)
    BY MountsStep
<1> QED
    BY <1>1, <1>2, BeliefInvariantAlways, PTL DEF Spec, ImplementsPodMounts, Mounts!Spec
=============================================================================
