---------------------------- MODULE VolumeSetup ----------------------------
(***************************************************************************)
(* How the volume manager sets one backend volume up for a pod: what it    *)
(* asks the volume's CSI driver, what it tells it in NodeStageVolume and   *)
(* NodePublishVolume, and how the pod's fsGroup comes to own the files.    *)
(* The driver may be replaced between two of the calls, a sync may end     *)
(* after any step, NodePublishVolume of the proxy may be repeated over the *)
(* mounted backend, and pods follow each other over the same files.        *)
(* NodeVolumes is about when all this happens and for which target path.   *)
(***************************************************************************)
EXTENDS Naturals

CONSTANTS
    Root, Dirs, Files,  \* the volume's file system: directories are files, they stay
    Parent,             \* the directory of every file but the root
    Above,              \* all directories on the way to a file
    OldFiles,           \* the files a new volume comes with
    Groups, NoGroup,    \* the values of fsGroup in pods, and its absence
    OwnGroup,           \* the group that processes create files with
    VolumeKinds,        \* what volumes and their CSIDriver objects look like
    Capabilities,       \* sets of node capabilities that versions of the driver have
    ContainersWait,     \* whether containers use the volume only after the signal
    MaxPods,            \* bound on the pods that follow each other
    MaxReplacements,    \* bound on changes of the driver's version
    MaxFaults           \* bound on failed calls and restarts

FSGroupPolicies == {"None", "File", "ReadWriteOnceWithFSType"}
AccessModes == {"ReadWriteOnce", "ReadOnlyMany", "ReadWriteMany", "ReadWriteOncePod"}
NodeCapabilities == {"STAGE_UNSTAGE_VOLUME", "VOLUME_MOUNT_GROUP"}

\* A tree: the directories above a file lead from it to the root, one below the other.
ASSUME TreeAssumption ==
    /\ Root \in Dirs /\ Dirs \subseteq OldFiles /\ OldFiles \subseteq Files
    /\ Parent \in [Files \ {Root} -> Dirs]
    /\ Above \in [Files -> SUBSET Dirs]
    /\ Above[Root] = {}
    /\ \A f \in Files \ {Root} :
          /\ Root \in Above[f] /\ f \notin Above[f]
          /\ Above[f] = {Parent[f]} \cup Above[Parent[f]]
    /\ \A f \in Files : \A d \in Above[f] :
          \E c \in Files \ {Root} : Parent[c] = d /\ (c = f \/ c \in Above[f])
ASSUME GroupAssumption == NoGroup \notin Groups /\ OwnGroup \notin Groups \cup {NoGroup}
ASSUME VolumeAssumption ==
    VolumeKinds \subseteq [policy : FSGroupPolicies, fsType : STRING, modes : SUBSET AccessModes]
ASSUME DriverAssumption == Capabilities \subseteq SUBSET NodeCapabilities
ASSUME SwitchAssumption == ContainersWait \in BOOLEAN
ASSUME BoundAssumption == MaxPods \in Nat /\ MaxReplacements \in Nat /\ MaxFaults \in Nat

VARIABLES
    volume,     \* the volume and its CSIDriver object
    driver,     \* the driver's node capabilities
    pod,        \* fsGroup and fsGroupChangePolicy of the pod
    staged, published,      \* whether the driver has staged and published for the pod
    told,       \* history: whether a publishing that took effect carried the pod's group
    mounted,    \* whether a sync of the pod has succeeded
    exists, group, open,    \* the files, their groups, and those with the mode bits
    passed,     \* history: files nobody vouches for, see CreateFile, Chmod and setUpPath
    worker,     \* the sync in progress
    pods, replacements, faults

volumeVars == <<volume, driver, pod>>
callVars == <<staged, published, told, mounted>>
fileVars == <<exists, group, open, passed>>
boundVars == <<pods, replacements, faults>>
vars == <<volumeVars, callVars, fileVars, worker, boundVars>>

Pod == [group : Groups \cup {NoGroup}, change : {"Always", "OnRootMismatch"}]

Worker == [ pc        : {"idle", "device", "setup", "group", "call", "own", "walk"},
            call      : {"stage", "publish"},
            staging   : BOOLEAN,        \* whether to publish from the staging path
            delegated : BOOLEAN,        \* whether the driver has to apply the group
            todo      : SUBSET Files,   \* the walk: what was listed and is not done,
            entered   : SUBSET Dirs,    \* the directories of it that were listed,
            chowned   : SUBSET Files ]  \* and the file between Lchown and Chmod

IdleWorker ==
    [ pc |-> "idle", call |-> "stage", staging |-> FALSE, delegated |-> FALSE,
      todo |-> {}, entered |-> {}, chowned |-> {} ]

(***************************************************************************)
(* The type invariant.                                                     *)
(***************************************************************************)
TypeOK ==
    /\ volume \in VolumeKinds
    /\ driver \subseteq NodeCapabilities
    /\ pod \in Pod
    /\ staged \in BOOLEAN /\ published \in BOOLEAN /\ told \in BOOLEAN /\ mounted \in BOOLEAN
    /\ Dirs \subseteq exists /\ exists \subseteq Files
    /\ group \in [Files -> Groups \cup {OwnGroup}]
    /\ open \subseteq exists
    /\ passed \subseteq exists
    /\ worker \in Worker
    /\ pods \in 0..MaxPods
    /\ replacements \in 0..MaxReplacements
    /\ faults \in 0..MaxFaults

Init ==
    /\ volume \in VolumeKinds
    /\ driver \in Capabilities
    /\ pod = [group |-> NoGroup, change |-> "Always"]
    /\ staged = FALSE /\ published = FALSE /\ told = FALSE /\ mounted = FALSE
    /\ exists = OldFiles
    /\ group = [f \in Files |-> OwnGroup]
    /\ open = {}
    /\ passed = {}
    /\ worker = IdleWorker
    /\ pods = 0
    /\ replacements = 0
    /\ faults = 0

Fault ==
    /\ faults < MaxFaults
    /\ faults' = faults + 1
    /\ UNCHANGED <<pods, replacements>>

-----------------------------------------------------------------------------
(***************************************************************************)
(* Pods, their containers and the driver.                                  *)
(***************************************************************************)

\* A pod is gone, unpublished and unstaged; another one uses the volume.
NextPod ==
    /\ worker.pc = "idle"
    /\ pods < MaxPods
    /\ pods' = pods + 1
    /\ pod' \in Pod
    /\ staged' = FALSE /\ published' = FALSE /\ told' = FALSE /\ mounted' = FALSE
    /\ UNCHANGED <<volume, driver, fileVars, worker, replacements, faults>>

\* The containers run from the beginning.  Those that wait for the sidecar leave
\* the target path alone until then, the others see what is mounted there.
VolumeInUse == mounted \/ (~ContainersWait /\ published)

\* A directory that has the setgid bit hands its group on.  What is made in a directory
\* that nobody vouches for is like it.  A driver that was replaced by one without
\* VOLUME_MOUNT_GROUP leaves a volume in use to a walk, which does not see new files.
CreateFile(f) ==
    /\ VolumeInUse
    /\ f \notin exists
    /\ exists' = exists \cup {f}
    /\ group' = [group EXCEPT ![f] = IF Parent[f] \in open THEN group[Parent[f]] ELSE OwnGroup]
    /\ passed' = IF Parent[f] \in passed \/ (told /\ worker.pc = "walk") THEN passed \cup {f} ELSE passed
    /\ UNCHANGED <<volumeVars, callVars, open, worker, boundVars>>

RemoveFile(f) ==
    /\ VolumeInUse
    /\ f \in exists \ Dirs
    /\ exists' = exists \ {f}
    /\ group' = [group EXCEPT ![f] = OwnGroup]
    /\ open' = open \ {f}
    /\ passed' = passed \ {f}
    /\ UNCHANGED <<volumeVars, callVars, worker, boundVars>>

\* The driver's pod is replaced by one of another version, newer or older.
ReplaceDriver ==
    /\ replacements < MaxReplacements
    /\ replacements' = replacements + 1
    /\ driver' \in Capabilities \ {driver}
    /\ UNCHANGED <<volume, pod, callVars, fileVars, worker, pods, faults>>

\* The kubelet, after a restart, repeats NodePublishVolume of the proxy.  The target
\* path exists, it is the root of what is mounted there, and its mode is set back.
setUpPath ==
    /\ published /\ Root \in open
    /\ open' = open \ {Root}
    /\ passed' = passed \cup {Root}
    /\ UNCHANGED <<volumeVars, callVars, exists, group, worker, boundVars>>

-----------------------------------------------------------------------------
(***************************************************************************)
(* The calls.  Every question about the driver is a call of its own.       *)
(***************************************************************************)

Supports(capability) == capability \in driver

Continue(w) ==
    /\ worker' = w
    /\ UNCHANGED <<volumeVars, callVars, fileVars, boundVars>>

StartSync ==
    /\ worker.pc = "idle" /\ pods > 0
    /\ Continue([IdleWorker EXCEPT !.pc = "device"])

\* An error ends the sync, and so does the end of the process; the key is put
\* back.  A call that took effect and failed ends the sync after its step.
EndSync ==
    /\ worker.pc # "idle"
    /\ Fault
    /\ worker' = IdleWorker
    /\ UNCHANGED <<volumeVars, callVars, fileVars>>

\* Faulty variant: a volume is only staged for a driver that also takes the group.
StagesWithGroup == Supports("STAGE_UNSTAGE_VOLUME") /\ Supports("VOLUME_MOUNT_GROUP")

MustStage == Supports("STAGE_UNSTAGE_VOLUME")

mountDevice ==
    /\ worker.pc = "device"
    /\ Continue(IF MustStage
                  THEN [worker EXCEPT !.pc = "group", !.call = "stage"]
                  ELSE [worker EXCEPT !.pc = "setup"])

\* setUpAt asks again.
setUpAt ==
    /\ worker.pc = "setup"
    /\ Continue([worker EXCEPT !.pc = "group", !.call = "publish",
                               !.staging = Supports("STAGE_UNSTAGE_VOLUME")])

NodeSupportsVolumeMountGroup ==
    /\ worker.pc = "group"
    /\ Continue([worker EXCEPT !.pc = "call", !.delegated = Supports("VOLUME_MOUNT_GROUP")])

NodeStageVolume ==
    /\ worker.pc = "call" /\ worker.call = "stage"
    /\ staged' = TRUE
    /\ worker' = [worker EXCEPT !.pc = "setup"]
    /\ UNCHANGED <<volumeVars, published, told, mounted, fileVars, boundVars>>

\* The driver does not publish from a staging path where it did not stage.
NodePublishVolume ==
    /\ worker.pc = "call" /\ worker.call = "publish"
    /\ IF worker.staging /\ ~staged
         THEN worker' = IdleWorker /\ UNCHANGED <<published, told>>
         ELSE /\ worker' = [worker EXCEPT !.pc = "own"]
              /\ published' = TRUE
              /\ told' = (told \/ worker.delegated)
    /\ UNCHANGED <<volumeVars, staged, mounted, fileVars, boundVars>>

-----------------------------------------------------------------------------
(***************************************************************************)
(* SetVolumeOwnership.                                                     *)
(***************************************************************************)

supportsFSGroup ==
    /\ pod.group # NoGroup
    /\ \/ volume.policy = "File"
       \/ /\ volume.policy = "ReadWriteOnceWithFSType"
          /\ volume.fsType # ""
          /\ "ReadWriteOnce" \in volume.modes

\* Faulty variant: the mode of the root is not looked at.
RequiresGroupChange == group[Root] # pod.group

requiresPermissionChange == group[Root] # pod.group \/ Root \notin open

skipPermissionChange == pod.change = "OnRootMismatch" /\ ~requiresPermissionChange

\* Whether there is something to walk for.
MustWalk == ~worker.delegated /\ supportsFSGroup /\ ~skipPermissionChange

SetVolumeOwnership ==
    /\ worker.pc = "own"
    /\ worker' = IF MustWalk THEN [worker EXCEPT !.pc = "walk", !.todo = {Root}] ELSE IdleWorker
    /\ mounted' = (mounted \/ ~MustWalk)
    /\ UNCHANGED <<volumeVars, staged, published, told, fileVars, boundVars>>

\* A file of the group; a directory also hands the group on.
Owned(f, g) == group[f] = g /\ (f \in Dirs => f \in open)

\* A walk has done what it can for the file.
Settled(f, g) == Owned(f, g) \/ f \in passed

Children(d) == {f \in Files \ {Root} : Parent[f] = d}

\* The directory the walk is in: a subdirectory is finished before the next entry.
Current(d) == d \in worker.entered /\ \A e \in worker.entered : d \notin Above[e]

\* readDirNames: what is created in the directory later is not seen.
EnterDirectory(d) ==
    /\ worker.pc = "walk" /\ worker.chowned = {}
    /\ d \in worker.todo \ worker.entered
    /\ d # Root => Current(Parent[d])
    /\ Continue([worker EXCEPT !.entered = @ \cup {d}, !.todo = @ \cup (Children(d) \cap exists)])

\* Faulty variant: a directory is changed before its entries.
DueOnEntry(f) == IF f \in Dirs THEN Current(f) ELSE f \in worker.todo /\ Current(Parent[f])

\* walkFunc is invoked on a directory after all its entries.
Due(f) ==
    IF f \in Dirs
      THEN Current(f) /\ Children(f) \cap worker.todo = {}
      ELSE f \in worker.todo /\ Current(Parent[f])

\* A file that was listed and is gone fails the walk.
LstatFails(f) ==
    /\ worker.pc = "walk" /\ worker.chowned = {}
    /\ Due(f) /\ f \notin exists
    /\ Continue(IdleWorker)

\* An error of Lchown or Chmod is logged and passed over.
Lchown(f) ==
    /\ worker.pc = "walk" /\ worker.chowned = {}
    /\ Due(f) /\ f \in exists
    /\ \/ group' = [group EXCEPT ![f] = pod.group] /\ UNCHANGED boundVars
       \/ Fault /\ UNCHANGED group
    /\ worker' = [worker EXCEPT !.chowned = {f}]
    /\ UNCHANGED <<volumeVars, callVars, exists, open, passed>>

\* The root comes last.
AfterChmod(f) ==
    IF f = Root
      THEN IdleWorker
      ELSE [worker EXCEPT !.chowned = {}, !.todo = @ \ {f}, !.entered = @ \ {f}]

Chmod(f) ==
    /\ worker.pc = "walk" /\ f \in worker.chowned
    /\ UNCHANGED <<volumeVars, staged, published, told, exists, group>>
    /\ \/ open' = open \cup ({f} \cap exists) /\ UNCHANGED boundVars
       \/ Fault /\ UNCHANGED open
    /\ passed' = IF Owned(f, pod.group)' THEN passed \ {f} ELSE passed \cup ({f} \cap exists)
    /\ worker' = AfterChmod(f)
    /\ mounted' = (mounted \/ f = Root)

-----------------------------------------------------------------------------
Calling ==
    \/ mountDevice \/ setUpAt
    \/ NodeSupportsVolumeMountGroup
    \/ NodeStageVolume \/ NodePublishVolume

Owning ==
    \/ SetVolumeOwnership
    \/ \E d \in Dirs : EnterDirectory(d)
    \/ \E f \in Files : LstatFails(f) \/ Lchown(f) \/ Chmod(f)

Syncing == Calling \/ Owning

Next ==
    \/ NextPod \/ ReplaceDriver \/ setUpPath \/ StartSync \/ EndSync
    \/ \E f \in Files \ Dirs : CreateFile(f) \/ RemoveFile(f)
    \/ Syncing

Spec == Init /\ [][Next]_vars

\* An answer comes to every call, and a sync that failed is repeated; one that
\* succeeded need not be.
FairSpec == Spec /\ WF_vars(Syncing) /\ WF_vars(~mounted /\ StartSync)

-----------------------------------------------------------------------------
(***************************************************************************)
(* Properties.                                                             *)
(***************************************************************************)

\* "SetVolumeOwnership modifies the given volume to be owned by fsGroup, and sets
\* SetGid so that newly created files are owned by fsGroup": once the pod has been
\* told of its volume, all files in it are its group's, those that its containers
\* make too, unless the driver took the group on.  Excepted are the files that nobody
\* vouches for and no others: where an error was passed over, the root whose mode
\* setUpPath set back, what was made in these, and what was made while a volume that a
\* driver had taken the group of was walked over (volume_linux.go:38-40, 71-102;
\* targetpathbind/manager.go:101-104; sync_volume.go:565).
OwnedByGroup ==
    mounted /\ supportsFSGroup => told \/ \A f \in exists : Settled(f, pod.group)

\* OnRootMismatch looks at the root alone: a walk that ended early must not have
\* left a root that speaks for files it never reached (volume_linux.go:105-154).
RootSpeaksForAll ==
    \A g \in Groups : Owned(Root, g) => \A f \in exists : Settled(f, g)

\* A pod that stays has its volume in the end, whatever failed and whichever
\* questions a driver of another version answered differently the second time.
PodGetsVolume == \A n \in 1..MaxPods : [](pods = n => <>(mounted \/ pods # n))

=============================================================================
