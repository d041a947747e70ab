------------------------- MODULE VolumeSetupProofs -------------------------
(***************************************************************************)
(* Proofs about VolumeSetup: why OnRootMismatch may look at the root alone *)
(* as long as pods have one group, whatever the driver answers and however *)
(* often the target path is set up again.                                  *)
(***************************************************************************)
EXTENDS VolumeSetup, TLAPS

LEMMA IdleType == IdleWorker \in Worker
  BY DEF IdleWorker, Worker

\* A walk is for a group.
WalksForGroup == worker.pc = "walk" => pod.group \in Groups

TypeInv == TypeOK /\ WalksForGroup

LEMMA InitType == Init => TypeInv
<1> SUFFICES ASSUME Init PROVE TypeInv
  OBVIOUS
<1>1. worker \in Worker /\ worker.pc = "idle"
  BY IdleType DEF Init, IdleWorker
<1>2. pod \in Pod /\ staged \in BOOLEAN /\ published \in BOOLEAN /\ told \in BOOLEAN
  BY DEF Init, Pod
<1>3. exists \in SUBSET Files /\ Dirs \subseteq exists /\ open \subseteq exists /\ passed \subseteq exists
  BY TreeAssumption DEF Init
<1>4. group \in [Files -> Groups \cup {OwnGroup}]
  BY DEF Init
<1>5. mounted \in BOOLEAN
  BY DEF Init
<1>6. driver \subseteq NodeCapabilities /\ volume \in VolumeKinds
  BY DriverAssumption DEF Init
<1>7. pods \in 0..MaxPods /\ replacements \in 0..MaxReplacements /\ faults \in 0..MaxFaults
  BY BoundAssumption DEF Init
<1> QED
  BY <1>1, <1>2, <1>3, <1>4, <1>5, <1>6, <1>7 DEF TypeInv, TypeOK, WalksForGroup

LEMMA NextType == TypeInv /\ [Next]_vars => TypeInv'
<1> SUFFICES ASSUME TypeInv, [Next]_vars PROVE TypeInv'
  OBVIOUS
<1> USE BoundAssumption, TreeAssumption
<1> USE DEF TypeInv, TypeOK, WalksForGroup
<1>1. CASE NextPod
  <2>1. pod' \in Pod /\ worker' = worker /\ worker.pc # "walk"
    BY <1>1 DEF NextPod
  <2>2. staged' \in BOOLEAN /\ published' \in BOOLEAN /\ told' \in BOOLEAN /\ mounted' \in BOOLEAN
    BY <1>1 DEF NextPod
  <2>3. pods' \in 0..MaxPods /\ UNCHANGED <<volume, driver, exists, group, open, passed, replacements, faults>>
    BY <1>1 DEF NextPod, fileVars
  <2> QED
    BY <2>1, <2>2, <2>3
<1>2. CASE ReplaceDriver
  BY <1>2, DriverAssumption DEF ReplaceDriver, callVars, fileVars
<1>3. CASE StartSync
  <2>1. [IdleWorker EXCEPT !.pc = "device"] \in Worker
    BY IdleType DEF Worker
  <2> QED
    BY <1>3, <2>1 DEF StartSync, IdleWorker, Continue, volumeVars, callVars, fileVars, boundVars
<1>4. CASE EndSync
  BY <1>4, IdleType DEF EndSync, IdleWorker, Fault, volumeVars, callVars, fileVars
<1>5. ASSUME NEW f \in Files \ Dirs, CreateFile(f) PROVE TypeInv'
  <2>1. Parent[f] \in Files
    OBVIOUS
  <2> QED
    BY <1>5, <2>1 DEF CreateFile, volumeVars, callVars, boundVars
<1>6. ASSUME NEW f \in Files \ Dirs, RemoveFile(f) PROVE TypeInv'
  BY <1>6 DEF RemoveFile, volumeVars, callVars, boundVars
<1>7. CASE mountDevice
  <2>1. worker' \in Worker
    BY <1>7 DEF mountDevice, Continue, Worker
  <2> QED
    BY <1>7, <2>1 DEF mountDevice, Continue, volumeVars, callVars, fileVars, boundVars
<1>8. CASE setUpAt
  <2> DEFINE answer == Supports("STAGE_UNSTAGE_VOLUME")
  <2>1. worker' \in Worker /\ worker'.pc # "walk"
    <3>1. answer \in BOOLEAN
      BY DEF Supports
    <3>2. worker' = [worker EXCEPT !.pc = "group", !.call = "publish", !.staging = answer]
      BY <1>8 DEF setUpAt, Continue
    <3> HIDE DEF answer
    <3> QED
      BY <3>1, <3>2 DEF Worker
  <2> QED
    BY <1>8, <2>1 DEF setUpAt, Continue, volumeVars, callVars, fileVars, boundVars
<1>9. CASE NodeSupportsVolumeMountGroup
  <2> DEFINE answer == Supports("VOLUME_MOUNT_GROUP")
  <2>1. worker' \in Worker /\ worker'.pc # "walk"
    <3>1. answer \in BOOLEAN
      BY DEF Supports
    <3>2. worker' = [worker EXCEPT !.pc = "call", !.delegated = answer]
      BY <1>9 DEF NodeSupportsVolumeMountGroup, Continue
    <3> HIDE DEF answer
    <3> QED
      BY <3>1, <3>2 DEF Worker
  <2> QED
    BY <1>9, <2>1 DEF NodeSupportsVolumeMountGroup, Continue, volumeVars, callVars, fileVars, boundVars
<1>10. CASE setUpPath
  <2>1. open' \subseteq exists /\ passed' \subseteq exists
    BY <1>10 DEF setUpPath
  <2> QED
    BY <1>10, <2>1 DEF setUpPath, volumeVars, callVars, boundVars
<1>11. CASE NodeStageVolume
  <2>1. worker' \in Worker
    BY <1>11 DEF NodeStageVolume, Worker
  <2> QED
    BY <1>11, <2>1 DEF NodeStageVolume, volumeVars, fileVars, boundVars
<1>12. CASE NodePublishVolume
  <2>1. worker' \in Worker
    BY <1>12, IdleType DEF NodePublishVolume, Worker
  <2> QED
    <3>1. worker'.pc # "walk"
      BY <1>12 DEF NodePublishVolume, IdleWorker, Worker
    <3>2. published' \in BOOLEAN /\ told' \in BOOLEAN
      BY <1>12 DEF NodePublishVolume, Worker
    <3>3. UNCHANGED <<volumeVars, staged, mounted, fileVars, boundVars>>
      BY <1>12 DEF NodePublishVolume
    <3> QED
      BY <2>1, <3>1, <3>2, <3>3 DEF volumeVars, fileVars, boundVars
<1>13. CASE SetVolumeOwnership
  <2>1. worker' \in Worker
    <3>1. {Root} \in SUBSET Files
      OBVIOUS
    <3>2. [worker EXCEPT !.pc = "walk", !.todo = {Root}] \in Worker
      BY <3>1 DEF Worker
    <3> QED
      BY <1>13, <3>2, IdleType DEF SetVolumeOwnership
  <2>2. worker'.pc = "walk" => pod.group \in Groups
    BY <1>13 DEF SetVolumeOwnership, MustWalk, supportsFSGroup, IdleWorker, Pod
  <2> QED
    <3>1. mounted' \in BOOLEAN
      BY <1>13 DEF SetVolumeOwnership
    <3> QED
      BY <1>13, <2>1, <2>2, <3>1 DEF SetVolumeOwnership, volumeVars, fileVars, boundVars
<1>14. ASSUME NEW d \in Dirs, EnterDirectory(d) PROVE TypeInv'
  <2>1. worker' \in Worker
    <3>1. worker.entered \cup {d} \subseteq Dirs
      BY DEF Worker
    <3>2. worker.todo \cup (Children(d) \cap exists) \subseteq Files
      BY DEF Worker
    <3> QED
      BY <1>14, <3>1, <3>2 DEF EnterDirectory, Continue, Worker
  <2> QED
    BY <1>14, <2>1 DEF EnterDirectory, Continue, volumeVars, callVars, fileVars, boundVars
<1>15. ASSUME NEW f \in Files, LstatFails(f) PROVE TypeInv'
  BY <1>15, IdleType DEF LstatFails, IdleWorker, Continue, volumeVars, callVars, fileVars, boundVars
<1>16. ASSUME NEW f \in Files, Lchown(f) PROVE TypeInv'
  <2>1. worker' \in Worker
    <3>1. {f} \in SUBSET Files
      OBVIOUS
    <3> QED
      BY <1>16, <3>1 DEF Lchown, Worker
  <2>2. group' \in [Files -> Groups \cup {OwnGroup}]
    BY <1>16 DEF Lchown
  <2> QED
    BY <1>16, <2>1, <2>2 DEF Lchown, Fault, volumeVars, callVars, boundVars
<1>17. ASSUME NEW f \in Files, Chmod(f) PROVE TypeInv'
  <2>1. worker' \in Worker
    BY <1>17, IdleType DEF Chmod, AfterChmod, Worker
  <2> QED
    BY <1>17, <2>1 DEF Chmod, Fault, volumeVars, boundVars
<1>18. CASE UNCHANGED vars
  BY <1>18 DEF vars, volumeVars, callVars, fileVars, boundVars
<1> QED
  BY <1>1, <1>2, <1>3, <1>4, <1>5, <1>6, <1>7, <1>8, <1>9, <1>10, <1>11, <1>12, <1>13,
     <1>14, <1>15, <1>16, <1>17, <1>18
  DEF Next, Syncing, Calling, Owning

\* Files only ever get a group from the pods, and a walk only lists what is in the tree.
THEOREM TypeCorrect == Spec => []TypeOK
<1>1. TypeInv => TypeOK
  BY DEF TypeInv
<1> QED
  BY <1>1, InitType, NextType, PTL DEF Spec

-----------------------------------------------------------------------------
(***************************************************************************)
(* What setUpAt acts upon when it comes to the files.  The driver may have *)
(* been replaced since, so this is about the answer it got.                *)
(***************************************************************************)
AsAsked ==
    /\ worker.pc = "own" => (worker.delegated => told)
    /\ worker.pc = "walk" => ~worker.delegated /\ supportsFSGroup

AskedInv == TypeInv /\ AsAsked

LEMMA AskedInit == Init => AskedInv
  BY InitType DEF Init, AskedInv, AsAsked, IdleWorker

\* The worker does not get as far as the files, or stays there with what was asked for.
LEMMA AskedMoves ==
    ASSUME AskedInv, TypeInv', UNCHANGED <<volume, pod>>,
           \/ worker'.pc \notin {"own", "walk"}
           \/ worker'.pc = worker.pc /\ worker'.delegated = worker.delegated /\ told' = told
    PROVE  AskedInv'
  BY DEF AskedInv, AsAsked, supportsFSGroup

LEMMA AskedNext == AskedInv /\ [Next]_vars => AskedInv'
<1> SUFFICES ASSUME AskedInv, [Next]_vars PROVE AskedInv'
  OBVIOUS
<1>a. TypeInv /\ TypeInv'
  BY NextType DEF AskedInv
<1>b. worker \in Worker
  BY <1>a DEF TypeInv, TypeOK
<1> USE <1>a
<1>1. CASE NextPod
  BY <1>1 DEF NextPod, AskedInv, AsAsked
<1>2. CASE ReplaceDriver \/ setUpPath
  BY <1>2, AskedMoves DEF ReplaceDriver, setUpPath, volumeVars, callVars
<1>3. CASE StartSync
  BY <1>3, AskedMoves DEF StartSync, Continue, IdleWorker, volumeVars
<1>4. CASE EndSync
  BY <1>4, AskedMoves DEF EndSync, IdleWorker, volumeVars
<1>5. ASSUME NEW f \in Files \ Dirs, CreateFile(f) \/ RemoveFile(f) PROVE AskedInv'
  BY <1>5, AskedMoves DEF CreateFile, RemoveFile, volumeVars, callVars
<1>6. CASE mountDevice \/ setUpAt \/ NodeSupportsVolumeMountGroup \/ NodeStageVolume
  <2>1. worker'.pc \in {"group", "setup", "call"}
    BY <1>6, <1>b
    DEF mountDevice, setUpAt, NodeSupportsVolumeMountGroup, NodeStageVolume, Continue, Worker
  <2>2. UNCHANGED <<volume, pod>>
    BY <1>6
    DEF mountDevice, setUpAt, NodeSupportsVolumeMountGroup, NodeStageVolume, Continue, volumeVars
  <2> QED
    BY <2>1, <2>2, AskedMoves
<1>7. CASE NodePublishVolume
  <2>1. CASE worker.staging /\ ~staged
    BY <1>7, <2>1, AskedMoves DEF NodePublishVolume, IdleWorker, volumeVars
  <2>2. CASE ~(worker.staging /\ ~staged)
    <3>1. worker'.pc = "own" /\ worker'.delegated = worker.delegated
      BY <1>7, <2>2, <1>b DEF NodePublishVolume, Worker
    <3>2. told' = (told \/ worker.delegated)
      BY <1>7, <2>2 DEF NodePublishVolume
    <3> QED
      BY <3>1, <3>2 DEF AskedInv, AsAsked
  <2> QED
    BY <2>1, <2>2
<1>8. CASE SetVolumeOwnership
  <2>1. UNCHANGED <<volume, pod>>
    BY <1>8 DEF SetVolumeOwnership, volumeVars
  <2>2. CASE MustWalk
    <3>1. worker'.pc = "walk" /\ worker'.delegated = worker.delegated
      BY <1>8, <2>2, <1>b DEF SetVolumeOwnership, Worker
    <3>2. ~worker.delegated /\ supportsFSGroup
      BY <2>2 DEF MustWalk
    <3> QED
      BY <2>1, <3>1, <3>2 DEF AskedInv, AsAsked, supportsFSGroup
  <2>3. CASE ~MustWalk
    BY <1>8, <2>1, <2>3, AskedMoves DEF SetVolumeOwnership, IdleWorker
  <2> QED
    BY <2>2, <2>3
<1>9. ASSUME NEW d \in Dirs, EnterDirectory(d) PROVE AskedInv'
  <2>1. worker'.pc = worker.pc /\ worker'.delegated = worker.delegated
    BY <1>9, <1>b DEF EnterDirectory, Continue, Worker
  <2> QED
    BY <1>9, <2>1, AskedMoves DEF EnterDirectory, Continue, volumeVars, callVars
<1>10. ASSUME NEW f \in Files, LstatFails(f) PROVE AskedInv'
  BY <1>10, AskedMoves DEF LstatFails, Continue, IdleWorker, volumeVars
<1>11. ASSUME NEW f \in Files, Lchown(f) PROVE AskedInv'
  <2>1. worker'.pc = worker.pc /\ worker'.delegated = worker.delegated
    BY <1>11, <1>b DEF Lchown, Worker
  <2> QED
    BY <1>11, <2>1, AskedMoves DEF Lchown, volumeVars, callVars
<1>12. ASSUME NEW f \in Files, Chmod(f) PROVE AskedInv'
  <2>1. CASE f = Root
    BY <1>12, <2>1, AskedMoves DEF Chmod, AfterChmod, IdleWorker, volumeVars
  <2>2. CASE f # Root
    <3>1. worker'.pc = worker.pc /\ worker'.delegated = worker.delegated
      BY <1>12, <2>2, <1>b DEF Chmod, AfterChmod, Worker
    <3> QED
      BY <1>12, <3>1, AskedMoves DEF Chmod, volumeVars
  <2> QED
    BY <2>1, <2>2
<1>13. CASE UNCHANGED vars
  BY <1>13, AskedMoves DEF vars, volumeVars, callVars
<1> QED
  BY <1>1, <1>2, <1>3, <1>4, <1>5, <1>6, <1>7, <1>8, <1>9, <1>10, <1>11, <1>12, <1>13
  DEF Next, Syncing, Calling, Owning

-----------------------------------------------------------------------------
(***************************************************************************)
(* The files.  A file is settled, or listed, or below a directory that was   *)
(* not listed yet; what was listed goes down from the root without a gap,  *)
(* so that nothing is left when the root's turn comes.                     *)
(***************************************************************************)
WalkIsIdle == worker.pc # "walk" => worker.todo = {} /\ worker.entered = {} /\ worker.chowned = {}

RootIsListed == worker.pc = "walk" => Root \in worker.todo

ListedFromAbove ==
    /\ worker.entered \subseteq worker.todo
    /\ \A f \in worker.todo : Above[f] \subseteq worker.entered

ChownedIsDue ==
    \A f \in worker.chowned :
        /\ f \in worker.todo /\ Children(f) \cap worker.todo = {}
        /\ f \in Dirs => f \in worker.entered

Covered(f) ==
    \/ Settled(f, pod.group)
    \/ f \in worker.todo
    \/ \E d \in worker.todo \ worker.entered : d \in Above[f]

AllCovered == worker.pc = "walk" => \A f \in exists : Covered(f)

WalkInv == WalkIsIdle /\ RootIsListed /\ ListedFromAbove /\ ChownedIsDue /\ AllCovered

OwnershipInv == AskedInv /\ WalkInv /\ OwnedByGroup /\ RootSpeaksForAll

\* Nothing that is listed lies below a file none of whose entries is.
LEMMA NothingBelow ==
    ASSUME TypeOK, ListedFromAbove, NEW f \in Files, Children(f) \cap worker.todo = {},
           NEW g \in worker.todo
    PROVE  f \notin Above[g]
<1> SUFFICES ASSUME f \in Above[g] PROVE FALSE
  OBVIOUS
<1>1. g \in Files
  BY DEF TypeOK, Worker
<1>2. PICK c \in Files \ {Root} : Parent[c] = f /\ (c = g \/ c \in Above[g])
  BY <1>1, TreeAssumption
<1>3. c \in Children(f)
  BY <1>2 DEF Children
<1>4. c \in worker.todo
  BY <1>2 DEF ListedFromAbove
<1> QED
  BY <1>3, <1>4

\* When the root's turn comes it is the last.
LEMMA RootIsLast ==
    ASSUME TypeOK, ListedFromAbove, Children(Root) \cap worker.todo = {}
    PROVE  worker.todo \subseteq {Root}
<1>1. Root \in Files
  BY TreeAssumption
<1> SUFFICES ASSUME NEW g \in worker.todo, g # Root PROVE FALSE
  OBVIOUS
<1>2. g \in Files
  BY DEF TypeOK, Worker
<1>3. Root \in Above[g]
  BY <1>2, TreeAssumption
<1> QED
  BY <1>1, <1>3, NothingBelow

\* Then all files but the root are settled.
LEMMA RestIsSettled ==
    ASSUME TypeOK, WalkInv, worker.pc = "walk", Root \in worker.entered,
           Children(Root) \cap worker.todo = {}, NEW f \in exists, f # Root
    PROVE  Settled(f, pod.group)
<1>1. worker.todo \subseteq {Root}
  BY RootIsLast DEF WalkInv
<1>2. Covered(f)
  BY DEF WalkInv, AllCovered
<1> QED
  BY <1>1, <1>2 DEF Covered

LEMMA OwnershipInit == Init => OwnershipInv
<1> SUFFICES ASSUME Init PROVE OwnershipInv
  OBVIOUS
<1>1. AskedInv
  BY AskedInit
<1>2. WalkInv
  BY DEF Init, IdleWorker, WalkInv, WalkIsIdle, RootIsListed, ListedFromAbove, ChownedIsDue, AllCovered
<1>3. OwnedByGroup
  BY DEF Init, OwnedByGroup
<1>4. RootSpeaksForAll
  <2>1. Root \in Files
    BY TreeAssumption
  <2>2. group[Root] = OwnGroup
    BY <2>1 DEF Init
  <2> QED
    BY <2>2, GroupAssumption DEF RootSpeaksForAll, Owned
<1> QED
  BY <1>1, <1>2, <1>3, <1>4 DEF OwnershipInv

\* A sync that is over leaves nothing of a walk.
LEMMA WalkEnds ==
    ASSUME worker' = IdleWorker
    PROVE  WalkInv'
  BY DEF IdleWorker, WalkInv, WalkIsIdle, RootIsListed, ListedFromAbove, ChownedIsDue, AllCovered

\* A worker that does not walk keeps it so.
LEMMA WalkIsAway ==
    ASSUME WalkInv, worker.pc # "walk", worker'.pc # "walk",
           worker'.todo = worker.todo, worker'.entered = worker.entered, worker'.chowned = worker.chowned
    PROVE  WalkInv'
  BY DEF WalkInv, WalkIsIdle, RootIsListed, ListedFromAbove, ChownedIsDue, AllCovered

\* The claims about the files stand while files, pod and volume do.
LEMMA FilesStay ==
    ASSUME OwnedByGroup, RootSpeaksForAll,
           UNCHANGED <<volume, pod, told, mounted, exists, group, open, passed>>
    PROVE  OwnedByGroup' /\ RootSpeaksForAll'
  BY DEF OwnedByGroup, RootSpeaksForAll, Settled, Owned, supportsFSGroup

SettledNext(f, g) == (group'[f] = g /\ (f \in Dirs => f \in open')) \/ f \in passed'

\* Containers that wait write only where everything is settled, and a file they make
\* is settled as its directory is.
LEMMA OwnershipCreate ==
    ASSUME ContainersWait, OwnershipInv, AskedInv', NEW f \in Files \ Dirs, CreateFile(f)
    PROVE  OwnershipInv'
<1>1. TypeOK
  BY DEF OwnershipInv, AskedInv, TypeInv
<1>2. f \notin exists /\ exists' = exists \cup {f} /\ mounted /\ open' = open
  BY DEF CreateFile, VolumeInUse
<1>3. UNCHANGED <<volume, pod, told, mounted, worker>>
  BY DEF CreateFile, volumeVars, callVars
<1>4. Parent[f] \in Dirs /\ Parent[f] \in exists /\ f # Root
  BY <1>1, TreeAssumption DEF TypeOK
<1>5. ASSUME NEW g \in Groups, \A e \in exists : Settled(e, g)
      PROVE  \A e \in exists' : Settled(e, g)'
  <2>1. group'[f] = g \/ f \in passed'
    BY <1>1, <1>4, <1>5 DEF CreateFile, Settled, Owned, TypeOK
  <2>2. \A e \in exists : group'[e] = group[e] /\ (e \in passed => e \in passed')
    BY <1>1, <1>2 DEF CreateFile, TypeOK
  <2> QED
    BY <1>2, <1>5, <2>1, <2>2 DEF Settled, Owned
<1>6. OwnedByGroup'
  <2> SUFFICES ASSUME supportsFSGroup', ~told'
               PROVE  \A e \in exists' : Settled(e, pod.group)'
    BY <1>3 DEF OwnedByGroup
  <2>1. supportsFSGroup /\ ~told
    BY <1>3 DEF supportsFSGroup
  <2>2. pod.group \in Groups
    BY <1>1, <2>1 DEF supportsFSGroup, TypeOK, Pod
  <2>3. \A e \in exists : Settled(e, pod.group)
    BY <1>2, <2>1 DEF OwnershipInv, OwnedByGroup
  <2>4. \A e \in exists' : SettledNext(e, pod.group)
    BY <1>5, <2>2, <2>3 DEF Settled, SettledNext, Owned
  <2> QED
    BY <2>4, <1>3 DEF Settled, SettledNext, Owned
<1>7. RootSpeaksForAll'
  <2> SUFFICES ASSUME NEW g \in Groups, Owned(Root, g)' PROVE \A e \in exists' : Settled(e, g)'
    BY DEF RootSpeaksForAll
  <2>1. Owned(Root, g)
    BY <1>1, <1>2, <1>4, TreeAssumption DEF CreateFile, Owned, TypeOK
  <2> QED
    BY <1>5, <2>1 DEF OwnershipInv, RootSpeaksForAll
<1>8. WalkInv'
  <2>1. CASE worker.pc # "walk"
    BY <2>1, <1>3, WalkIsAway DEF OwnershipInv
  <2>2. CASE worker.pc = "walk"
    <3>1. supportsFSGroup
      BY <2>2 DEF OwnershipInv, AskedInv, AsAsked
    <3>2. pod.group \in Groups
      BY <1>1, <3>1 DEF supportsFSGroup, TypeOK, Pod
    <3>3. \A e \in exists : Covered(e) => (SettledNext(e, pod.group) \/ Covered(e)')
      <4>1. \A e \in exists : group'[e] = group[e] /\ (e \in passed => e \in passed')
        BY <1>1, <1>2 DEF CreateFile, TypeOK
      <4> QED
        BY <4>1, <1>2, <1>3 DEF Covered, Settled, SettledNext, Owned
    <3>4. SettledNext(f, pod.group)
      <4>1. CASE told
        BY <4>1, <2>2 DEF CreateFile, SettledNext
      <4>2. CASE ~told
        <5>1. \A e \in exists : Settled(e, pod.group)
          BY <4>2, <1>2, <3>1 DEF OwnershipInv, OwnedByGroup
        <5> QED
          BY <5>1, <3>2, <1>2, <1>5 DEF Settled, SettledNext, Owned
      <4> QED
        BY <4>1, <4>2
    <3>5. AllCovered'
      BY <2>2, <3>3, <3>4, <1>2, <1>3
      DEF OwnershipInv, WalkInv, AllCovered, Covered, Settled, SettledNext, Owned
    <3>6. ChownedIsDue'
      BY <1>3 DEF OwnershipInv, WalkInv, ChownedIsDue, Children
    <3> QED
      BY <3>5, <3>6, <1>3 DEF OwnershipInv, WalkInv, WalkIsIdle, RootIsListed, ListedFromAbove
  <2> QED
    BY <2>1, <2>2
<1> QED
  BY <1>6, <1>7, <1>8 DEF OwnershipInv

LEMMA OwnershipRemove ==
    ASSUME OwnershipInv, AskedInv', NEW f \in Files \ Dirs, RemoveFile(f)
    PROVE  OwnershipInv'
<1>1. TypeOK
  BY DEF OwnershipInv, AskedInv, TypeInv
<1>2. exists' = exists \ {f} /\ open' = open \ {f} /\ f # Root
  BY TreeAssumption DEF RemoveFile
<1>3. UNCHANGED <<volume, pod, told, mounted, worker>>
  BY DEF RemoveFile, volumeVars, callVars
<1>4. \A e \in exists' : /\ group'[e] = group[e]
                         /\ e \in Dirs => (e \in open' <=> e \in open)
                         /\ e \in passed => e \in passed'
  BY <1>1, <1>2 DEF RemoveFile, TypeOK
<1>5. Root \in exists'
  BY <1>1, <1>2, TreeAssumption DEF TypeOK
<1>6. OwnedByGroup'
  BY <1>2, <1>3, <1>4 DEF OwnershipInv, OwnedByGroup, Settled, Owned, supportsFSGroup
<1>7. RootSpeaksForAll'
  <2> SUFFICES ASSUME NEW g \in Groups, Owned(Root, g)' PROVE \A e \in exists' : Settled(e, g)'
    BY DEF RootSpeaksForAll
  <2>1. Owned(Root, g)
    BY <1>4, <1>5 DEF Owned
  <2>2. \A e \in exists : Settled(e, g)
    BY <2>1 DEF OwnershipInv, RootSpeaksForAll
  <2> QED
    BY <2>2, <1>2, <1>4 DEF Settled, Owned
<1>8. WalkInv'
  <2>1. AllCovered'
    BY <1>2, <1>3, <1>4 DEF OwnershipInv, WalkInv, AllCovered, Covered, Settled, Owned
  <2>2. ChownedIsDue'
    BY <1>2, <1>3, <1>4 DEF OwnershipInv, WalkInv, ChownedIsDue, Children
  <2> QED
    BY <2>1, <2>2, <1>3 DEF OwnershipInv, WalkInv, WalkIsIdle, RootIsListed, ListedFromAbove
<1> QED
  BY <1>6, <1>7, <1>8 DEF OwnershipInv

\* A directory that is entered hands its task down to its entries.
LEMMA OwnershipEnter ==
    ASSUME OwnershipInv, AskedInv', NEW d \in Dirs, EnterDirectory(d)
    PROVE  OwnershipInv'
<1>1. TypeOK
  BY DEF OwnershipInv, AskedInv, TypeInv
<1>2. worker.pc = "walk" /\ worker.chowned = {} /\ d \in worker.todo /\ d \notin worker.entered
  BY DEF EnterDirectory
<1>3. worker' = [worker EXCEPT !.entered = @ \cup {d}, !.todo = @ \cup (Children(d) \cap exists)]
  BY DEF EnterDirectory, Continue
<1>4. /\ worker'.pc = "walk" /\ worker'.chowned = {}
      /\ worker'.entered = worker.entered \cup {d}
      /\ worker'.todo = worker.todo \cup (Children(d) \cap exists)
  BY <1>1, <1>2, <1>3 DEF TypeOK, Worker
<1>5. UNCHANGED <<volume, pod, told, mounted, exists, group, open, passed>>
  BY DEF EnterDirectory, Continue, volumeVars, callVars, fileVars
<1>6. ListedFromAbove
  BY DEF OwnershipInv, WalkInv
<1>7. ListedFromAbove'
  <2> SUFFICES ASSUME NEW f \in worker'.todo PROVE Above[f] \subseteq worker'.entered
    BY <1>2, <1>4, <1>6 DEF ListedFromAbove
  <2>1. CASE f \in worker.todo
    BY <2>1, <1>4, <1>6 DEF ListedFromAbove
  <2>2. CASE f \in Children(d)
    <3>1. Above[f] = {d} \cup Above[d]
      BY <2>2, TreeAssumption DEF Children
    <3> QED
      BY <3>1, <1>2, <1>4, <1>6 DEF ListedFromAbove
  <2> QED
    BY <2>1, <2>2, <1>4
<1>8. AllCovered'
  <2> SUFFICES ASSUME NEW f \in exists PROVE Covered(f)'
    BY <1>5 DEF AllCovered
  <2>1. Covered(f)
    BY <1>2 DEF OwnershipInv, WalkInv, AllCovered
  <2>2. CASE Settled(f, pod.group) \/ f \in worker.todo
    BY <2>2, <1>4, <1>5 DEF Covered, Settled, Owned
  <2>3. ASSUME NEW e \in worker.todo \ worker.entered, e \in Above[f] PROVE Covered(f)'
    <3>1. CASE e # d
      BY <3>1, <2>3, <1>4 DEF Covered
    <3>2. CASE e = d
      <4>1. f \in Files
        BY <1>1 DEF TypeOK
      <4>2. PICK c \in Files \ {Root} : Parent[c] = d /\ (c = f \/ c \in Above[f])
        BY <4>1, <2>3, <3>2, TreeAssumption
      <4>3. CASE c = f
        BY <4>2, <4>3, <1>4 DEF Covered, Children
      <4>4. CASE c \in Above[f]
        <5>1. c \in Dirs
          BY <4>1, <4>4, TreeAssumption
        <5>2. c \in worker'.todo
          BY <4>2, <5>1, <1>1, <1>4 DEF Children, TypeOK
        <5>3. d \in Above[c] /\ c \notin Above[c]
          BY <4>2, TreeAssumption
        <5>4. c \notin worker.entered
          BY <5>3, <1>2, <1>6 DEF ListedFromAbove
        <5>5. c # d
          BY <5>3
        <5> QED
          BY <5>2, <5>4, <5>5, <4>4, <1>4 DEF Covered
      <4> QED
        BY <4>2, <4>3, <4>4
    <3> QED
      BY <3>1, <3>2
  <2> QED
    BY <2>1, <2>2, <2>3 DEF Covered
<1>9. WalkInv'
  BY <1>2, <1>4, <1>7, <1>8
  DEF OwnershipInv, WalkInv, WalkIsIdle, RootIsListed, ChownedIsDue
<1> QED
  BY <1>5, <1>9, FilesStay DEF OwnershipInv

OneGroup == \A g, h \in Groups : g = h

LEMMA OwnershipChown ==
    ASSUME OneGroup, OwnershipInv, AskedInv', NEW f \in Files, Lchown(f)
    PROVE  OwnershipInv'
<1>1. TypeOK /\ WalksForGroup
  BY DEF OwnershipInv, AskedInv, TypeInv
<1>2. worker.pc = "walk" /\ worker.chowned = {} /\ Due(f) /\ f \in exists
  BY DEF Lchown
<1>3. /\ worker'.pc = "walk" /\ worker'.chowned = {f}
      /\ worker'.entered = worker.entered /\ worker'.todo = worker.todo
  BY <1>1, <1>2 DEF Lchown, TypeOK, Worker
<1>4. UNCHANGED <<volume, pod, told, mounted, exists, open, passed>>
  BY DEF Lchown, volumeVars, callVars
<1>5. \A e \in exists : group'[e] = group[e] \/ (e = f /\ group'[e] = pod.group)
  BY <1>1 DEF Lchown, TypeOK
<1>6. Children(f) \cap worker.todo = {}
  BY <1>2, TreeAssumption DEF Due, Children
<1>7. pod.group \in Groups
  BY <1>1, <1>2 DEF WalksForGroup
<1>8. WalkInv'
  <2>1. f \in worker.todo /\ (f \in Dirs => f \in worker.entered)
    BY <1>2 DEF Due, Current, OwnershipInv, WalkInv, ListedFromAbove
  <2>2. ChownedIsDue'
    BY <1>3, <1>6, <2>1 DEF ChownedIsDue, Children
  <2>3. AllCovered'
    BY <1>2, <1>3, <1>4, <1>5 DEF OwnershipInv, WalkInv, AllCovered, Covered, Settled, Owned
  <2> QED
    BY <1>2, <1>3, <2>2, <2>3 DEF OwnershipInv, WalkInv, WalkIsIdle, RootIsListed, ListedFromAbove
<1>9. OwnedByGroup'
  BY <1>4, <1>5 DEF OwnershipInv, OwnedByGroup, Settled, Owned, supportsFSGroup
<1>10. RootSpeaksForAll'
  <2> SUFFICES ASSUME NEW g \in Groups, Owned(Root, g)' PROVE \A e \in exists : Settled(e, g)'
    BY <1>4 DEF RootSpeaksForAll
  <2>1. g = pod.group
    BY <1>7 DEF OneGroup
  <2>2. CASE f = Root
    <3>1. Root \in worker.entered
      BY <1>2, <2>2, TreeAssumption DEF Due, Current
    <3>2. \A e \in exists : e # Root => Settled(e, pod.group)
      BY <1>1, <1>2, <1>6, <2>2, <3>1, RestIsSettled DEF OwnershipInv
    <3> QED
      BY <2>1, <2>2, <3>2, <1>4, <1>5 DEF Settled, Owned
  <2>3. CASE f # Root
    <3>1. Root \in exists
      BY <1>1, TreeAssumption DEF TypeOK
    <3>2. Owned(Root, g)
      BY <2>3, <3>1, <1>4, <1>5 DEF Owned
    <3>3. \A e \in exists : Settled(e, g)
      BY <3>2 DEF OwnershipInv, RootSpeaksForAll
    <3> QED
      BY <3>3, <2>1, <1>4, <1>5 DEF Settled, Owned
  <2> QED
    BY <2>2, <2>3
<1> QED
  BY <1>8, <1>9, <1>10 DEF OwnershipInv

LEMMA OwnershipChmod ==
    ASSUME OneGroup, OwnershipInv, AskedInv', NEW f \in Files, Chmod(f)
    PROVE  OwnershipInv'
<1>1. TypeOK /\ WalksForGroup
  BY DEF OwnershipInv, AskedInv, TypeInv
<1>2. worker.pc = "walk" /\ f \in worker.chowned
  BY DEF Chmod
<1>3. open \subseteq open' /\ open' \subseteq open \cup {f} /\ mounted' = (mounted \/ f = Root)
  BY DEF Chmod
<1>4. UNCHANGED <<volume, pod, told, exists, group>>
  BY DEF Chmod, volumeVars
<1>5. /\ f \in worker.todo /\ Children(f) \cap worker.todo = {}
      /\ f \in Dirs => f \in worker.entered
  BY <1>2 DEF OwnershipInv, WalkInv, ChownedIsDue
<1>6. pod.group \in Groups
  BY <1>1, <1>2 DEF WalksForGroup
<1>7. f \in exists => SettledNext(f, pod.group)
  BY <1>4 DEF Chmod, SettledNext, Owned
<1>8. \A e \in exists : e # f /\ Settled(e, pod.group) => SettledNext(e, pod.group)
  BY <1>3, <1>4 DEF Chmod, Settled, SettledNext, Owned
<1>9. CASE f = Root
  <2>1. Root \in exists /\ Root \in Dirs
    BY <1>1, TreeAssumption DEF TypeOK
  <2>2. \A e \in exists : e # Root => Settled(e, pod.group)
    BY <1>1, <1>2, <1>5, <1>9, <2>1, RestIsSettled DEF OwnershipInv
  <2>3. \A e \in exists : SettledNext(e, pod.group)
    BY <1>7, <1>8, <1>9, <2>2
  <2>4. OwnedByGroup'
    BY <1>4, <2>3 DEF OwnedByGroup, Settled, SettledNext, Owned
  <2>5. RootSpeaksForAll'
    BY <1>4, <1>6, <2>3 DEF OneGroup, RootSpeaksForAll, Settled, SettledNext, Owned
  <2>6. WalkInv'
    BY <1>9, WalkEnds DEF Chmod, AfterChmod
  <2> QED
    BY <2>4, <2>5, <2>6 DEF OwnershipInv
<1>10. CASE f # Root
  <2>1. /\ worker'.pc = "walk" /\ worker'.chowned = {}
        /\ worker'.entered = worker.entered \ {f} /\ worker'.todo = worker.todo \ {f}
    BY <1>1, <1>2, <1>10 DEF Chmod, AfterChmod, TypeOK, Worker
  <2>2. ListedFromAbove
    BY DEF OwnershipInv, WalkInv
  <2>3. \A g \in worker.todo : f \notin Above[g]
    BY <1>1, <1>5, <2>2, NothingBelow
  <2>4. ListedFromAbove'
    BY <2>1, <2>2, <2>3 DEF ListedFromAbove
  <2>5. AllCovered'
    <3> SUFFICES ASSUME NEW e \in exists PROVE Covered(e)'
      BY <1>4 DEF AllCovered
    <3>1. Covered(e)
      BY <1>2 DEF OwnershipInv, WalkInv, AllCovered
    <3>2. CASE e = f \/ Settled(e, pod.group)
      <4>1. SettledNext(e, pod.group)
        BY <3>2, <1>7, <1>8
      <4> QED
        BY <4>1, <1>4 DEF Covered, Settled, SettledNext, Owned
    <3>3. CASE e # f /\ e \in worker.todo
      BY <3>3, <2>1 DEF Covered
    <3>4. ASSUME NEW d \in worker.todo \ worker.entered, d \in Above[e] PROVE Covered(e)'
      <4>1. e \in Files
        BY <1>1 DEF TypeOK
      <4>2. d \in Dirs
        BY <4>1, <3>4, TreeAssumption
      <4>3. d # f
        BY <4>2, <1>5
      <4> QED
        BY <3>4, <4>3, <2>1 DEF Covered
    <3> QED
      BY <3>1, <3>2, <3>3, <3>4 DEF Covered
  <2>6. WalkInv'
    BY <1>2, <1>10, <2>1, <2>4, <2>5
    DEF OwnershipInv, WalkInv, WalkIsIdle, RootIsListed, ChownedIsDue
  <2>7. OwnedByGroup'
    <3> SUFFICES ASSUME mounted, supportsFSGroup, ~told
                 PROVE  \A e \in exists : SettledNext(e, pod.group)
      BY <1>3, <1>4, <1>10 DEF OwnedByGroup, Settled, SettledNext, Owned, supportsFSGroup
    <3>1. \A e \in exists : Settled(e, pod.group)
      BY DEF OwnershipInv, OwnedByGroup
    <3> QED
      BY <3>1, <1>7, <1>8
  <2>8. RootSpeaksForAll'
    <3> SUFFICES ASSUME NEW g \in Groups, Owned(Root, g)' PROVE \A e \in exists : SettledNext(e, g)
      BY <1>4 DEF RootSpeaksForAll, Settled, SettledNext, Owned
    <3>1. g = pod.group
      BY <1>6 DEF OneGroup
    <3>2. Owned(Root, g)
      BY <1>3, <1>4, <1>10 DEF Owned
    <3>3. \A e \in exists : Settled(e, pod.group)
      BY <3>1, <3>2 DEF OwnershipInv, RootSpeaksForAll
    <3> QED
      BY <3>1, <3>3, <1>7, <1>8
  <2> QED
    BY <2>6, <2>7, <2>8 DEF OwnershipInv
<1> QED
  BY <1>9, <1>10

LEMMA OwnershipPublish ==
    ASSUME OwnershipInv, AskedInv', NodePublishVolume
    PROVE  OwnershipInv'
<1>1. TypeOK
  BY DEF OwnershipInv, AskedInv, TypeInv
<1>2. UNCHANGED <<volume, pod, mounted, exists, group, open, passed>>
  BY DEF NodePublishVolume, volumeVars, fileVars
<1>3. CASE worker.staging /\ ~staged
  <2>1. told' = told
    BY <1>3 DEF NodePublishVolume
  <2> QED
    BY <1>2, <1>3, <2>1, WalkEnds, FilesStay DEF NodePublishVolume, OwnershipInv
<1>4. CASE ~(worker.staging /\ ~staged)
  <2>1. worker.pc = "call" /\ worker' = [worker EXCEPT !.pc = "own"] /\ told' = (told \/ worker.delegated)
    BY <1>4 DEF NodePublishVolume
  <2>2. WalkInv'
    BY <1>1, <2>1, WalkIsAway DEF OwnershipInv, TypeOK, Worker
  <2>3. OwnedByGroup'
    BY <1>2, <2>1 DEF OwnershipInv, OwnedByGroup, Settled, Owned, supportsFSGroup
  <2>4. RootSpeaksForAll'
    BY <1>2 DEF OwnershipInv, RootSpeaksForAll, Settled, Owned
  <2> QED
    BY <2>2, <2>3, <2>4 DEF OwnershipInv
<1> QED
  BY <1>3, <1>4

\* The root is not the group's any more and does not speak for any file; the others
\* are as they were.
LEMMA OwnershipSetUpPath ==
    ASSUME OwnershipInv, AskedInv', setUpPath
    PROVE  OwnershipInv'
<1>1. Root \in Dirs /\ Root \notin open'
  BY TreeAssumption DEF setUpPath
<1>2. UNCHANGED <<volume, pod, told, mounted, worker, exists, group>>
  BY DEF setUpPath, volumeVars, callVars
<1>3. \A g \in Groups, e \in exists : Settled(e, g) => SettledNext(e, g)
  BY <1>2 DEF setUpPath, Settled, SettledNext, Owned
<1>4. ASSUME supportsFSGroup PROVE pod.group \in Groups
  BY <1>4 DEF supportsFSGroup, OwnershipInv, AskedInv, TypeInv, TypeOK, Pod
<1>5. OwnedByGroup'
  <2> SUFFICES ASSUME mounted, supportsFSGroup, ~told PROVE \A e \in exists : SettledNext(e, pod.group)
    BY <1>2 DEF OwnedByGroup, Settled, SettledNext, Owned, supportsFSGroup
  <2> QED
    BY <1>3, <1>4 DEF OwnershipInv, OwnedByGroup
<1>6. RootSpeaksForAll'
  BY <1>1 DEF RootSpeaksForAll, Owned
<1>7. WalkInv'
  <2>1. ASSUME worker.pc = "walk", NEW e \in exists PROVE Covered(e)'
    <3>1. Covered(e) /\ pod.group \in Groups
      BY <2>1, <1>4 DEF OwnershipInv, WalkInv, AllCovered, AskedInv, AsAsked
    <3>2. CASE Settled(e, pod.group)
      <4>1. SettledNext(e, pod.group)
        BY <3>1, <3>2, <1>3
      <4> QED
        BY <4>1, <1>2 DEF Covered, Settled, SettledNext, Owned
    <3>3. CASE ~Settled(e, pod.group)
      BY <3>1, <3>3, <1>2 DEF Covered
    <3> QED
      BY <3>2, <3>3
  <2>2. AllCovered'
    BY <2>1, <1>2 DEF AllCovered
  <2>3. ChownedIsDue'
    BY <1>2 DEF OwnershipInv, WalkInv, ChownedIsDue, Children
  <2> QED
    BY <2>2, <2>3, <1>2 DEF OwnershipInv, WalkInv, WalkIsIdle, RootIsListed, ListedFromAbove
<1> QED
  BY <1>5, <1>6, <1>7 DEF OwnershipInv

\* A skipped walk is one that is done.
LEMMA OwnershipStart ==
    ASSUME OwnershipInv, AskedInv', SetVolumeOwnership
    PROVE  OwnershipInv'
<1>1. TypeOK
  BY DEF OwnershipInv, AskedInv, TypeInv
<1>2. worker.pc = "own" /\ mounted' = (mounted \/ ~MustWalk)
  BY DEF SetVolumeOwnership
<1>3. UNCHANGED <<volume, pod, told, exists, group, open, passed>>
  BY DEF SetVolumeOwnership, volumeVars, fileVars
<1>4. CASE MustWalk
  <2>1. worker' = [worker EXCEPT !.pc = "walk", !.todo = {Root}]
    BY <1>4 DEF SetVolumeOwnership
  <2>2. /\ worker'.pc = "walk" /\ worker'.todo = {Root}
        /\ worker'.entered = {} /\ worker'.chowned = {}
    BY <1>1, <1>2, <2>1 DEF OwnershipInv, WalkInv, WalkIsIdle, TypeOK, Worker
  <2>3. \A f \in exists : f = Root \/ Root \in Above[f]
    BY <1>1, TreeAssumption DEF TypeOK
  <2>4. AllCovered'
    BY <1>3, <2>2, <2>3 DEF AllCovered, Covered
  <2>5. WalkInv'
    BY <2>2, <2>4, TreeAssumption DEF WalkInv, WalkIsIdle, RootIsListed, ListedFromAbove, ChownedIsDue
  <2>6. mounted' = mounted
    BY <1>1, <1>2, <1>4 DEF TypeOK
  <2> QED
    BY <1>3, <2>5, <2>6, FilesStay DEF OwnershipInv
<1>5. CASE ~MustWalk
  <2>1. WalkInv'
    BY <1>5, WalkEnds DEF SetVolumeOwnership
  <2>2. supportsFSGroup => told \/ \A f \in exists : Settled(f, pod.group)
    <3> SUFFICES ASSUME supportsFSGroup, ~worker.delegated PROVE \A f \in exists : Settled(f, pod.group)
      BY <1>2 DEF OwnershipInv, AskedInv, AsAsked
    <3>1. Owned(Root, pod.group)
      BY <1>5 DEF MustWalk, skipPermissionChange, requiresPermissionChange, Owned
    <3>2. pod.group \in Groups
      BY <1>1 DEF supportsFSGroup, TypeOK, Pod
    <3> QED
      BY <3>1, <3>2 DEF OwnershipInv, RootSpeaksForAll
  <2>3. OwnedByGroup'
    BY <1>3, <2>2 DEF OwnedByGroup, Settled, Owned, supportsFSGroup
  <2>4. RootSpeaksForAll'
    BY <1>3 DEF OwnershipInv, RootSpeaksForAll, Settled, Owned
  <2> QED
    BY <2>1, <2>3, <2>4 DEF OwnershipInv
<1> QED
  BY <1>4, <1>5

\* The steps that leave the files alone.
LEMMA OwnershipCalls ==
    ASSUME OwnershipInv, AskedInv',
           \/ ReplaceDriver \/ StartSync \/ EndSync \/ mountDevice \/ setUpAt
           \/ NodeSupportsVolumeMountGroup \/ NodeStageVolume
           \/ UNCHANGED vars \/ (\E f \in Files : LstatFails(f))
    PROVE  OwnershipInv'
<1>1. worker \in Worker /\ TypeOK
  BY DEF OwnershipInv, AskedInv, TypeInv, TypeOK
<1>2. UNCHANGED <<volume, pod, told, mounted, exists, group, open, passed>>
  BY DEF ReplaceDriver, StartSync, EndSync, mountDevice, setUpAt, NodeSupportsVolumeMountGroup,
         NodeStageVolume, LstatFails, Continue,
         vars, volumeVars, callVars, fileVars
<1>3. WalkInv'
  <2>1. CASE ReplaceDriver \/ UNCHANGED vars
    <3>1. worker' = worker
      BY <2>1 DEF ReplaceDriver, vars
    <3> QED
      BY <3>1, <1>2
      DEF OwnershipInv, WalkInv, WalkIsIdle, RootIsListed, ListedFromAbove, ChownedIsDue,
          AllCovered, Covered, Settled, Owned, Children
  <2>2. CASE EndSync \/ (\E f \in Files : LstatFails(f))
    BY <2>2, WalkEnds DEF EndSync, LstatFails, Continue
  <2>3. CASE StartSync
    <3>1. worker' = [IdleWorker EXCEPT !.pc = "device"]
      BY <2>3 DEF StartSync, Continue
    <3> QED
      BY <3>1
      DEF IdleWorker, WalkInv, WalkIsIdle, RootIsListed, ListedFromAbove, ChownedIsDue, AllCovered
  <2>4. CASE mountDevice
    BY <2>4, <1>1, WalkIsAway DEF mountDevice, Continue, Worker, OwnershipInv
  <2>5. CASE setUpAt
    BY <2>5, <1>1, WalkIsAway DEF setUpAt, Continue, Worker, OwnershipInv
  <2>6. CASE NodeSupportsVolumeMountGroup
    BY <2>6, <1>1, WalkIsAway DEF NodeSupportsVolumeMountGroup, Continue, Worker, OwnershipInv
  <2>7. CASE NodeStageVolume
    BY <2>7, <1>1, WalkIsAway DEF NodeStageVolume, Worker, OwnershipInv
  <2> QED
    BY <2>1, <2>2, <2>3, <2>4, <2>5, <2>6, <2>7
<1> QED
  BY <1>2, <1>3, FilesStay DEF OwnershipInv

LEMMA OwnershipNextPod ==
    ASSUME OwnershipInv, AskedInv', NextPod
    PROVE  OwnershipInv'
<1>1. worker' = worker /\ worker.pc = "idle" /\ ~mounted'
  BY DEF NextPod
<1>2. UNCHANGED <<exists, group, open, passed>>
  BY DEF NextPod, fileVars
<1>3. WalkInv'
  BY <1>1, WalkIsAway DEF OwnershipInv
<1>4. OwnedByGroup'
  BY <1>1 DEF OwnedByGroup
<1>5. RootSpeaksForAll'
  BY <1>2 DEF OwnershipInv, RootSpeaksForAll, Settled, Owned
<1> QED
  BY <1>3, <1>4, <1>5 DEF OwnershipInv

LEMMA OwnershipNext ==
    ASSUME OneGroup, ContainersWait
    PROVE  OwnershipInv /\ [Next]_vars => OwnershipInv'
<1> SUFFICES ASSUME OwnershipInv, [Next]_vars PROVE OwnershipInv'
  OBVIOUS
<1> USE AskedNext DEF OwnershipInv
<1>1. AskedInv'
  OBVIOUS
<1> HIDE AskedNext DEF OwnershipInv
<1> USE <1>1
<1>2. CASE NextPod
  BY <1>2, OwnershipNextPod
<1>3. ASSUME NEW f \in Files \ Dirs, CreateFile(f) PROVE OwnershipInv'
  BY <1>3, OwnershipCreate
<1>4. ASSUME NEW f \in Files \ Dirs, RemoveFile(f) PROVE OwnershipInv'
  BY <1>4, OwnershipRemove
<1>5. CASE NodePublishVolume
  BY <1>5, OwnershipPublish
<1>6. CASE SetVolumeOwnership
  BY <1>6, OwnershipStart
<1>7. ASSUME NEW d \in Dirs, EnterDirectory(d) PROVE OwnershipInv'
  BY <1>7, OwnershipEnter
<1>8. ASSUME NEW f \in Files, Lchown(f) PROVE OwnershipInv'
  BY <1>8, OwnershipChown
<1>9. ASSUME NEW f \in Files, Chmod(f) PROVE OwnershipInv'
  BY <1>9, OwnershipChmod
<1>10. CASE setUpPath
  BY <1>10, OwnershipSetUpPath
<1> QED
  BY <1>2, <1>3, <1>4, <1>5, <1>6, <1>7, <1>8, <1>9, <1>10, OwnershipCalls
  DEF Next, Syncing, Calling, Owning

\* While pods have one group or none, containers wait for the signal and the file
\* system does what it is told: a root that matches speaks for every file.
THEOREM RootAlwaysSpeaksForAll ==
    ASSUME OneGroup, ContainersWait
    PROVE  Spec => []RootSpeaksForAll
<1>1. OwnershipInv /\ [Next]_vars => OwnershipInv'
  BY OwnershipNext
<1>2. OwnershipInv => RootSpeaksForAll
  BY DEF OwnershipInv
<1> QED
  BY <1>1, <1>2, OwnershipInit, PTL DEF Spec

\* Then the files belong to the pod's group from when the pod is told of its volume.
THEOREM AlwaysOwnedByGroup ==
    ASSUME OneGroup, ContainersWait
    PROVE  Spec => []OwnedByGroup
<1>1. OwnershipInv /\ [Next]_vars => OwnershipInv'
  BY OwnershipNext
<1>2. OwnershipInv => OwnedByGroup
  BY DEF OwnershipInv
<1> QED
  BY <1>1, <1>2, OwnershipInit, PTL DEF Spec

=============================================================================
