------------------------- MODULE ProxyVolumesProofs -------------------------
(***************************************************************************)
(* A volume that CreateVolume made is on one node at a time and is never   *)
(* refused there, for any nodes, access modes and file system types.       *)
(***************************************************************************)
EXTENDS ProxyVolumes, FiniteSetTheorems, TLAPS

\* The access modes of a claim are a list with a first one.
LEMMA ModesAreListed ==
    ASSUME claim \in Claims
    PROVE  /\ claim.modes \in Seq(Modes) /\ claim.modes # <<>>
           /\ Head(claim.modes) \in ToSet(claim.modes)
           /\ ToSet(claim.modes) \subseteq Modes
<1>1. claim.modes \in ModeLists
    BY DEF Claims
<1>2. PICK s \in SUBSET Modes : claim.modes \in [1..Cardinality(s) -> s]
    BY <1>1 DEF ModeLists, SetToAllKPermutations, SetToSeqs
<1>3. IsFiniteSet(s)
    <2>1. IsFiniteSet(AccessModes)
        <3>1. AccessModes = {"ReadWriteOnce", "ReadOnlyMany"} \cup {"ReadWriteMany"} \cup {"ReadWriteOncePod"}
            BY DEF AccessModes
        <3>2. IsFiniteSet({"ReadWriteOnce"} \cup {"ReadOnlyMany"})
            BY FS_Singleton, FS_AddElement
        <3>3. {"ReadWriteOnce"} \cup {"ReadOnlyMany"} = {"ReadWriteOnce", "ReadOnlyMany"}
            OBVIOUS
        <3> QED
            BY <3>1, <3>2, <3>3, FS_AddElement
    <2> QED
        BY <2>1, FS_Subset, ModesAssumption
<1>4. Cardinality(s) \in Nat
    BY <1>3, FS_CardinalityType
<1>5. claim.modes \in Seq(Modes) /\ claim.modes # <<>>
    BY <1>1, <1>2, <1>4 DEF ModeLists
<1>6. ToSet(claim.modes) \subseteq Modes
    BY <1>2 DEF ToSet
<1>7. Head(claim.modes) = claim.modes[1] /\ 1 \in DOMAIN claim.modes
    BY <1>5
<1> QED
    BY <1>5, <1>6, <1>7 DEF ToSet

\* Both what CreateVolume is asked about and what the kubelet asks for are capabilities.
LEMMA CapabilityTypes ==
    ASSUME claim \in Claims
    PROVE  PublishCapability \in Capabilities
BY DEF Claims, PublishCapability, VolumeCapability, asCSIAccessMode, Capabilities, CSIModes

\* The types of ProxyVolumes, and no node publishes a volume that is not attached to it.
THEOREM TypeCorrect == Spec => []TypeOK
<1>1. Init => TypeOK
    BY DEF Init, TypeOK
<1>2. TypeOK /\ [Next]_vars => TypeOK'
    <2> SUFFICES ASSUME TypeOK, [Next]_vars PROVE TypeOK'
        OBVIOUS
    <2>1. CASE CreateVolume \/ CreateStatic
        BY <2>1 DEF CreateVolume, CreateStatic, TypeOK
    <2>2. ASSUME NEW n \in Nodes, ControllerPublishVolume(n) \/ ControllerUnpublishVolume(n)
          PROVE  TypeOK'
        BY <2>2 DEF ControllerPublishVolume, ControllerUnpublishVolume, TypeOK
    <2>3. ASSUME NEW n \in Nodes, NodePublishVolume(n) \/ NodeUnpublishVolume(n) PROVE TypeOK'
        BY <2>3, CapabilityTypes DEF NodePublishVolume, NodeUnpublishVolume, TypeOK
    <2>4. CASE UNCHANGED vars
        BY <2>4 DEF vars, TypeOK
    <2> QED
        BY <2>1, <2>2, <2>3, <2>4 DEF Next
<1> QED
    BY <1>1, <1>2, PTL DEF Spec

\* What is on a node was accepted by CreateVolume, or made by somebody else.
AcceptedInv ==
    /\ volume \in {"none", "refused"} => attached = {}
    /\ volume = "provisioned" =>
        /\ CreateVolumeAccepts
        /\ attached = {} \/ \E n \in Nodes : attached = {n}

\* A claim that was accepted is for one node, whichever of its modes one looks at.
LEMMA AcceptedIsExclusive ==
    ASSUME claim \in Claims, CreateVolumeAccepts
    PROVE  ~MultiAttachAllowed
<1> SUFFICES ASSUME NEW m \in ToSet(claim.modes), m \in {"ReadOnlyMany", "ReadWriteMany"} PROVE FALSE
    BY DEF MultiAttachAllowed
<1>1. Supported(VolumeCapability(m))
    BY DEF CreateVolumeAccepts, validateVolumeCapabilities
<1> QED
    BY <1>1 DEF Supported, VolumeCapability, asCSIAccessMode, volumeCapabilityAccessModes

\* The invariant is inductive.
LEMMA AcceptedStep ==
    ASSUME TypeOK, AcceptedInv, [Next]_vars
    PROVE  AcceptedInv'
<1>1. UNCHANGED claim => (CreateVolumeAccepts => CreateVolumeAccepts')
    BY DEF CreateVolumeAccepts, validateVolumeCapabilities, VolumeCapability, Supported
<1>2. CASE CreateVolume \/ CreateStatic
    BY <1>1, <1>2 DEF CreateVolume, CreateStatic, AcceptedInv
<1>3. ASSUME NEW n \in Nodes, ControllerPublishVolume(n) PROVE AcceptedInv'
    BY <1>1, <1>3, AcceptedIsExclusive DEF ControllerPublishVolume, Existing, AcceptedInv, TypeOK
<1>4. ASSUME NEW n \in Nodes, ControllerUnpublishVolume(n) PROVE AcceptedInv'
    BY <1>1, <1>4 DEF ControllerUnpublishVolume, AcceptedInv
<1>5. ASSUME NEW n \in Nodes, NodePublishVolume(n) \/ NodeUnpublishVolume(n) PROVE AcceptedInv'
    BY <1>1, <1>5 DEF NodePublishVolume, NodeUnpublishVolume, AcceptedInv
<1>6. CASE UNCHANGED vars
    BY <1>1, <1>6 DEF vars, AcceptedInv
<1> QED
    BY <1>2, <1>3, <1>4, <1>5, <1>6 DEF Next

\* Every volume is what CreateVolume, or an administrator, made of its claim.
LEMMA AcceptedAlways == Spec => []AcceptedInv
<1>1. Init => AcceptedInv
    BY DEF Init, AcceptedInv
<1>2. TypeOK /\ AcceptedInv /\ [Next]_vars => AcceptedInv'
    BY AcceptedStep
<1> QED
    BY <1>1, <1>2, TypeCorrect, PTL DEF Spec

\* A provisioned volume is attached to one node at a time, although the driver
\* accepts every ControllerPublishVolume (controllerserver.go), since CreateVolume
\* has validated each of the claim's access modes.
THEOREM AlwaysOneNode == Spec => []OneNode
<1>1. AcceptedInv => OneNode
    BY FS_EmptySet, FS_Singleton DEF AcceptedInv, OneNode
<1> QED
    BY <1>1, AcceptedAlways, PTL

\* What CreateVolume accepted NodePublishVolume accepts, as long as the CSIDriver
\* object has podInfoOnMount: the kubelet asks for one of the validated capabilities.
THEOREM CreatedAlwaysPublishable ==
    ASSUME PodInfoOnMount
    PROVE  Spec => []CreatedIsPublishable
<1>1. Init => CreatedIsPublishable
    BY DEF Init, CreatedIsPublishable
<1>2. TypeOK /\ AcceptedInv /\ CreatedIsPublishable /\ [Next]_vars => CreatedIsPublishable'
    <2> SUFFICES ASSUME TypeOK, AcceptedInv, CreatedIsPublishable, [Next]_vars
                 PROVE  CreatedIsPublishable'
        OBVIOUS
    <2>1. CASE CreateVolume \/ CreateStatic
        BY <2>1 DEF CreateVolume, CreateStatic, CreatedIsPublishable, AcceptedInv, TypeOK
    <2>2. ASSUME NEW n \in Nodes, ControllerPublishVolume(n) \/ ControllerUnpublishVolume(n)
          PROVE  CreatedIsPublishable'
        BY <2>2 DEF ControllerPublishVolume, ControllerUnpublishVolume, CreatedIsPublishable
    <2>3. ASSUME NEW n \in Nodes, NodePublishVolume(n) PROVE CreatedIsPublishable'
        <3> SUFFICES ASSUME volume = "provisioned" PROVE refused' = {}
            BY <2>3 DEF NodePublishVolume, CreatedIsPublishable
        <3>1. Supported(PublishCapability)
            BY ModesAreListed
               DEF TypeOK, AcceptedInv, CreateVolumeAccepts, validateVolumeCapabilities,
                   PublishCapability
        <3>2. validateVolumeCapabilities({PublishCapability}) /\ validateVolumeContext(VolumeContext)
            BY <3>1, PodInfoAssumption
               DEF validateVolumeCapabilities, validateVolumeContext, VolumeContext
        <3> QED
            BY <2>3, <3>2 DEF NodePublishVolume, CreatedIsPublishable
    <2>4. ASSUME NEW n \in Nodes, NodeUnpublishVolume(n) PROVE CreatedIsPublishable'
        BY <2>4 DEF NodeUnpublishVolume, CreatedIsPublishable
    <2>5. CASE UNCHANGED vars
        BY <2>5 DEF vars, CreatedIsPublishable
    <2> QED
        BY <2>1, <2>2, <2>3, <2>4, <2>5 DEF Next
<1> QED
    BY <1>1, <1>2, TypeCorrect, AcceptedAlways, PTL DEF Spec
=============================================================================
