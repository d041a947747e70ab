---------------------------- MODULE ProxyVolumes ----------------------------
(***************************************************************************)
(* One proxy volume from CreateVolume to NodePublishVolume. The driver     *)
(* keeps nothing about a volume: CreateVolume validates one capability per *)
(* access mode of the claim, ControllerPublishVolume accepts every node,   *)
(* NodePublishVolume validates the one capability the kubelet picks. That  *)
(* the volume is on one node at a time, which AttachDetach takes from the  *)
(* attach/detach controller, rests on what CreateVolume refuses.           *)
(***************************************************************************)
EXTENDS FiniteSets, Sequences, SequencesExt

CONSTANTS
    Nodes,
    Modes,              \* the access modes claims are made of
    FilesystemTypes,
    None,               \* no capability
    PodInfoOnMount      \* of the CSIDriver object: the kubelet tells of the pod

AccessModes == {"ReadWriteOnce", "ReadOnlyMany", "ReadWriteMany", "ReadWriteOncePod"}
CSIModes ==
    {"SINGLE_NODE_WRITER", "SINGLE_NODE_READER_ONLY", "SINGLE_NODE_SINGLE_WRITER",
     "SINGLE_NODE_MULTI_WRITER", "MULTI_NODE_READER_ONLY", "MULTI_NODE_MULTI_WRITER"}
Capabilities == [mode : CSIModes, mount : BOOLEAN, fsType : FilesystemTypes]

ASSUME ModesAssumption == Modes \subseteq AccessModes /\ None \notin Capabilities
ASSUME PodInfoAssumption == PodInfoOnMount \in BOOLEAN

VARIABLES
    claim,      \* the claim, with what its storage class adds
    volume,     \* "none", "refused", or where the volume comes from
    attached,   \* nodes that ControllerPublishVolume was called for
    published,  \* the capability in the NodePublishVolume that succeeded, per node
    refused     \* nodes where NodePublishVolume was refused

vars == <<claim, volume, attached, published, refused>>

ModeLists == SetToAllKPermutations(Modes) \ {<<>>}

\* The API server accepts ReadWriteOncePod only as the sole access mode.
Claims ==
    [modes : {m \in ModeLists : Contains(m, "ReadWriteOncePod") => Len(m) = 1},
     mount : BOOLEAN, fsType : FilesystemTypes, parameters : BOOLEAN, mutable : BOOLEAN]

Existing == volume \in {"provisioned", "static"}

Init ==
    /\ claim \in Claims
    /\ volume = "none"
    /\ attached = {}
    /\ published = [n \in Nodes |-> None]
    /\ refused = {}

-----------------------------------------------------------------------------
(* What the sidecars and the kubelet ask for *)

\* The table for drivers without SINGLE_NODE_MULTI_WRITER, such as this one.
asCSIAccessMode(mode) ==
    CASE mode = "ReadOnlyMany" -> "MULTI_NODE_READER_ONLY"
      [] mode = "ReadWriteMany" -> "MULTI_NODE_MULTI_WRITER"
      [] OTHER -> "SINGLE_NODE_WRITER"

VolumeCapability(mode) ==
    [mode |-> asCSIAccessMode(mode), mount |-> claim.mount, fsType |-> claim.fsType]

\* The kubelet asks for the first access mode of the volume.
PublishCapability == VolumeCapability(Head(claim.modes))

\* The kubelet's part of the volume context. The CSIDriver object has the lifecycle
\* mode Persistent only, so the kubelet refuses inline volumes and "ephemeral" is false.
VolumeContext ==
    IF PodInfoOnMount
    THEN {"pod.name", "pod.namespace", "pod.uid", "serviceAccount.name", "ephemeral"}
    ELSE {}

\* The attach/detach controller: some access mode is for several nodes.
MultiAttachAllowed == \E m \in ToSet(claim.modes) : m \in {"ReadOnlyMany", "ReadWriteMany"}

-----------------------------------------------------------------------------
(* The driver's validation *)

volumeCapabilityAccessModes ==
    {"SINGLE_NODE_WRITER", "SINGLE_NODE_READER_ONLY",
     "SINGLE_NODE_SINGLE_WRITER", "SINGLE_NODE_MULTI_WRITER"}
supportedFilesystemTypes == {""}

Supported(capability) ==
    /\ capability.mode \in volumeCapabilityAccessModes
    /\ capability.mount
    /\ capability.fsType \in supportedFilesystemTypes

\* Faulty variant: a volume is accepted when one of its capabilities is.
ValidateSome(capabilities) == \E c \in capabilities : Supported(c)

validateVolumeCapabilities(capabilities) == \A c \in capabilities : Supported(c)

validateVolumeContext(context) ==
    {"pod.name", "pod.namespace", "pod.uid", "serviceAccount.name", "ephemeral"} \subseteq context

\* Faulty variant: capabilities are left to NodePublishVolume.
AcceptsParameters == ~claim.parameters /\ ~claim.mutable

CreateVolumeAccepts ==
    /\ validateVolumeCapabilities({VolumeCapability(m) : m \in ToSet(claim.modes)})
    /\ ~claim.parameters
    /\ ~claim.mutable

-----------------------------------------------------------------------------
(* Steps *)

\* The answer depends on the claim only, so a repeated call answers the same.
CreateVolume ==
    /\ volume = "none"
    /\ volume' = IF CreateVolumeAccepts THEN "provisioned" ELSE "refused"
    /\ UNCHANGED <<claim, attached, published, refused>>

\* An administrator creates the PersistentVolume without the driver.
CreateStatic ==
    /\ volume = "none"
    /\ volume' = "static"
    /\ UNCHANGED <<claim, attached, published, refused>>

ControllerPublishVolume(n) ==
    /\ Existing /\ n \notin attached
    /\ attached # {} => MultiAttachAllowed
    /\ attached' = attached \cup {n}
    /\ UNCHANGED <<claim, volume, published, refused>>

\* What SetUpTargetPath does and how it fails is in NodeVolumes.
NodePublishVolume(n) ==
    /\ n \in attached /\ published[n] = None
    /\ IF validateVolumeCapabilities({PublishCapability}) /\ validateVolumeContext(VolumeContext)
       THEN /\ published' = [published EXCEPT ![n] = PublishCapability]
            /\ refused' = refused \ {n}
       ELSE /\ refused' = refused \cup {n}
            /\ UNCHANGED published
    /\ UNCHANGED <<claim, volume, attached>>

NodeUnpublishVolume(n) ==
    /\ published[n] # None
    /\ published' = [published EXCEPT ![n] = None]
    /\ UNCHANGED <<claim, volume, attached, refused>>

\* The attach/detach controller detaches a node that no longer reports the volume in
\* use. (It gives up waiting after a timeout; AttachDetach has that.)
ControllerUnpublishVolume(n) ==
    /\ n \in attached /\ published[n] = None
    /\ attached' = attached \ {n}
    /\ refused' = refused \ {n}
    /\ UNCHANGED <<claim, volume, published>>

Next ==
    \/ CreateVolume
    \/ CreateStatic
    \/ \E n \in Nodes :
          \/ ControllerPublishVolume(n) \/ ControllerUnpublishVolume(n)
          \/ NodePublishVolume(n) \/ NodeUnpublishVolume(n)

Spec == Init /\ [][Next]_vars

-----------------------------------------------------------------------------
(* Properties *)

(* The types, and no node publishes a volume that is not attached to it    *)
(* (what the driver's no-op ControllerPublishVolume leaves to Kubernetes). *)
TypeOK ==
    /\ claim \in Claims
    /\ volume \in {"none", "refused", "provisioned", "static"}
    /\ attached \in SUBSET Nodes /\ refused \in SUBSET attached
    /\ published \in [Nodes -> Capabilities \cup {None}]
    /\ \A n \in Nodes : published[n] # None => n \in attached

(* A provisioned volume is attached to one node at a time, although the    *)
(* driver accepts every ControllerPublishVolume and the kubelet tells a    *)
(* node only the first access mode: CreateVolume has refused every claim   *)
(* one of whose modes lets the attach/detach controller add a node.        *)
OneNode == volume = "provisioned" => Cardinality(attached) <= 1

(* What CreateVolume accepted, NodePublishVolume accepts: no pod waits for *)
(* a volume that the driver has created and will never publish.            *)
CreatedIsPublishable == volume = "provisioned" => refused = {}

=============================================================================
