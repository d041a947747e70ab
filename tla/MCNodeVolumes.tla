--------------------------- MODULE MCNodeVolumes ---------------------------
(***************************************************************************)
(* Instances of NodeVolumes for TLC.                                       *)
(***************************************************************************)
EXTENDS NodeVolumes, TLC

CONSTANTS x1, x2, v1, v2

\* All pods use one proxy volume.
OneVolume == [p \in Pods |-> v1]

PodSymmetry == Permutations({x1, x2})

\* The claims are bound and the volume is attached before the pods come.
AttachedInit ==
    /\ Init
    /\ known = [v \in Volumes |-> Objects]

AttachedSpec == AttachedInit /\ [][Next]_vars

\* Each pod has a volume of its own, and only one of the pods ever comes.
OwnVolume == x1 :> v1 @@ x2 :> v2

OnePod == \E p \in Pods : \A q \in Pods \ {p} : pod[q] = "absent" /\ known[VolumeOf[q]] = Objects
=============================================================================
