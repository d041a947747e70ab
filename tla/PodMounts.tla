----------------------------- MODULE PodMounts -----------------------------
(***************************************************************************)
(* What the node-server promises the kubelet, the wait sidecar and the     *)
(* backend driver: a volume is mounted for a pod only while its bind is    *)
(* recorded, so that it can be unmounted; it stays mounted until the pod   *)
(* is deleted and is unmounted before the pod goes; the pod is told of it  *)
(* while it is mounted.  There is no process here that could crash, no     *)
(* cache, no call that could fail, and nothing is done in two steps.       *)
(***************************************************************************)
CONSTANTS Pods, Volumes, VolumeOf

VARIABLES
    pod,        \* the pods as the API server has them
    recorded,   \* volumes whose bind is recorded
    mounted,    \* pods that have their volume
    annotated   \* pods that were told

mvars == <<pod, recorded, mounted, annotated>>

Init ==
    /\ pod = [p \in Pods |-> "absent"]
    /\ recorded = {}
    /\ mounted = {}
    /\ annotated = {}

PodMoves(p, from, to) ==
    /\ pod[p] = from
    /\ pod' = [pod EXCEPT ![p] = to]
    /\ UNCHANGED <<recorded, mounted, annotated>>

Arrive(p) == PodMoves(p, "absent", "wanted")

Leave(p) == PodMoves(p, "wanted", "leaving")

Go(p) == p \notin mounted /\ PodMoves(p, "leaving", "gone")

Record(v) ==
    /\ recorded' = recorded \cup {v}
    /\ UNCHANGED <<pod, mounted, annotated>>

\* Also for a pod that is leaving: it will be unmounted once more.
Mount(p) ==
    /\ pod[p] \in {"wanted", "leaving"}
    /\ VolumeOf[p] \in recorded
    /\ mounted' = mounted \cup {p}
    /\ UNCHANGED <<pod, recorded, annotated>>

Annotate(p) ==
    /\ pod[p] = "wanted"
    /\ p \in mounted
    /\ annotated' = annotated \cup {p}
    /\ UNCHANGED <<pod, recorded, mounted>>

Unmount(p) ==
    /\ pod[p] = "leaving"
    /\ mounted' = mounted \ {p}
    /\ UNCHANGED <<pod, recorded, annotated>>

Erase(v) ==
    /\ \A p \in mounted : VolumeOf[p] # v
    /\ recorded' = recorded \ {v}
    /\ UNCHANGED <<pod, mounted, annotated>>

Next ==
    \/ \E p \in Pods :
        Arrive(p) \/ Leave(p) \/ Go(p) \/ Mount(p) \/ Annotate(p) \/ Unmount(p)
    \/ \E v \in Volumes : Record(v) \/ Erase(v)

Spec == Init /\ [][Next]_mvars
=============================================================================
