------------------------- MODULE ExclusiveAttachment -------------------------
(***************************************************************************)
(* What the controller-server promises of a volume that may be attached to *)
(* one node only: Kubernetes grants it to a node at a time, and a node     *)
(* takes it while it is granted to it and no other node holds it still.  A *)
(* node may hold it longer than it is granted, and loses it when the       *)
(* attachment ends, or passes to a proxy attachment that is gone.  There   *)
(* are no caches here, no syncs that take their time and no calls that     *)
(* fail.                                                                   *)
(***************************************************************************)
CONSTANTS Nodes

VARIABLES
    granted,    \* the nodes the proxy volume is attached to
    holders     \* the nodes the backend volume is attached to for their proxy attachment

evars == <<granted, holders>>

Init == granted = {} /\ holders = {}

Grant(n) ==
    /\ granted = {}
    /\ granted' = {n}
    /\ UNCHANGED holders

Withdraw(n) ==
    /\ granted' = granted \ {n}
    /\ UNCHANGED holders

Take(n) ==
    /\ n \in granted
    /\ holders \subseteq {n}
    /\ holders' = {n}
    /\ UNCHANGED granted

Release(n) ==
    /\ holders' = holders \ {n}
    /\ UNCHANGED granted

Next == \E n \in Nodes : Grant(n) \/ Withdraw(n) \/ Take(n) \/ Release(n)

Spec == Init /\ [][Next]_evars
=============================================================================
