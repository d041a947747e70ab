--------------------------- MODULE MCAttachDetach ---------------------------
(***************************************************************************)
(* Instances of AttachDetach for TLC.                                      *)
(***************************************************************************)
EXTENDS AttachDetach, TLC

CONSTANTS n1, n2, p1, p2

\* A pod on each node.
OneNodeEach == [p \in Pods |-> IF p = p1 THEN n1 ELSE n2]

\* A claim bound to its backend before the pods come.
AllKnown == Objects
=============================================================================
