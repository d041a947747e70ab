--------------------------- MODULE MCStartSignal ---------------------------
(***************************************************************************)
(* Instances of StartSignal for TLC.                                       *)
(***************************************************************************)
EXTENDS StartSignal, TLC

CONSTANTS n1, v1, v2

\* All pods of the name run on one node.
Staying == [u \in Uids |-> n1]
=============================================================================
