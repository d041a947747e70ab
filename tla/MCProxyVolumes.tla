--------------------------- MODULE MCProxyVolumes ---------------------------
(***************************************************************************)
(* Instance of ProxyVolumes for TLC: every list of access modes.           *)
(***************************************************************************)
EXTENDS ProxyVolumes, TLC

NodeSymmetry == Permutations(Nodes)
=============================================================================
