--------------------------- MODULE MCVolumeSetup ---------------------------
(***************************************************************************)
(* Instances of VolumeSetup for TLC.                                       *)
(***************************************************************************)
EXTENDS VolumeSetup, TLC

CONSTANTS root, data, old, new, g1, none, own

\* A root with a directory and a file in it; pods make a file in the directory, and
\* may remove the one in the root and make it anew.
AllFiles == {root, data, old, new}

ParentOf == data :> root @@ old :> root @@ new :> data

AboveOf == root :> {} @@ data :> {root} @@ old :> {root} @@ new :> {root, data}

Plain == [policy |-> "File", fsType |-> "ext4", modes |-> {"ReadWriteOnce"}]

\* Each way of deciding about the group.
Kinds ==
    { Plain,
      [Plain EXCEPT !.policy = "None"],
      [Plain EXCEPT !.policy = "ReadWriteOnceWithFSType", !.modes = {"ReadWriteOncePod", "ReadWriteOnce"}],
      [Plain EXCEPT !.policy = "ReadWriteOnceWithFSType", !.fsType = "", !.modes = {"ReadWriteMany"}] }

AnyDriver == SUBSET NodeCapabilities
=============================================================================
