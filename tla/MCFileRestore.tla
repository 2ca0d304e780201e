--------------------------- MODULE MCFileRestore ---------------------------
(***************************************************************************)
(* Small instances of FileRestore for TLC: constants for the .cfg files.   *)
(***************************************************************************)
EXTENDS FileRestore, TLC

CONSTANTS a, b, c, d, disk

\* a is an automatic restore of a snapshot, b a manual one of a claim.
Two == {a, b}
KindSnapshotPVC == (a :> "snapshot") @@ (b :> "pvc")
KindBothPVC == (a :> "pvc") @@ (b :> "pvc")
Four == {a, b, c, d}
KindFour == (a :> "snapshot") @@ (b :> "pvc") @@ (c :> "crossNamespacePVC") @@ (d :> "unusable")
FourPaths == (a :> "path-a") @@ (b :> "path-b") @@ (c :> "path-c") @@ (d :> "path-d")
One == {a}
KindSnapshot == a :> "snapshot"
OnePath == a :> "path-a"
DistinctPaths == (a :> "path-a") @@ (b :> "path-b")
SamePath == [r \in Two |-> "path"]
=============================================================================
