--------------------------- MODULE MCGuestHelper ---------------------------
(***************************************************************************)
(* Small instances of GuestHelper for TLC: constants for the .cfg files.   *)
(***************************************************************************)
EXTENDS GuestHelper, TLC

CONSTANTS snap, claim, again, temp, kept, root, swap, dir

\* An automatic restore of a snapshot with a root and a swap volume, and a manual
\* restore of a claim with a file system; snapshot and claim have one name.
TwoDisks == (snap :> temp) @@ (claim :> kept)
OneName == (snap :> dir) @@ (claim :> dir)
LVMAndPlain == (temp :> "lvm") @@ (kept :> "plain")
RootAndSwap == (temp :> {root, swap}) @@ (kept :> {})
SourceInBoth == {<<temp, root>>, <<kept, None>>}

\* The same with a file system on each disk.
BothPlain == (temp :> "plain") @@ (kept :> "plain")
NoVolumes == (temp :> {}) @@ (kept :> {})
SourceOnDisks == {<<temp, None>>, <<kept, None>>}

\* Two restores of one claim with one logical volume.
SameDisk == (claim :> kept) @@ (again :> kept)
SamePath == (claim :> dir) @@ (again :> dir)
LVMClaim == kept :> "lvm"
OneVolume == kept :> {root}
SourceInRoot == {<<kept, root>>}
=============================================================================
