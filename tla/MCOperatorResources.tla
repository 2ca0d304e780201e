------------------------ MODULE MCOperatorResources ------------------------
(***************************************************************************)
(* Small instances of OperatorResources for TLC: two pods of a new release *)
(* beside one of the release before it, as in a rolling upgrade.           *)
(***************************************************************************)
EXTENDS OperatorResources, TLC

CONSTANTS p, q, r

Upgrade == (p :> "newer") @@ (q :> "newer") @@ (r :> "new")
=============================================================================
