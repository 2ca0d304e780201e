---------------------------- MODULE MCTLSWatcher ----------------------------
(***************************************************************************)
(* Small instances of TLSWatcher for TLC: constants for the .cfg file.     *)
(***************************************************************************)
EXTENDS TLSWatcher, TLC

CONSTANTS object, old, new

\* The old release has no OPERATOR_VERSION.
TwoVersions == (old :> Unset) @@ (new :> "v2")

\* A suite that Go has, one that it has not, and a version that nobody has.
Custom == [type |-> "Custom", custom |-> [ciphers |-> {"GCM", "DHE"}, min |-> "SSLv3"]]
Modern == [type |-> "Modern", custom |-> None]
TwoProfiles == {Custom, Modern}
=============================================================================
