SPECIFICATION FairSpec
CONSTANTS
    p = p
    q = q
    r = r
    None = None
    Failure = Failure
    Previous = Previous
    Broken = Broken
    Pods = {p, q, r}
    Version <- Upgrade
    OldVersion = "old"
    MaxAttempts = 2
    MaxFaults = 1
CHECK_DEADLOCK FALSE
INVARIANTS
    ResourcesTypeOK
    KeysMatch
    ReadyIsComplete
PROPERTIES
    ResourcesConverge
