SPECIFICATION Spec
CONSTANTS
    snap = snap
    claim = claim
    again = again
    temp = temp
    kept = kept
    root = root
    swap = swap
    dir = dir
    None = None
    Unmountable = {swap}
    Serials = {claim, again}
    Disks = {kept}
    DiskOf <- SameDisk
    PathOf <- SamePath
    Layout <- LVMClaim
    Volumes <- OneVolume
    HasSource <- SourceInRoot
    Temporary = {}
    Manual = {}
    Faults = {}
    MaxFaults = 0
    MaxRuns = 2
CHECK_DEADLOCK FALSE
INVARIANTS
    RestoreRepeats
