SPECIFICATION Spec
CONSTANTS
    snap = snap
    claim = claim
    again = again
    temp = temp
    kept = kept
    root = root
    swap = swap
    dir = dir
    None = None
    Unmountable = {swap}
    Serials = {snap, claim}
    Disks = {temp, kept}
    DiskOf <- TwoDisks
    PathOf <- OneName
    Layout <- LVMAndPlain
    Volumes <- RootAndSwap
    HasSource <- SourceInBoth
    Temporary = {temp}
    Manual = {claim}
    Faults = {"lvm", "write", "mkdir", "mount", "copy", "umount", "abandon", "reboot"}
    MaxFaults = 1
    MaxRuns = 3
CHECK_DEADLOCK FALSE
INVARIANTS
    HelperTypeOK
    NothingLeftSilently
    CloneIsRecorded
    ReportedIsCopied
    FreshRestoreSucceeds
