SPECIFICATION FairSpec
CONSTANTS
    a = a
    b = b
    c = c
    d = d
    disk = disk
    None = None
    Restores <- One
    UserVolumes = {disk}
    Kind <- KindSnapshot
    Automatic = {a}
    PathOf <- OnePath
    Lagging = {"vmfr", "vmi"}
    Faults = {"api", "crash", "copy", "timeout", "vmstop", "useredit"}
    MaxFaults = 1
    MaxCreates = 2
    MaxAttachmentWait = 1
    MaxSSHWait = 1
CHECK_DEADLOCK FALSE
INVARIANTS
    NoOrphans
    SucceededIsRestored
    MountPathKnown
PROPERTIES
    DeletionCompletes
    RestoreSettles
