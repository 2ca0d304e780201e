SPECIFICATION Spec
CONSTANTS
    a = a
    b = b
    c = c
    d = d
    disk = disk
    None = None
    Restores <- Two
    UserVolumes = {disk}
    Kind <- KindSnapshotPVC
    Automatic = {a}
    PathOf <- DistinctPaths
    Lagging = {"vm"}
    Faults = {"vmapi", "vmdelete"}
    MaxFaults = 1
    MaxCreates = 2
    MaxAttachmentWait = 1
    MaxSSHWait = 1
CHECK_DEADLOCK FALSE
INVARIANTS
    OneRestorePerVM
