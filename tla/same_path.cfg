SPECIFICATION Spec
CONSTANTS
    a = a
    b = b
    c = c
    d = d
    disk = disk
    None = None
    Restores <- Two
    UserVolumes = {disk}
    Kind <- KindBothPVC
    Automatic = {}
    PathOf <- SamePath
    Lagging = {}
    Faults = {}
    MaxFaults = 0
    MaxCreates = 2
    MaxAttachmentWait = 1
    MaxSSHWait = 1
CHECK_DEADLOCK FALSE
INVARIANTS
    VolumeReadyIsMounted
