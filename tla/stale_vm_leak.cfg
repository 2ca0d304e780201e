SPECIFICATION Spec
CONSTANTS
    a = a
    b = b
    c = c
    d = d
    disk = disk
    None = None
    Restores <- One
    UserVolumes = {disk}
    Kind <- KindSnapshot
    Automatic = {a}
    PathOf <- OnePath
    Lagging = {"vm"}
    Faults = {}
    MaxFaults = 0
    MaxCreates = 2
    MaxAttachmentWait = 1
    MaxSSHWait = 1
CHECK_DEADLOCK FALSE
INVARIANTS
    NoOrphans
