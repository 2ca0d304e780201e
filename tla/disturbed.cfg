SPECIFICATION Spec
CONSTANTS
    a = a
    b = b
    c = c
    d = d
    disk = disk
    None = None
    Restores <- Four
    UserVolumes = {disk}
    Kind <- KindFour
    Automatic = {a}
    PathOf <- FourPaths
    Lagging = {}
    Faults = {"api", "copy", "lookup", "timeout", "useredit", "vmstop"}
    MaxFaults = 1
    MaxCreates = 2
    MaxAttachmentWait = 1
    MaxSSHWait = 1
CHECK_DEADLOCK FALSE
INVARIANTS
    FailedIsClean
