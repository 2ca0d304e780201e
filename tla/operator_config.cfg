SPECIFICATION FairSpec
CONSTANTS
    object = object
    old = old
    new = new
    None = None
    Unset = Unset
    Objects = {object}
    Pods = {old, new}
    VersionOf <- TwoVersions
    Profiles <- TwoProfiles
    MaxEvents = 2
CHECK_DEADLOCK FALSE
INVARIANTS
    StatusTypeOK
    ReportsAreReal
PROPERTIES
    ObservedNeverGoesBack
    PolicyNeverGoesBack
    StatusSettles
    PolicyFollowsSpec
