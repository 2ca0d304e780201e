SPECIFICATION Spec
CONSTANTS
    MaxAttachmentWait = 7
    MaxSSHWait = 3
    MaxDial = 11
    MaxBusy = 1
    MaxLag = 1
    MaxEdits = 1
    MaxFaults = 1
INVARIANTS
    WaitTypeOK
    CounterIsPaced
    StaleChecksAreFew
    WaitIsBounded
