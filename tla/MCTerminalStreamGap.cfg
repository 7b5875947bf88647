SPECIFICATION Spec
CONSTANTS
    Clients = {c1}
    MaxBytes = 1
    MaxResizes = 1
    RingBytes = 1
    EventCapacity = 1
    WireCapacity = 2
    WriteCapacity = 2
    SizeSyncTogether = FALSE
INVARIANT MissedResizeForcesSnapshot
