SPECIFICATION FairSpec
CONSTANTS
    Clients = {c1}
    MaxBytes = 2
    MaxResizes = 1
    RingBytes = 1
    EventCapacity = 1
    WireCapacity = 1
    WriteCapacity = 2
    SizeSyncTogether = TRUE
INVARIANTS TypeOK PaneIsTrue CheckpointExact FramesAccepted
PROPERTIES Follows
