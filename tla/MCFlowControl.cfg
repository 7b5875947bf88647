SPECIFICATION FairSpec
CONSTANTS
    Clients = {c1, c2}
    High = 2
    Low = 2
    AckBatch = 2
    MaxChunk = 2
    MaxFeed = 3
    MaxAcks = 3
INVARIANTS TypeOK DebtSound
PROPERTIES WriteOffOnlyWedged ReaderResumes
