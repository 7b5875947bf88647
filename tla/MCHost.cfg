SPECIFICATION MCSpec
CONSTANTS
    Symbols = {"a", "b"}
    Patterns <- MCPatterns
    Marker = "*"
    MaxInput = 8
    MaxChunk = 2
    QueueSize = 2
    Channels = {main, beta}
    Commits = {m1, m2}
    Installers = {i1}
    Nobody = Nobody
    MaxFailures = 2
    MaxPublished = 2
    Cores <- MCCores
    Identifiers <- MCIdentifiers
    LongestPre = 1
    MaxMetadata = 2
    MaxArchive = 3
    MaxExtracted = 3
    MaxExcess = 1
    Profiles = 2
    MaxMeddling = 1
    MaxMishaps = 1
    MaxUpgrades = 1
    MaxLines = 5
    Servers = {s1, s2}
    Brokers = {b0, b1, b2}
    OldBroker = b0
    MaxStarts = 2
    MaxEvents = 2
    Panes = {1, 2, 3, 4}
    NoPane = 0
    MaxPanes = 3
    CachedTerminals = 2
    MaxChanges = 1
    MaxEdits = 1
    MaxWrites = 1
    MaxSaves = 1
    Uploads = {"u1", "u2"}
    Names = {"a"}
    NameAttempts = 2
    MaxFields = 2
    MaxChunks = 1
    MaxOthers = 1
    MaxVariant = 3
    SearchLimit = 1
    EntryBudget = 2
    MaxEntries = 3
    Artifacts = {1, 2}
    MaxListed = 1
    Recorders = {1, 2}
    MaxAudio = 1
    MaxConnections = 2
    MaxAudioSteps = 3
    WireCapacity = 1
    Sockets = {"s1"}
    MaxBytes = 5
    MaxUpload = 2
    MaxMessages = 3
    MaxControls = 3
INVARIANTS
    HostTypeOK
    OutputSound
    UpdatesSound
    PagesSound
PROPERTY
    CommandsBehave
CHECK_DEADLOCK FALSE
