CONSTANTS
    Callers = {c1, c2}
    None = None
    Sizes = {1, 2}
    MaxInputBytes = 2
    QueueMessages = 2
    QueueBytes = 3
    ResponseMessages = 1
    ResponseBytes = 2
    MaxAccepted = 3
    Clients = {1, 2, 3}
    NoClient = NoClient
    Viewports <- MCViewports
    DefaultSize <- MCDefaultSize
    MaxPendingOsc = 5
    SignalTail = 2
    MaxChunk = 3
    MaxStream = 6
    Threads = {t1, t2}
    Idle = Idle
    Kinds = {claude, agy}
    Steady = {agy}
    Agy = agy
    Nobody = Nobody
    MaxRevision = 2
    MaxPid = 2
    MaxSequence = 1
    Sources = {s1}
    NoSource = none
    RecordKinds = {message, status}
    MaximumBytes = 2
    PageLimits = {1, 9}
    Readers = {r1}
    MaxWritten = 3
    RingLimit = 6
    ChunkOverhead = 1
    FrameBytes = 2
    MaxSafeSkip = 1
    Limits = {1, 3}
    MaxOutput = 5
    MaxCapturedPrompt = 2
    MaxEscape = 4
    Groups = {1, 2}
    Names = {make, vim}
    LongRunning = 2
    MaxSamples = 5
    MaxPids = 3
    MaxStarts = 2
    ChunkSize = 2
    Maximum = 3
    MaxSends = 3
    AgentCalls = {a1, a2}
    ControlTerminals = {q0, q1, q2}
    Home = q0
    MaxActivity = 2
    MaxControlSteps = 1
    Newborn = q2
    Beside = {a2}
    StackLimit = 2
    MaxAttributes = 2
    MaxReceived = 4
    MaxWidth = 3
    MaxRows = 3
    EngineVersion = 1
    MaxRules = 2
    MaxGateDepth = 1
    MaxTotalGates = 5
    MaxMatchersPerGate = 2
    MaxTotalMatchers = 5
    TailBytes = 5
    MaxLines = 4
    MaxShown = 3
    MaxTitles = 3
SPECIFICATION MCSpec
INVARIANTS
    SessionTypeOK
    InputSound
    ViewportsAgree
    OutputRead
    LockDiscipline
PROPERTIES
    InputInOrder
    ProcessesSound
    AgentSound
CHECK_DEADLOCK FALSE
