SPECIFICATION MCSpec
CONSTANTS
    Views = {v1, v2}
    EmptyViews = {v2}
    Targets = {r1}
    Dirtiable = {r1}
    Calls = {c1}
    MaxViews = 1
    Clients = {a1, a2, a3}
    Allowed = 2
    Widest = 4
    Window = 2
    MaxTracked = 2
    Generations = {g0, g1}
    Current = g0
    PoolTerminals = {p1, p2}
    Names = {n1, n2}
    Tasks = {k1, k2}
    Nobody = Nobody
    MaxSteps = 2
    Terminals = {t1}
    Drained = {t1}
    Choices = {shared}
    Default = Default
    Shared = shared
    Agents = {a1}
    Threads = {k1, k2}
    Grace = 1
    Passwords = {w1, w2}
    Changes = {h1, h2}
    Logins = {l1}
    MaxSecrets = 3
    Nothing = Nothing
    Viewed = {p1, p2}
    NoTerminal = NoTerminal
    NoTarget = NoTarget
    Browsers = {b1, b2}
    MaxCompletions = 2
    Labelled = {t1}
    Threshold = 6
    KeepRecent = 2
    MaxRounds = 2
    MaxCalls = 1
    Providers = {o1, o2}
    Pollers = {1, 2}
    Interval = 1
    MinRetry = 1
    MaxRetry = 2
    MaxTime = 4
    MaxRows = 1
    MaxLogins = 1
    ManagedTerminals = {1, 2}
    MaxRetained = 1
INVARIANTS
    ServerTypeOK
    PoolSound
    TabsSound
PROPERTIES
    DeadAreGone
    SettingsSound
    AuthSound
    ViewsSound
    ServicesSound
CHECK_DEADLOCK FALSE
