SPECIFICATION FairSpec
CONSTANTS
    None = None
    Terminals = {t1}
    Names = {n1}
    Commands = {c1}
    Purposes = {p1}
    Agents = {a1, a2}
    Users = {u1, u2}
    Ids = {i1}
    GrantIds = {g1}
    MaxPendingRequests = 1
    MaxGrants = 1
    MaxPendingShares = 0
    MaxShares = 0
    MaxExecutions = 0
    ChannelCapacity = 1
INVARIANTS TypeOK RootOnce
PROPERTIES RequestLifecycle DeadTerminalEnds
