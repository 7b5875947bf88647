SPECIFICATION Spec
CONSTANTS
    None = None
    Terminals = {t1}
    Names = {}
    Commands = {c1}
    Purposes = {p1}
    Agents = {a1, a2}
    Users = {u1}
    Ids = {i1, i2}
    GrantIds = {}
    MaxPendingRequests = 1
    MaxGrants = 0
    MaxPendingShares = 0
    MaxShares = 0
    MaxExecutions = 0
    ChannelCapacity = 1
INVARIANT PendingRequestsBounded
