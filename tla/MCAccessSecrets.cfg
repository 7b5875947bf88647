SPECIFICATION Spec
CONSTANTS
    None = None
    Terminals = {t1}
    Names = {n1, n2}
    Commands = {}
    Purposes = {p1}
    Agents = {a1, a2}
    Users = {u1}
    Ids = {i1, i2}
    GrantIds = {g1, g2}
    MaxPendingRequests = 1
    MaxGrants = 1
    MaxPendingShares = 1
    MaxShares = 1
    MaxExecutions = 1
    ChannelCapacity = 1
SYMMETRY Symmetry
INVARIANTS GrantsAnswer StreamsServed AbandonedCommandCanceled OffersSound RevealedOnce CapsHold
