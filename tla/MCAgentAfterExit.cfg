SPECIFICATION Spec
CONSTANTS
    Kinds = {claude}
    Steady = {}
    Agy = agy
    Nobody = Nobody
    MaxRevision = 2
    MaxPid = 1
    MaxSequence = 0
INVARIANTS ClosedWithShell
CHECK_DEADLOCK FALSE
