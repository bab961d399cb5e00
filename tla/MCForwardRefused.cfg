CONSTANTS
    Ids = {i1}
    Backends = {b1}
    Stores = {s1}
    Faults = {"refuse"}
    MaxChunks = 1
    MaxRestarts = 0
    NoRow = NoRow
    NoBackend = NoBackend
SPECIFICATION Spec
CHECK_DEADLOCK FALSE
INVARIANT EveryEndRecorded
