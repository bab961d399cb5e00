CONSTANTS
    Ids = {i1, i2}
    Backends = {b1}
    Stores = {s1}
    Faults = {"leave", "refuse", "drop"}
    MaxChunks = 2
    MaxRestarts = 1
    NoRow = NoRow
    NoBackend = NoBackend
SPECIFICATION Spec
CHECK_DEADLOCK FALSE
INVARIANT FeedInOrder
INVARIANT PendingHasReason
INVARIANT FeedAgreesWithLog
PROPERTY TerminalIsFinal
