CONSTANTS
    Ids = {i1}
    Backends = {b1, b2}
    Stores = {s1, s2}
    Faults = {"leave", "refuse", "drop", "sqlite", "sink", "switch"}
    MaxChunks = 2
    MaxRestarts = 1
    NoRow = NoRow
    NoBackend = NoBackend
SPECIFICATION FairSpec
CHECK_DEADLOCK FALSE
INVARIANT CompletedIsWhole
INVARIANT DashboardFollowsClient
INVARIANT SessionDisposed
INVARIANT ErrorStandsAlone
INVARIANT RowNamesBackend
PROPERTY DeletedStaysDeleted
PROPERTY LeavingEnds
PROPERTY Settles
