CONSTANTS
    Ids = {1, 2}
    RecentLimit = 2
    PageLimit = 2
    Past = {1}
    MaxInbox = 2
    MaxChunks = 1
    MaxCalls = 2
    FaultSets <- FaultChoices
    None = None
SPECIFICATION FairSpec
CHECK_DEADLOCK FALSE
INVARIANT TypeOK
INVARIANT ModalHasSelection
INVARIANT SpinnerHasCall
INVARIANT BusyMatchesCalls
INVARIANT ListedOnce
INVARIANT DetailIsOfSelection
INVARIANT SettledDetail
INVARIANT ListFollowsLog
PROPERTY HubIsWired
PROPERTY LoadingEnds
