CONSTANTS
    b1 = b1
    b2 = b2
    k1 = k1
    s1 = s1
    s2 = s2
    Blank = Blank
    Absent = Absent
    NoRow = NoRow
    NoRequest = NoRequest
    Backends <- MCBackends
    ApiKeys <- MCApiKeys
    Stores <- MCStores
    Openable <- MCOpenable
    Bootstrap <- MCBootstrap
    SeedName = 1
    Handlers = {h1, h2}
    Names = {1, 2}
    Fold <- Distinct
    Requests <- BusyRequests
    MaxCrashes = 1
SPECIFICATION FairSpec
PROPERTY ComesUpAgain
