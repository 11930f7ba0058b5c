CONSTANTS
    p1 = p1
    p2 = p2
    feed = feed
    a = a
    b = b
    u1 = u1
    Procs <- MCProcs
    Caches <- MCCaches
    Ids <- MCIds
    Values <- MCValues
    Tries = 3
    MaxFaults = 2
    Master = m
    Replicas = {a, b}
    MaxVersion = 1
    NoProc = NoProc
    NoKey = NoKey
    NoValue = NoValue
SPECIFICATION FairSpec
INVARIANTS
    TypeOK
    OneLoadUnlessStolen
    LoadedIsRecent
PROPERTIES
    RefinesFreshCache
    CallsReturn
