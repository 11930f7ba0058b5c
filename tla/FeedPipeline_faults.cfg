CONSTANTS
    u = u
    v = v
    f = f
    w1 = w1
    w2 = w2
    r1 = r1
    h1 = h1
    h2 = h2
    Users = {u, v, f}
    Pairs <- MCTwoFollowers
    Authors = {f}
    Handlers = {h1}
    Workers = {w1}
    Readers = {}
    Master = m
    Replicas = {}
    subs = subs
    feed = feed
    Invalidations = TRUE
    MaxWrites = 2
    NoEvent = NoEvent
    Procs <- MCProcs
    Caches <- MCCaches
    Ids = {u, v, f}
    Values <- MCValues
    Tries = 1
    MaxFaults = 1
    NoProc = NoProc
    NoKey = NoKey
    NoValue = {none}
SPECIFICATION FairSpec
INVARIANTS
    StaleIsExplained
PROPERTIES
    EventuallyFresh
CHECK_DEADLOCK FALSE
