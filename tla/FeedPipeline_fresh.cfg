CONSTANTS
    u = u
    v = v
    f = f
    w1 = w1
    w2 = w2
    r1 = r1
    h1 = h1
    h2 = h2
    Users = {u, f}
    Pairs <- MCPairs
    Authors = {f}
    Handlers = {h1, h2}
    Workers = {w1, w2}
    Readers = {r1}
    Master = m
    Replicas = {replica}
    subs = subs
    feed = feed
    Invalidations = FALSE
    MaxWrites = 2
    NoEvent = NoEvent
    Procs <- MCProcs
    Caches <- MCCaches
    Ids = {u, f}
    Values <- MCValues
    Tries = 1
    MaxFaults = 0
    NoProc = NoProc
    NoKey = NoKey
    NoValue = {none}
SPECIFICATION Spec
INVARIANTS
    TypeOK
    QuiescentFresh
    StaleIsExplained
    PushedIsCurrent
SYMMETRY Symmetry
