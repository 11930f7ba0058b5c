CONSTANTS
    m1 = m1
    m2 = m2
    Messages = {m1, m2}
    MaxCrashes = 3
SPECIFICATION TntFairSpec
INVARIANTS
    MigratedOnceStarted
CHECK_DEADLOCK FALSE
