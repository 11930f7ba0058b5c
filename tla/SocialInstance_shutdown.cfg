CONSTANTS
    i1 = i1
    i2 = i2
    c1 = c1
    c2 = c2
    Instances = {i1, i2}
    Changes = {c1, c2}
    MaxStarts = 3
    MaxFaults = 1
    None = None
SPECIFICATION FairSpec
INVARIANTS
    TypeOK
    LossIsExplained
PROPERTIES
    StopEnds
    EventuallySettled
CHECK_DEADLOCK FALSE
