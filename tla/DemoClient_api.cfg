CONSTANTS
    c1 = c1
    c2 = c2
    Demo = c1
    Other = c2
    Clients = {c1, c2}
    Ids = {1, 2, 3, 4}
    Targets = {1, 2, 3}
    Numbers = {0, 2, 3, 6, 14, 16}
    MaxFeedLength = 3
    MaxInt = 7
    MaxFaults = 1
    MaxOthers = 1
SPECIFICATION FairSpec
INVARIANTS
    TypeOK
    PageIsWindow
    FailureIsExplained
    BadIsRefused
    NothingLeft
PROPERTIES
    OnlyOwnChanges
    ScriptEnds
CHECK_DEADLOCK FALSE
