CONSTANTS
    m1 = m1
    m2 = m2
    l1 = l1
    i1 = i1
    i2 = i2
    u = u
    v = v
    w = w
    Messages = {m1, m2}
    Lists = {l1}
    Users = {u, v, w}
    Talk <- MCTalk
    Instances = {i1, i2}
    Fast = {i2}
    MaxCrashes = 1
    MaxFaults = 1
SPECIFICATION FairSpec
INVARIANTS
    TypeOK
    ReadyIffUndamaged
    ListIsComplete
    RepliesFollow
PROPERTIES
    RefinesDialog
    Answered
CHECK_DEADLOCK FALSE
