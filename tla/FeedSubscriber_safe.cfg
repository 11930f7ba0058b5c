CONSTANTS
    u1 = u1
    s1 = s1
    s2 = s2
    s3 = s3
    c1 = c1
    c2 = c2
    c3 = c3
    Users = {u1}
    Sessions = {s1, s2}
    Consumers = {c1, c2, c3}
    Owner <- MCOwner
    MaxPublish = 2
    None = None
SPECIFICATION FairSpec
INVARIANTS
    TypeOK
    RegisteredOpen
    ConsumerIffSessions
    FedOrClosing
PROPERTIES
    InOrder
    SessionsEnd
    LoopsEnd
CHECK_DEADLOCK FALSE
