CONSTANTS
    u1 = u1
    u2 = u2
    v1 = v1
    v2 = v2
    w1 = w1
    w2 = w2
    Users = {u1, u2}
    Verifiers = {v1, v2}
    Socials = {w1, w2}
    NoRow = NoRow
    NoVerdict = NoVerdict
    MaxFaults = 0
    MaxStops = 1
SPECIFICATION Spec
PROPERTIES
    ReceivedByAnInstance
CHECK_DEADLOCK FALSE
