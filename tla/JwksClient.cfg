CONSTANTS
    t1 = t1
    t2 = t2
    k1 = k1
    k2 = k2
    NoKid = NoKid
    Threads = {t1, t2}
    Kids = {k1, k2}
    Ttl = 1
    MaxFetch = 1
    MaxTime = 4
    MaxRotations = 1
    MaxCalls = 3
SYMMETRY Symmetry
SPECIFICATION Spec
PROPERTIES
    AcceptedKeyAge
    UnknownKidAge
    OwnClientIsFresh
CHECK_DEADLOCK FALSE
