CONSTANTS
    p1 = p1
    p2 = p2
    Replicas = {p1, p2}
    Limit = 2
    Window = 2
    FailOpen = {p2}
    MaxTime = 4
    MaxRequests = 3
SPECIFICATION Spec
INVARIANTS
    GrantedWithinBound
    WindowKept
PROPERTIES
    DenialsEarned
    SharedWindow
    OwnWindows
CHECK_DEADLOCK FALSE
