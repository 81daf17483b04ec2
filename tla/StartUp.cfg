CONSTANTS
    r1 = r1
    r2 = r2
    Replicas = {r1, r2}
    Environments <- MCEnvironments
    HeadRevision = 2
    MaxOutages = 1
    MaxCrashes = 1
SPECIFICATION Spec
INVARIANTS
    ServesHardened
    ReadyIsNotRefused
PROPERTIES
    AllComeToServe
    OutageIsSeen
CHECK_DEADLOCK FALSE
