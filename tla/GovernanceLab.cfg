CONSTANTS
    r1 = r1
    r2 = r2
    t1 = t1
    t2 = t2
    Runs = {r1, r2}
    Tenants = {t1, t2}
    Modes = {"vulnerable", "hardened"}
    Like <- LikeLiteral
    None = None
SPECIFICATION FairSpec
INVARIANTS
    NothingHeldOutside
    DanglingIsTransient
    CleanWhenQuiescent
PROPERTIES
    LoneRunIsExact
    TenantIsolation
    EveryRunReturns
