CONSTANTS
    r1 = r1
    r2 = r2
    r3 = r3
    c1 = c1
    Runs = {r1, r2, r3}
    Tenants = {"t", "u"}
    Modes = {"vulnerable", "hardened"}
    Budget = 1
    MaxRequested = 2
    Posts = {r1, r2, r3}
    Clears = {c1}
    Batches <- SmallBatches
    MaxStored = 3
    LabRuns = {r1, r2}
    Units <- UnitChoices
    CacheTenants <- TenantIds
SPECIFICATION AccountsSpec
SYMMETRY Symmetry
INVARIANTS
    StoredBatchesOverlap
    LoneRunCountsItself
    WebhookTypeOK
    SolePostKeepsCap
    BatchAccounting
    MetricsTypeOK
    Accounted
    GaugesOfLastRun
