CONSTANTS
    r1 = r1
    r2 = r2
    Runs = {r1, r2}
    Tenants <- TenantIds
    Strip <- StripTable
SPECIFICATION FairSpec
INVARIANTS
    SessionsEndAsFallback
    HardenedReadsOwnTenant
PROPERTIES
    OnlyTamperedStay
