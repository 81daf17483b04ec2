CONSTANTS
    c1 = c1
    c2 = c2
    Checks = {c1, c2}
    Tenants <- MCTenants
    Keys <- MCKeys
    Prefixes <- MCPrefixes
    HealthTenant <- MCHealthTenant
    HealthKey <- MCHealthKey
    Backends = {"s3", "gcs"}
    JwksAnswers = {"keys", "other_algorithms"}
    MaxCalls = 1
    MaxMishaps = 1
SPECIFICATION ChecksSpec
INVARIANTS
    ChecksTypeOK
    ReportIsRight
    ProbesSwept
PROPERTIES
    TenantsApart
    ProbeKeyGoes
CHECK_DEADLOCK FALSE
