CONSTANTS
    q1 = q1
    q2 = q2
    t1 = t1
    t2 = t2
    None = None
    Requests = {q1}
    Tenants = {t1, t2}
    Inputs <- EveryInput
    Deployments <- AllDeployments
    MaxChanges = 1
SPECIFICATION Spec
INVARIANTS
    BodySelectsNoTenant
