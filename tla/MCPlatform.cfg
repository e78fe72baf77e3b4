SPECIFICATION MCSpec
CONSTANTS
    home = home
    other = other
    u1 = u1
    k1 = k1
    f1 = f1
    f2 = f2
    small = small
    large = large
    tokA = tokA
    tokB = tokB
    Tenants = {home, other}
    DefaultTenant = home
    NoTenant = NoTenant
    Missions = {m1}
    Templates = {p1}
    Subjects = {u1}
    Keys = {k1}
    Home <- MCHome
    Managers = {u1}
    Exporters = {x1, x2}
    Limit = 1
    Page = 1
    MaxAudit = 3
    MaxStarts = 1
    MaxPolls = 3
    Outcomes = {o1}
    Syncs = {y1, y2}
    Hands = {h1}
    NoOne = NoOne
    MaxEvals = 2
    MaxLapses = 1
    Plans = {small, large}
    Features = {f1, f2}
    PlanFeatures <- MCPlanFeatures
    PlanCap <- MCPlanCap
    Tokens = {tokA, tokB}
    TokenFeatures <- MCTokenFeatures
    TokenCap <- MCTokenCap
    Configured = tokA
    Writes = {q1, q2}
    MaxBatch = 2
    Deployments = {d1, d2}
    Own = d1
    Registrars = {g1, g2}
    Digests = {z1}
    NoDigest = NoDigest
    Steps = {e1, e2}
    Advances = {a1, a2, a3}
    MaxChanges = 2
INVARIANTS
    TenantsAreIsolated
    NothingIsSkipped
    MeterErrsByEncounters
    EntitlementsHold
    ReadyMeansEveryStep
PROPERTIES
    EntriesYieldToOldEstimates
    KpiCatchesUp
CHECK_DEADLOCK FALSE
