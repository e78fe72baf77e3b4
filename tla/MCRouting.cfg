SPECIFICATION RoutingSpec
CONSTANTS
    a1 = a1
    a2 = a2
    r1 = r1
    r2 = r2
    t1 = t1
    t2 = t2
    s1 = s1
    s2 = s2
    q1 = q1
    q2 = q2
    None = None
    Agents = {a1, a2}
    Patches = {q1, q2}
    Capacity <- OneEach
    HeartbeatRequired = {a1}
    MaxBeats = 1
    Tasks = {t1, t2}
    Sessions = {s1, s2}
    Runtimes = {r1, r2}
    RuntimeOf <- TwoRuntimes
    Configured = {r1, r2}
    Slots <- TwoSlots
    Suitable <- OneForBoth
    Overflow = {}
    Scenarios <- AllScenarios
    MaxRouteAttempts = 2
    MaxFailovers = 1
    MaxMoves = 1
INVARIANTS
    FailoverGoesElsewhere
    RegistryIsConsistent
PROPERTIES
    BatchFitsCapacity
CHECK_DEADLOCK FALSE
