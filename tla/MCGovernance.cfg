SPECIFICATION Spec
CONSTANTS
    owner = owner
    executive = executive
    c1 = c1
    c2 = c2
    direct = direct
    handoffs = handoffs
    Clients = {c1, c2}
    Identities = {owner, executive}
    Permitted <- SeededRoles
    Paths = {direct, handoffs}
    ActionOf <- RouteRules
    Limit <- SmallBudgets
    Costs = {0, 1}
    Agents = {"short"}
    MaxApprovals = 1
    MaxRequests = 4
    MaxCrashes = 1
INVARIANTS
    OverrunOnlyByOverlap
    ChainHasNoFork
    SomebodyGoesOn
PROPERTIES
    FourEyes
    OneUse
SYMMETRY Symmetry
CHECK_DEADLOCK FALSE
