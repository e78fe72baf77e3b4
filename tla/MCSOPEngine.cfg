SPECIFICATION FairSpec
CONSTANTS
    first = first
    second = second
    third = third
    w1 = w1
    o1 = o1
    Nodes = {first, second, third}
    DependsOn <- Fork
    Level <- ForkLevel
    Approvals = {third}
    HasRollback = {first, third}
    Verified = {first}
    RollbackOnFailure = TRUE
    Workers = {w1}
    Operators = {o1}
    MaxRollbacks = 2
    MaxOps = 1
    MaxCrashes = 1
INVARIANTS
    GraphIsHonoured
    NoSecondTask
PROPERTIES
    CompensationGoesBackwards
    ReopenedOnlyByDecisionOrStaleCopy
    RunMovesOn
CHECK_DEADLOCK FALSE
