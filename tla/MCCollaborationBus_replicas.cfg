SPECIFICATION Spec
CONSTANTS
    first = first
    second = second
    w1 = w1
    w2 = w2
    o1 = o1
    o2 = o2
    Tasks = {first}
    DependsOn <- NoDependencies
    HumanReview = {first}
    HasDeadline = {}
    Configured = {first}
    Occurring = {"RUNNING", "STOPPING", "COMPLETED", "FAILED"}
    Workers = {w1, w2}
    Operators = {o1}
    MaxFollowUps = 1
    MaxDispatches = 2
    MaxOps = 1
    MaxCrashes = 0
SYMMETRY Symmetric
PROPERTIES
    ReopenedOnlyByOperatorOrStaleCopy
    SecondRunOnlyFromStaleCopy
CHECK_DEADLOCK FALSE
