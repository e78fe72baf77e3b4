SPECIFICATION FairSpec
CONSTANTS
    first = first
    second = second
    w1 = w1
    w2 = w2
    o1 = o1
    o2 = o2
    Tasks = {first, second}
    DependsOn <- SecondDependsOnFirst
    HumanReview = {second}
    HasDeadline = {second}
    Configured = {first, second}
    Occurring = {"RUNNING", "WAITING_APPROVAL", "OTHER", "COMPLETED", "CANCELLED"}
    Workers = {w1}
    Operators = {o1}
    MaxFollowUps = 1
    MaxDispatches = 1
    MaxOps = 0
    MaxCrashes = 1
INVARIANTS
    DependenciesHonoured
    CompletionIsEarned
PROPERTIES
    DependentsAreReleased
    TasksMoveOn
CHECK_DEADLOCK FALSE
