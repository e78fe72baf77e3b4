SPECIFICATION Spec
CONSTANTS
    d1 = d1
    d2 = d2
    w1 = w1
    w2 = w2
    Frontend = frontend
    Dispatches = {d1, d2}
    Workers = {w1}
    PlatformOf <- TwoCherry
    Vocabulary <- OwnWords
    LockTTL = 1
    PollTimeout = 1
    MaxOps = 1
    MaxCrashes = 0
INVARIANTS
    NoMissionLeftExecuting
CHECK_DEADLOCK FALSE
