SPECIFICATION FairSpec
CONSTANTS
    d1 = d1
    d2 = d2
    w1 = w1
    w2 = w2
    Frontend = frontend
    Dispatches = {d1}
    Workers = {w1}
    PlatformOf <- OneHermes
    Vocabulary <- ManyWords
    LockTTL = 1
    PollTimeout = 2
    MaxOps = 1
    MaxCrashes = 1
INVARIANTS
    StrandedOnlyByLoss
PROPERTIES
    EndIsSeen
    KeepsThePromise
CHECK_DEADLOCK FALSE
