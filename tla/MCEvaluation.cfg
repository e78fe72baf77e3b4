SPECIFICATION FairSpec
CONSTANTS
    s1 = s1
    s2 = s2
    Tasks = {1, 2, 3}
    Automatic = {1}
    Replays = {3}
    Sessions = {s1, s2}
    Batch = 1
    ScanLimit = 2
    MaxResults = 3
    MaxMoves = 2
    Qualities <- SoundErrorOrLong
    Scenarios <- AllScenarios
INVARIANTS
    OneEvaluationPerResult
    QualityCountsEveryResult
PROPERTIES
    AcceptanceStands
    ResultsAreEvaluated
CHECK_DEADLOCK FALSE
