SPECIFICATION Spec
CONSTANTS
    c1 = c1
    c2 = c2
    Messages = {1, 2, 3, 4}
    Hooks = {2, 3, 4}
    Runs = {3, 4}
    Keys = {2, 3, 4, 5}
    Stored <- KeptOf
    MessageOf <- MessagesOf
    Sessions = {c1, c2}
    Batch = 1
    ScanLimit = 5
    MaxMoves = 4
    Scenarios <- AllScenarios
INVARIANTS
    WorkIsStartedOnce
    SubscriptionEndsWithTheTask
    StreamMissesOnlyInFlight
CHECK_DEADLOCK FALSE
