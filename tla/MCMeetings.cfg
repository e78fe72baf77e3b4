SPECIFICATION FairSpec
CONSTANTS
    p1 = p1
    p2 = p2
    q1 = q1
    q2 = q2
    q3 = q3
    Nobody = Nobody
    Processes = {p1, p2}
    Requests = {q1, q2}
    Plans <- SmallPlans
    Occurring = {"RUNNING", "OTHER", "COMPLETED", "FAILED"}
    MaxCopies = 2
    MaxFaults = 1
INVARIANTS
    OneSpeakerInOrder
PROPERTIES
    EndedStaysEnded
    DiscussionEnds
CHECK_DEADLOCK FALSE
