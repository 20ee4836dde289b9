SPECIFICATION FairSpec
CONSTANTS
    p1 = p1
    c1 = c1
    c2 = c2
    Pods = {p1}
    Clicks = {c1, c2}
    ExtendDuration = 3
    ExtendHours = 2
    LimitHours = 6
    ZeroTime <- MCZeroTime
    MaxClock = 5
    MaxFaults = 2
INVARIANTS
    TypeOK
    LifetimeIsCapped
PROPERTIES
    EarlyDeletionIsARace
    
    
    GivenUpPodIsDeleted
CHECK_DEADLOCK FALSE
