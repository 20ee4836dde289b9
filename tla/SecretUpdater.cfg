SPECIFICATION FairSpec
CONSTANTS
    ShortWait = 1
    RetryWait = 1
    Margin = 5
    Lifetime = 12
    MaxClock = 22
    MaxFaults = 5
INVARIANTS
    TokenStaysValid
PROPERTY
    EmptySecretIsIssued
CHECK_DEADLOCK FALSE
