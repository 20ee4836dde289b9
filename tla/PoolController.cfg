SPECIFICATION FairCtlSpec
CONSTANTS
    ShortWait = 1
    RetryWait = 1
    Margin = 1
    Lifetime = 2
    MaxClock = 2
    MaxFaults = 1
    MaxEdits = 3
INVARIANTS
    TypeOK
    ProcessesServeThePool
PROPERTIES
    ImplementsContract
    SpecReachesEverything
    DeletedPoolGoes
    PoolGetsItsSecret
CHECK_DEADLOCK FALSE
