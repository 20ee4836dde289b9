SPECIFICATION FairSpec
CONSTANTS
    Own = {r1, r2}
    Others = {r3}
    PerPage = 1
    Replicas = 1
    MaxStops = 1
INVARIANTS
    TypeOK
    MissedOnlyIfShifted
PROPERTIES
    EndedPoolIsCollected
    RunnerlessPodGoes
CHECK_DEADLOCK FALSE
