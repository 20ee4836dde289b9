SPECIFICATION FairSpec
CONSTANTS
    Pod = pod
    MaxClock = 3
    MaxRestarts = 2
    Times <- MCTimes
INVARIANTS
    TypeOK
    OneJobPerPod
    DebuggingStatusIsTrue
    JobIsNotDisowned
PROPERTIES
    RestartedPodOnlyTurnsStale
    EndedListenerIsReported
    FailedPodTurnsStale
    ImplementsContract
