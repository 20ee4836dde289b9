SPECIFICATION FairSpec
CONSTANTS
    p1 = p1
    NoPod = NoPod
    Pods = {p1}
    Times = {4}
    MaxClock = 3
    MaxTime = 5
    MaxFaults = 1
    Behind = 1
    Ahead = 0
    Confs <- EditedConfs
INVARIANTS
    NotifiedAtMostTwice
    LostOnlyIfExcused
    MetricsFollowTheList
PROPERTIES
    ListedJobSurvives
    FinishedPodIsDeleted
    IdlePodIsRecreated
CHECK_DEADLOCK FALSE
