SPECIFICATION FairSpec
CONSTANTS
    p1 = p1
    p2 = p2
    NoPod = NoPod
    Pods = {p1, p2}
    Times = {}
    MaxClock = 1
    MaxTime = 2
    MaxFaults = 0
    Behind = 0
    Ahead = 0
    Confs <- AgedConfs
PROPERTIES
    OrphanRunnerIsRemoved
CHECK_DEADLOCK FALSE
