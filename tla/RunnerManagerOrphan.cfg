SPECIFICATION Spec
CONSTANTS
    p1 = p1
    NoPod = NoPod
    Pods = {p1}
    Times = {}
    MaxClock = 1
    MaxTime = 4
    MaxFaults = 0
    Behind = 0
    Ahead = 0
    Confs <- NotifyConfs
PROPERTIES
    RemovedRunnerHasNoPod
CHECK_DEADLOCK FALSE
