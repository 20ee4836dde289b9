SPECIFICATION Spec
CONSTANTS
    p1 = p1
    p2 = p2
    p3 = p3
    NoPod = NoPod
    Pods = {p1, p2, p3}
    Times = {}
    MaxClock = 1
    MaxTime = 2
    MaxFaults = 1
    Behind = 0
    Ahead = 0
    Confs <- MaxConfs
INVARIANTS
    TypeOK
    PodsStayWithinMax
    UnlinkedIsProtected
PROPERTIES
    UnlinkWithinBudget
SYMMETRY Symmetry
CHECK_DEADLOCK FALSE
