SPECIFICATION FairSpec
CONSTANTS
    Own = {r1}
    Others = {}
    PerPage = 1
    Replicas = 1
    MaxStops = 0
PROPERTIES
    FinishedPodIsDeleted
CHECK_DEADLOCK FALSE
