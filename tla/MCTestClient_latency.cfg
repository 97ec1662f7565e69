CONSTANTS
    UninitType = {"GET", "SET", "STAT", "other"}
    Thread = {1}
    ThreadCounts = {1}
    Files <- MCOneFile
    MaxFds = 1
    Faults = {}
    MayCut = FALSE
    Durations = {2, 3}
    UninitLatency = {0, 9}
    MAX_LINE_WRITE = 2
SPECIFICATION Spec
INVARIANTS LatencyInRange
CHECK_DEADLOCK FALSE
