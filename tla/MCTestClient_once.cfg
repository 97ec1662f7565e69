CONSTANTS
    UninitType = {"GET", "SET", "STAT", "other"}
    Thread <- MCThread
    ThreadCounts <- MCThreadCounts
    Files <- MCFiles
    MaxFds = 3
    Faults = {"connect", "write", "read"}
    MayCut = TRUE
    Durations = {2}
    UninitLatency = {0}
    MAX_LINE_WRITE = 2
SPECIFICATION FairSpec
INVARIANTS TypeOK LeaksAreLosses FileInOrder DiesOfBadInput
PROPERTIES ImplementsWorkList Finishes
CHECK_DEADLOCK FALSE
