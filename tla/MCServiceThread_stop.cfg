CONSTANTS
    Thread = {t1, t2}
    Fd = {f1, f2}
    NoFd = NoFd
    PipeCap = 2
    Faults = {"init"}
SPECIFICATION FairSTSpec
INVARIANTS STTypeOK NoStrandedFd NoMissedNotify StopMeansExited
PROPERTIES QueueIsServed StopReturns
CHECK_DEADLOCK FALSE
