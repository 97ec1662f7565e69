CONSTANTS
    m_numWorker = 2
    Thread <- MCThread
    Fd = {f1, f2}
    NoFd = NoFd
    PipeCap = 3
    Faults = {}
    StartupRace = FALSE
    Unread = {}
SPECIFICATION FairSpec
INVARIANTS NoneDropped WorkerLeavesNothing ThreadsExitBeforeFree
PROPERTIES NoDispatchToStopped IsServiceThreads ClientsServed ShutdownCompletes
CHECK_DEADLOCK FALSE
