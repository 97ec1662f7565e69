CONSTANTS
    m_numWorker = 1
    Thread <- MCThread
    Fd = {f1}
    NoFd = NoFd
    PipeCap = 3
    Faults = {}
    StartupRace = TRUE
    Unread = {}
SPECIFICATION Spec
INVARIANTS ThreadsExitBeforeFree
CHECK_DEADLOCK FALSE
