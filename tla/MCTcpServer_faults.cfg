CONSTANTS
    m_numWorker = 2
    Thread <- MCThread
    Fd = {f1, f2, f3}
    NoFd = NoFd
    PipeCap = 2
    Faults = {"init", "bind", "fcntl", "stray"}
    StartupRace = TRUE
    Unread = {}
SYMMETRY FdSymmetry
SPECIFICATION Spec
INVARIANTS TypeOK OneOwner RoundRobinBalanced LeaksAreUnserved
CHECK_DEADLOCK FALSE
