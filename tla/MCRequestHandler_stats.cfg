CONSTANTS
    Worker = {w1, w2}
    Value = {v1, v2}
    k1 = k1
    k2 = k2
    Key <- MCKey
    Salt <- MCSalt
    HashAp <- MCHashAp
    table_size_ = 8
    MAX_DICT_SIZE = 1
    bloomRequested = FALSE
    StartupRace = FALSE
    NoThread = NoThread
    INT_MAX = 3
    MaxGets = 5
SPECIFICATION Spec
INVARIANTS GetsAccounted StatReportSound ReasonOnlyOnMiss
PROPERTIES ImplementsStore
