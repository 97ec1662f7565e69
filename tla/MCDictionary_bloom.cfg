CONSTANTS
    Worker = {w1, w2}
    Value = {v1, v2}
    k1 = k1
    k2 = k2
    k3 = k3
    Key <- MCKey
    Salt <- MCSalt
    HashAp <- MCHashAp
    table_size_ = 16
    MAX_DICT_SIZE = 2
    bloomRequested = TRUE
    StartupRace = FALSE
    NoThread = NoThread
SPECIFICATION FairDictSpec
INVARIANTS DictTypeOK NoFalseNegative
PROPERTIES ImplementsStore
