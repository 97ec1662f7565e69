CONSTANTS
    PayloadLen = 12
    TypeLen = 2
    BUFLEN = 6
    NUM_READ_TRY = 3
    Cuts = {1, 2, 3, 5, 6, 7, 8, 9, 10, 11, 12, 13, 14, 15, 16}
    Uninit = {0, 4, 9}
    Reset = TRUE
SPECIFICATION FairSpec
INVARIANTS TypeOK Assembled WholeIsHandled MissesAtMostHeader RefusesOnlyShort
PROPERTIES AnsweredOrEnded
CHECK_DEADLOCK FALSE
