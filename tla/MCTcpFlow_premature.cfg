CONSTANTS
    PayloadLen = 8
    TypeLen = 2
    BUFLEN = 12
    NUM_READ_TRY = 3
    Cuts = {5, 6, 7, 8, 9, 10, 11, 12}
    Uninit = {0}
    Reset = FALSE
SPECIFICATION Spec
INVARIANTS HandledWhole
CHECK_DEADLOCK FALSE
