SPECIFICATION ChunkSpec
CONSTANTS
    RECV = 9
    SECURE = 6
    LineLens = {3, 4}
    Sizes = {1, 2, 3, 7, 20}
    WORD = 40
INVARIANTS InStep PayloadPassed WaitsForLoneLf
PROPERTY EndIsSeen
CHECK_DEADLOCK FALSE
