SPECIFICATION Spec
CONSTANTS
    METAINT = 9
    RECEIVE = 8
    MetaLens = {0, 1, 4, 10}
INVARIANTS InSync OnlyAudio WaitCanEnd
CHECK_DEADLOCK FALSE
