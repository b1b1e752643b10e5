SPECIFICATION Spec
CONSTANTS
    STATIONS = 2  BYTE = 4  WORD = 8
    Numbers = {3, 5}
    Web = {w1}  Cli = Cli  None = None  Other = Other
    PLAYS = 1
    QUEUE = 2  LINE = 2
    Lines <- SomeLines
    TYPED = 3
VIEW Relevant
INVARIANTS CurrentIsPlayed NeighbourSelected LinesAreRun
CHECK_DEADLOCK FALSE
