SPECIFICATION Spec
CONSTANTS
    Station = {a, b}
    Playlists = {}
    None = None  Blank = Blank
    Recorded = {a, b, None, Blank}
    Web = {w}
    Console = {u}
SYMMETRY Stations
VIEW SlipOrNot
INVARIANTS SessionIsWanted TargetIsNamed NothingUnwanted NoFault ConnectedIsTrue
PROPERTY PlayerSpec
