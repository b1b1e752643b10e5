SPECIFICATION FairSpec
CONSTANTS
    Station = {a, p}
    Playlists = {p}
    None = None  Blank = Blank
    Recorded = {a, p}
    Web = {}
    Console = {u}
PROPERTIES CliStopStops
