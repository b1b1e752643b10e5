SPECIFICATION FairSpec
CONSTANTS
    Station = {a, p}
    Playlists = {p}
    None = None  Blank = Blank
    Recorded = {a, p}
    Web = {w}
    Console = {}
PROPERTIES StopEndsSession AskedIsPlayed CommandReturns
