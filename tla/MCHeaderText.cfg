SPECIFICATION Spec
CONSTANTS
    w = w
    Web = {w}  Console = {}  Client = Client  Null = Null
    SESSIONS = 3  COMMANDS = 3  SHORTAGES = 1
INVARIANTS TextsAreStations PagesKnow MessageFits TitleIsThere
CHECK_DEADLOCK FALSE
