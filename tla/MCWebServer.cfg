SPECIFICATION Spec
CONSTANTS
    FD = {3, 4, 5}
    CLIENTS = 2
    NBCLIENT = 2
INVARIANTS PermitsAdd OneOwner EntriesAreWebsockets
PROPERTIES ConnectionIsTaken WebsocketEnds
CHECK_DEADLOCK FALSE
