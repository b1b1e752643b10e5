SPECIFICATION RequestSpec
CONSTANTS
    BODY = 4
    REQUESTS = 3
INVARIANTS PostAsSent
PROPERTY TaskEnds
CHECK_DEADLOCK FALSE
