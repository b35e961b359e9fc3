SPECIFICATION RateFairSpec
CONSTANTS
    Workers = {w1}
    Limit = 2
    Window = 2
    MaxCount = 12
PROPERTY LaterAdmitted
CHECK_DEADLOCK FALSE
