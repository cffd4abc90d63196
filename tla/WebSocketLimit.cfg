CONSTANTS
    Messages = 2
    Parts = 2
    Sizes = {1, 2}
    InFlight = 2
    Faulty = FALSE
    MaxMessage = 2
    MaxBuffered = 0
    NoCode = NoCode
SPECIFICATION WsSpec
INVARIANTS WsLimitIsPerMessage
CHECK_DEADLOCK FALSE
