CONSTANTS
    Connections = {c1, c2}
SPECIFICATION HsSpec
INVARIANTS EverySocketIsAsked
CHECK_DEADLOCK FALSE
