CONSTANTS
    Scopes = {s1, s2}
    Writes = {w1, w2}
    NoScope = NoScope
    NoEntry = NoEntry
    NoData = NoData
    NoLoad = NoLoad
    NoUndo = NoUndo
    LoadSlots = 2
    MaxCalls = 3
SPECIFICATION MiSpec
INVARIANTS InvalidatedIsReloaded
CHECK_DEADLOCK FALSE
