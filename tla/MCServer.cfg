CONSTANTS
    store1 = store1
    store2 = store2
    e1 = e1
    e2 = e2
    e3 = e3
    c1 = c1
    c2 = c2
    c3 = c3
    Evictor = Evictor
    Closer = Closer
    NoEntry = NoEntry
    Datastores <- MCDatastores
    Entries <- MCEntries
    Callers <- MCCallers
    Max = 1
    NoCode = NoCode
    Messages = 2
    Parts = 2
    Sizes = {1}
    InFlight = 2
    Faulty = TRUE
    MaxMessage = 2
    MaxBuffered = 0
    Connections <- MCConnections
    SqOps <- MCEntries
    SqScoped = 2
    NoOp = NoOp
    Nothing = Nothing
    TableOf <- MCTableOf
    Checkouts <- MCCheckouts
    Revisions <- MCRevisions
    Ranks <- MCRanks
SPECIFICATION MCSpec
INVARIANTS TypesOK PoolKept WsKept HttpKept SqAllOrNothing UpgradeKept
PROPERTIES AllEnds
CHECK_DEADLOCK FALSE
