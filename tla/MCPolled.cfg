CONSTANTS
    w1 = w1
    w2 = w2
    c1 = c1
    job = job
    NoWriter = NoWriter
    Writers <- MCWriters
    Readers <- MCReaders
    LastChunk = 2
    FlushEvery = 2
    Reconnections = 1
    NoTick = NoTick
    Jobs <- MCJobs
    Period <- MCPeriod
    Replicas <- MCWriters
    Slots = {1}
    Skew = 1
    LastInstant = 2
    Mortal <- MCMortal
    Closable <- MCMortal
SPECIFICATION MCSpec
PROPERTIES PolledGetsOn
CHECK_DEADLOCK FALSE
