CONSTANTS
    x1 = x1
    x2 = x2
    s1 = s1
    s2 = s2
    jobA = jobA
    jobB = jobB
    r1 = r1
    r2 = r2
    third = third
    id = id
    a1 = a1
    c1 = c1
    NoTick = NoTick
    Jobs <- MCJobs
    Period <- MCPeriod
    Replicas <- MCReplicas
    Slots = {1}
    Skew = 1
    LastInstant = 2
    Mortal <- MCMortal
    Closable <- MCMortal
    NoSession = NoSession
    Gone = Gone
    Unused = Unused
    SsRequests <- PairX
    SsIds <- MCSessions
    IdleTtl = 2
    AbsoluteTtl = 3
    SsInstants = 3
    SsChanges = 2
    NoWriter = NoWriter
    Writers <- PairX
    Readers <- MCReaders
    LastChunk = 2
    FlushEvery = 2
    Reconnections = 2
    Listeners <- MCListeners
    NtEntries = 4
    NoScope = NoScope
    NoEntry = NoEntry
    NoData = NoData
    NoLoad = NoLoad
    NoUndo = NoUndo
    Scopes <- MCScopes
    Writes <- PairX
    LoadSlots = 2
    MaxCalls = 3
    Sources <- MCSources
    Computeds <- MCComputeds
    Effects <- PairX
    MaxRuns = 2
    MaxDepth = 2
    NoLifetime = NoLifetime
    NoRun = NoRun
    Lifetimes <- MCScopes
    Connectors = 2
    TaskRuns <- MCListeners
SPECIFICATION MCSpec
SYMMETRY Symmetry
INVARIANTS TypesOK TicksKept ServedIsCurrent StreamKept NtHears MirrorScope SettledAtRest StoreKept
PROPERTIES NothingGoesBack EffectsRunSettled
CHECK_DEADLOCK FALSE
