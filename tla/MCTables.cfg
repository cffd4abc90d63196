CONSTANTS
    x1 = x1
    x2 = x2
    y1 = y1
    y2 = y2
    key = key
    empty = empty
    producer = producer
    rescuer = rescuer
    txKey = txKey
    plainKey = plainKey
    d1 = d1
    e1 = e1
    e2 = e2
    e3 = e3
    d2 = d2
    t1 = t1
    t2 = t2
    colA = colA
    colB = colB
    ix = ix
    k1 = k1
    k2 = k2
    NoKey = NoKey
    NoJob = NoJob
    NoWorker = NoWorker
    Ids <- PairX
    Workers <- PairY
    Keys <- MCKeys
    EmptyKeys <- MCEmptyKeys
    Queues <- MCQueues
    Priorities <- MCPriorities
    MaxAttempts <- MCMaxAttempts
    AttemptBound = 2
    ReopenBound = 1
    BatchLimit = 1
    RescueLimit = 2
    Producers <- MCProducers
    Rescuers <- MCRescuers
    NoCall = NoCall
    IdemKeys <- MCIdemKeys
    TxKeys <- MCTxKeys
    SweptKeys <- MCIdemKeys
    Digests <- PairX
    FnCalls <- PairY
    LastNumber = 2
    NoRate = NoRate
    RateCallers <- PairX
    RateLimitOf = 2
    RateWindow = 2
    RateAge = 2
    RateAttempts = 2
    RateLag = 1
    RateInstants = 4
    Tables <- MCTables
    Columns <- MCColumns
    Indexes <- MCIndexes
    Kinds <- MCKinds
    Deployments <- MCDeployments
    NameRank <- MCNameRank
    Releases <- MCReleases
    Migrators <- PairX
    NoTable = NoTable
    NoSchema = NoSchema
    NoMigrator = NoMigrator
    TenantKeys <- MCDeployments
    Adapters <- MCAdapters
    TenantCalls <- PairX
    Policies <- PairY
    NoTenant = NoTenant
    NoAdapter = NoAdapter
    NoPolicy = NoPolicy
SPECIFICATION MCSpec
SYMMETRY Symmetry
INVARIANTS OneActivePerKey LeaseIffExecuting CallsKept RateKept TenantsKept MigrationsAreWhole
PROPERTIES KeepsContract
CHECK_DEADLOCK FALSE
