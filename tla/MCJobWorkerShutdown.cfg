CONSTANTS
    j1 = j1
    w1 = w1
    w2 = w2
    p1 = p1
    NoKey = NoKey
    NoJob = NoJob
    NoWorker = NoWorker
    Ids <- MCIds
    Keys = {}
    EmptyKeys = {}
    Queues <- MCQueues
    Priorities <- MCPriorities
    MaxAttempts <- MCMaxAttempts
    AttemptBound = 9
    ReopenBound = 1
    BatchLimit = 1
    RescueLimit = 1
    Workers <- MCWorkers
    Producers <- MCProducers
    Rescuers <- MCWorkers
    Mortal <- MCMortal
    Closable <- MCMortal
    Concurrency <- MCConcurrency
    MaxClaim = 1
SPECIFICATION WorkerSpec
INVARIANTS ShutdownAbortsEveryRun
CHECK_DEADLOCK FALSE
