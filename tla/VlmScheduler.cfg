SPECIFICATION FairSpec
CONSTANTS
    r1 = r1
    r2 = r2
    r3 = r3
    w1 = w1
    w2 = w2
    None = None
    Request <- ThreeRequests
    Worker <- TwoWorkers
    QueueCapacity = 1
INVARIANTS
    TypeOK
    DepthCountsJobs
    ActiveCountsWorkers
    WaitingHasOneJob
PROPERTIES
    ImplementsPool
    PredictAnswered
CHECK_DEADLOCK FALSE
