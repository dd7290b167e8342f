SPECIFICATION FairSpec
CONSTANTS
    Uploads <- MixedUploads
    StartPage = 1
    EndPage = 5
    WindowSize = 2
    VlmMaxConcurrency = 2
    MaxPerTask = 2
    MaxBlocks = 2
    QueueCapacity = 1
INVARIANTS
    TypeOK
    TaskQuota
    NoLeftovers
PROPERTIES
    NothingQueuedAfterFailure
    ImplementsParse
    TaskEnds
CHECK_DEADLOCK FALSE
