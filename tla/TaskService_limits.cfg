SPECIFICATION Spec
CONSTANTS
    t1 = t1
    t2 = t2
    t3 = t3
    g1 = g1
    Task <- ThreeTasks
    Getter <- NoGetter
    FileParse <- OneFileParse
    Retention = FALSE
    MaxInFlight = 2
    MaxConcurrent = 1
    ParserMayPanic = TRUE
INVARIANTS
    TypeOK
    PermitsMatchWork
    ConcurrencyLimits
    QueuePositionsDistinct
SYMMETRY Symmetry
CHECK_DEADLOCK FALSE
