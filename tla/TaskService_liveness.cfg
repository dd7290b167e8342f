SPECIFICATION FairSpec
CONSTANTS
    t1 = t1
    t2 = t2
    t3 = t3
    g1 = g1
    Task <- TwoTasks
    Getter <- NoGetter
    FileParse <- TwoTasks
    Retention = TRUE
    MaxInFlight = 2
    MaxConcurrent = 1
    ParserMayPanic = FALSE
PROPERTIES
    ProcessorsFinish
    CleanupWakesWaiters
CHECK_DEADLOCK FALSE
