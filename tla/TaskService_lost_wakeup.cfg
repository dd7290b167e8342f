SPECIFICATION FairSpec
CONSTANTS
    t1 = t1
    t2 = t2
    t3 = t3
    g1 = g1
    Task <- TwoTasks
    Getter <- NoGetter
    FileParse <- OneFileParse
    Retention = FALSE
    MaxInFlight = 2
    MaxConcurrent = 1
    ParserMayPanic = FALSE
PROPERTY
    FileParseAnswered
CHECK_DEADLOCK FALSE
