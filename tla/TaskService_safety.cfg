SPECIFICATION Spec
CONSTANTS
    t1 = t1
    t2 = t2
    t3 = t3
    g1 = g1
    Task <- TwoTasks
    Getter <- OneGetter
    FileParse <- OneFileParse
    Retention = TRUE
    MaxInFlight = 2
    MaxConcurrent = 1
    ParserMayPanic = TRUE
INVARIANTS
    ReadersFindFiles
    LeasesMatchReads
    LiveTasksAreAdmitted
    AnswersAreTrue
PROPERTY
    ImplementsLifecycle
CHECK_DEADLOCK FALSE
