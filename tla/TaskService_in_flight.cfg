SPECIFICATION Spec
CONSTANTS
    t1 = t1
    t2 = t2
    t3 = t3
    g1 = g1
    Task <- TwoTasks
    Getter <- NoGetter
    FileParse <- NoTask
    Retention = FALSE
    MaxInFlight = 1
    MaxConcurrent = 1
    ParserMayPanic = FALSE
INVARIANT
    InFlightLimit
CHECK_DEADLOCK FALSE
