SPECIFICATION Spec
CONSTANTS
    r1 = r1
    r2 = r2
    r3 = r3
    w1 = w1
    w2 = w2
    None = None
    Request <- TwoRequests
    Worker <- OneWorker
    QueueCapacity = 1
PROPERTY
    DroppedNotSent
CHECK_DEADLOCK FALSE
