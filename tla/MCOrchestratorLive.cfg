SPECIFICATION FairOrchSpec
CONSTANTS
    p1 = p1
    p2 = p2
    w1 = w1
    w2 = w2
    None = None
    Probes <- MCProbes1
    Workers <- MCWorkers
    MaxAttempts = 2
    LeaseTimeout = 2
    PopRank <- MCPopRank
    RandKey <- MCRandKey
    Reported <- MCReported
    QueueCycle <- MCQueueCycle
    ForceQueue = "popular"
    Limit = None
    Faults = {"boot", "claim", "run", "recycle", "gc", "record", "heartbeat", "sweep", "kill"}
    MaxFaults = 2
    MaxStarts = 3
    MayStop = FALSE
PROPERTY
    EventuallySettled
