SPECIFICATION OrchSpec
CONSTANTS
    p1 = p1
    p2 = p2
    w1 = w1
    w2 = w2
    None = None
    Probes <- MCProbes
    Workers <- MCWorkers
    MaxAttempts = 2
    LeaseTimeout = 2
    PopRank <- MCPopRank
    RandKey <- MCRandKey
    Reported <- MCReported
    QueueCycle <- MCQueueCycle
    ForceQueue = None
    Limit = None
    Faults = {"recycle"}
    MaxFaults = 1
    MaxStarts = 1
    MayStop = FALSE
PROPERTY
    VerdictFromContainer
