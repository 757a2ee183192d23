SPECIFICATION TxnSpec
CONSTANTS
    p1 = p1
    p2 = p2
    w1 = w1
    w2 = w2
    s1 = s1
    s2 = s2
    None = None
    Probes <- MCProbes
    Workers <- MCWorkers
    Sessions <- MCSessions
    MaxCrashes = 1
    MaxAttempts = 2
    LeaseTimeout = 1
    PopRank <- MCPopRank
    RandKey <- MCRandKey
    Reported <- MCReported
PROPERTIES
    IsAtomic
    CommittedCalls
SYMMETRY MCSymmetry
