SPECIFICATION QueueSpec
CONSTANTS
    p1 = p1
    p2 = p2
    p3 = p3
    w1 = w1
    w2 = w2
    None = None
    Probes <- MCProbes
    Workers <- MCWorkers
    MaxAttempts = 2
    LeaseTimeout = 2
    PopRank <- MCPopRank
    RandKey <- MCRandKey
    Reported <- MCReported
SYMMETRY WorkerSymmetry
INVARIANTS
    TypeOK
    CurrentIsLatest
    AttemptsAccounted
    DoneIffJudged
    RetryBudget
    FinishedRows
    ClaimOrder
    SampleHasNoHoles
PROPERTIES
    HistoryOnlyGrows
    LaterQueriesCatchUp
    SampleOnlyGrows
