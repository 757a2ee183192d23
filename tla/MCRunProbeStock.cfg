SPECIFICATION Spec
CONSTANTS
    w1 = w1
    w2 = w2
    own = own
    a = a
    b = b
    None = None
    Own = own
    Packages <- MCPackages
    Workers <- MCWorkers
    FetchConcurrency = 1
    Crates <- MCCratesStock
    Faults = {}
    MaxFaults = 0
INVARIANTS
    DenominatorIsStock
