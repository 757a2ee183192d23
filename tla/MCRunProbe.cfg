SPECIFICATION Spec
CONSTANTS
    w1 = w1
    w2 = w2
    own = own
    a = a
    b = b
    None = None
    Own = own
    Packages <- MCPackages
    Workers <- MCWorkers
    FetchConcurrency = 1
    Crates <- MCCrates
    Faults = {"download", "corrupt", "deps", "hang", "stuck", "vm", "meta", "raise", "recycle"}
    MaxFaults = 2
SYMMETRY MCSymmetry
INVARIANTS
    ProbeTypeOK
    SlotsConserved
    CountedAsFork
    ControlRecorded
