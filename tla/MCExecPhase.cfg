SPECIFICATION FairSpec
CONSTANTS
    c1 = c1
    c2 = c2
    w1 = w1
    None = None
    Workers = {w1}
    Crates <- MCCrates
    MaxLines = 2
    MaxStragglers = 1
INVARIANTS
    ExecTypeOK
    OwnSource
    OwnSpool
    CacheTrusted
PROPERTY
    ExecEnds
