SPECIFICATION Spec
CONSTANTS
    a = a
    None = None
    Pages <- MCPages
    MaxVersion = 3
    MaxFaults = 2
    MaxOpens = 1
INVARIANTS
    DashTypeOK
    FreshWhenIdle
    MissedOnlyInRace
PROPERTY
    EventuallyFresh
