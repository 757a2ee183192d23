SPECIFICATION Spec
CONSTANTS
    c1 = c1
    c2 = c2
    w1 = w1
    None = None
    Workers = {w1}
    Crates = {c1}
    MaxLines = 1
    MaxStragglers = 0
INVARIANT AnswerReachesHost
