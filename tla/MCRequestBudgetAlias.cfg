SPECIFICATION Spec
CONSTANTS
    s1 = s1
    s2 = s2
    h1 = h1
    h2 = h2
    h3 = h3
    x = x
    y = y
    d1 = d1
    d2 = d2
    w1 = w1
    w2 = w2
    Sessions = {s1}
    Handles = {h1, h2, h3}
    Articles = {x}
    Days = {d1, d2}
    Window = {d1}
    Policies = {"window"}
    Words = {w1, w2}
    None = None
    FetchLimit = 1
    UnitCap = 1
    ReadLimit = 2
    RuntimeLimit = 1
    MaxAttempts = 1
    MaxStages = 2
    MaxClock = 1
SYMMETRY Symmetry
CHECK_DEADLOCK FALSE
INVARIANTS
    AliasHolds
