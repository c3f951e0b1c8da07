SPECIFICATION Spec
CONSTANTS
    Core = {c1}
    Pdf = {p1}
    Observations = {1, 2}
    Texts = {t1, t2}
    Freezers = {f1}
    None = None
    PeriodLength = 2
    MaxClock = 5
    MaxVersions = 3
    MaxCrashes = 1
SYMMETRY TextSymmetry
INVARIANTS
    TypeOK
    NoRepeat
    NothingSkipped
    
CHECK_DEADLOCK FALSE
