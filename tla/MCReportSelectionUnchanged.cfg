SPECIFICATION Spec
CONSTANTS
    Core = {c1}
    Pdf = {}
    Observations = {}
    Texts = {t1, t2}
    Freezers = {f1}
    None = None
    PeriodLength = 2
    MaxClock = 6
    MaxVersions = 3
    MaxCrashes = 0
SYMMETRY TextSymmetry
INVARIANTS
    CoreReportedAnew
CHECK_DEADLOCK FALSE
