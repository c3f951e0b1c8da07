SPECIFICATION Spec
CONSTANTS
    Entities = {e1, e2}
    Sessions = {s1}
    Preparers = {t1}
    None = None
    MaxBody = 1
    MaxRuns = 1
    MaxFixes = 0
    MaxDisputes = 1
    MaxCrashes = 0
SYMMETRY Symmetry
CHECK_DEADLOCK FALSE
INVARIANTS
    ItemPassIsPublic
PROPERTIES
    NegativeIsFinal
    DisputeHolds
