SPECIFICATION Spec
CONSTANTS
    Entities = {e1}
    Sessions = {s1, s2}
    Preparers = {}
    None = None
    MaxBody = 2
    MaxRuns = 1
    MaxFixes = 1
    MaxDisputes = 0
    MaxCrashes = 1
SYMMETRY Symmetry
CHECK_DEADLOCK FALSE
INVARIANTS
    TypeOK
    
    SubmitterOwns
    
PROPERTIES
    PublicNeverGoesBack
