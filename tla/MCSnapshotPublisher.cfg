SPECIFICATION FairSpec
CONSTANTS
    Revisions = {r1, r2}
    None = None
    BaseAttempts = 2
    MaxVersion = 2
    MaxApprovals = 2
    MaxFailures = 2
    MaxCrashes = 1
INVARIANTS
    TypeOK
    SkipIsSafe
    NoResidue
PROPERTIES
    Converges
