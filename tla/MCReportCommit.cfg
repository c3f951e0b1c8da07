SPECIFICATION FairSpec
CONSTANTS
    LastDay = 2
    Urls = {u, v}
    Texts = {t, w}
    None = None
    Torn = Torn
    MaxCrashes = 2
    MaxCuts = 1
INVARIANTS
    TypeOK
    ReportedOnce
    WholeBundle
PROPERTIES
    Resolves
