SPECIFICATION FairSpec
CONSTANTS
    Sessions = {a, b}
    None = None
    MaxRevision = 3
    MaxClock = 3
    SendDelay = 2
    ClaimTimeout = 2
    MaxCrashes = 1
    MaxLost = 1
INVARIANTS
    TypeOK
    ApprovalIsBacked
    MailIsApproved
PROPERTIES
    RevisionsAreImmutable
    NotOrphaned
CHECK_DEADLOCK FALSE
