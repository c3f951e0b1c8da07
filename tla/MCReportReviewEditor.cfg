SPECIFICATION Spec
CONSTANTS
    Sessions = {a, b}
    None = None
    MaxRevision = 3
    MaxClock = 1
    SendDelay = 1
    ClaimTimeout = 1
    MaxCrashes = 0
    MaxLost = 0
INVARIANTS
    EditorNeverApproves
CHECK_DEADLOCK FALSE
