SPECIFICATION FairSpec
CONSTANTS
    Senders = {s1, s2}
    NRecipients = 3
    Payloads = {p1, p2}
    NoState = NoState
    MaxCrashes = 2
    MaxFailures = 2
INVARIANTS
    TypeOK
    StateIsTruthful
PROPERTIES
    KeepsPromise
    Settles
