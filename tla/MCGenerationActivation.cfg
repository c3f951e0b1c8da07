SPECIFICATION Spec
CONSTANTS
    p1 = p1
    w1 = w1
    x = x
    y = y
    z = z
    Pdfs = {p1}
    Webs = {w1}
    ArticlesOf <- BatchArticles
    Created <- BatchAge
    ApprovedFirst = {z}
    Threads = {t1, t2}
    t1 = t1
    t2 = t2
    None = None
    MaxVersion = 2
    MaxEdits = 2
    MaxMishaps = 1
    MaxRetries = 1
INVARIANTS
    TypeOK
    ChatServesActive
    ReceiptHolds
PROPERTIES
    NeverOlder
    ChatCatchesUp
    BatchesSettle
