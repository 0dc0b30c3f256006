\* Budgets and the growth breaker: one visitor, flushes of two products, a limiter map
\* that overflows, an edited content tab.
SPECIFICATION ReactionsSpec
CONSTANTS
    v1 = v1
    v2 = v2
    p1 = p1
    p2 = p2
    q1 = q1
    q2 = q2
    Requests = {q1, q2}
    Callers = {q1, q2}
    Visitors = {v1}
    Products = {p1, p2}
    Batches <- Flushes
    MaxSubmits = 3
    MaxRows = 0
    WindowRows = 10
    LimitKinds = {"visitor", "global"}
    Limit <- BatchLimits
    WindowLength <- BatchWindows
    MaxKeys = 1
    ProtectedKeys <- GlobalKey
    ReadIds = {r1}
    NoRead = NoRead
    Ttl = 1
    Cooldown = 1
    ReadLimit = 1
    AgeCap = 3
    MaxEdits = 1
    MaxCrashes = 0
INVARIANTS
    FailuresBurnNoBudget
SYMMETRY Symmetric
