\* Memory, log and answers: two requests of two visitors, a page that may also bust,
\* failing reads and inserts, a restart.
SPECIFICATION ReactionsSpec
CONSTANTS
    v1 = v1
    v2 = v2
    p1 = p1
    p2 = p2
    q1 = q1
    q2 = q2
    Requests = {q1, q2}
    Callers = {q1, q2, page}
    Visitors = {v1, v2}
    Products = {p1}
    Batches <- Taps
    MaxSubmits = 2
    MaxRows = 10
    WindowRows = 10
    LimitKinds = {}
    Limit <- NoLimits
    WindowLength <- NoLimits
    MaxKeys = 10
    ProtectedKeys = {}
    ReadIds = {r1}
    NoRead = NoRead
    Ttl = 1
    Cooldown = 1
    ReadLimit = 1
    AgeCap = 3
    MaxEdits = 0
    MaxCrashes = 1
INVARIANTS
    MemoryMatchesLog
    LogFollowsAnswers
SYMMETRY Symmetric
