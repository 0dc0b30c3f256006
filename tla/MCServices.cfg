\* Four requests to one host; two scrapes of a supplier of each kind that meet one fault; two edits of
\* the sheet and an admin write; two tabs of the owner; a set-up stopped
\* once; a robots.txt of four lines.
SPECIFICATION ServicesSpec
CONSTANTS
    Callers = {c1, c2, c3, c4}
    MIN_HOST_GAP = 2
    MAX_HOST_WAIT = 3
    MaxTime = 5
    Scrapes = {j1, j2}
    Suppliers = {"ecg", "own", "shop"}
    MaxRelocks = 1
    MaxUpsets = 1
    Throttle = 2
    Trailing = 3
    Coalesce = 1
    Margin = 1
    PendingStale = 4
    MaxEdits = 2
    MaxTriggers = 2
    MaxAdminWrites = 1
    MaxFailures = 1
    OwnerTabs = {t1, t2}
    HasFallback = TRUE
    MaxPending = 1
    MaxHandshakes = 2
    MaxSheets = 2
    MaxRestarts = 1
    MaxStops = 1
    Readings <- MCReadings
    Tokens <- MCTokens
    Strangers = {"other"}
    Patterns <- MCPatterns
    Paths <- MCPaths
    MaxLines = 4
INVARIANTS
    VerdictIsTheStandards
    SlotsApart
    OwnStoreOpens
    OnlyALateRefreshUndoes
    FormIsOneReading
PROPERTIES
    EditIsRead
    RerunRepairs
CHECK_DEADLOCK FALSE
