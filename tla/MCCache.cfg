\* The snapshot cache under traffic and a sheet that answers some day: two callers, two names for
\* loads, an edit, a restart.  Its health under one fault at a time, restarts and a run cut short.
SPECIFICATION CacheRunSpec
CONSTANTS
    Callers = {c1, c2}
    ReadIds = {r1, r2}
    NoRead = NoRead
    Ttl = 1
    Cooldown = 1
    ReadLimit = 1
    AgeCap = 3
    MaxEdits = 1
    MaxCrashes = 1
    Faults = {"away", "sheet", "metadata", "rows", "photos"}
    MaxFaults = 1
    MaxCuts = 1
INVARIANTS
    BustYieldsLaterRead
    StalenessBound
PROPERTIES
    ContentNeverGoesBack
    CallsSettle
    EditEventuallyServed
    OwnerIsTold
