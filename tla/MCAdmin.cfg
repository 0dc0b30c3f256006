\* Two editors, three commits besides cascades, on two products of one collection.  Three requests of
\* the page of collections, two at a time, two texts, one change from elsewhere and one failure.
SPECIFICATION AdminRunSpec
CONSTANTS
    Requests = {e1, e2}
    Ids = {1, 2, 3}
    Names = {"kilims", "runners"}
    Codes = {"ana", "bea"}
    Initial <- Small
    MaxWrites = 3
    Slugs = {"a", "b"}
    FirstSlugs = {"a"}
    Calls = {u1, u2}
    MaxCalls = 3
    MaxTexts = 2
    MaxElsewhere = 1
    MaxUpsets = 1
INVARIANTS
    CodesUnique
    NothingReplacedUnseen
    AuditTellsTheTab
PROPERTIES
    NoLostUpdate
    AdminRequestsAnswered
CHECK_DEADLOCK FALSE
