\* Two compactors, four reactions of two visitors, a window of two rows; two requests of the studio in eight hours;
\* two buyers and room for one; a photo of twelve pixels of three vendors; four products and two collections;
\* three requests about two customers and a new one.
SPECIFICATION StudioSpec
CONSTANTS
    Visitors = {v1, v2}
    Products = {r1}
    WindowRows = 2
    Compactors = {k1, k2}
    MaxEvents = 4
    Pages = {p1, p2}
    IDLE = 3
    ABSOLUTE = 6
    REISSUE_AFTER = 1
    MaxHours = 8
    MaxLogins = 2
    MaxReboots = 1
    Buyers = {b1, b2}
    VISIT_WINDOW = 2
    MAX_KEYS = 1
    CUSTOMER_SESSION = 2
    MaxClock = 3
    MaxViews = 3
    MaxSwitches = 1
    CROP_MARGIN = 20
    Width = 4
    Height = 3
    Vendors = {"karavanrug", "ecarpetgallery", "none"}
    MaxSoft = 1
    Names <- MCNames
    ProductRows <- MCProductRows
    CollectionRows <- MCCollectionRows
    Singular <- MCSingular
    STUDIO_ORDER <- MCOrder
    REFERENCE_ORDER <- MCReference
    MaxProducts = 4
    MaxCollections = 2
    Codes = {"c1", "c2", "c3"}
    FirstCodes = {"c1", "c2"}
    Nicks = {n1, n2}
    Asks = {a1, a2}
    MaxAsks = 3
    MaxMisses = 1
INVARIANTS
    HistoryConserved
    WorkStaysSignedIn
    DeskInStep
    OneRowPerWindow
    ClearsTheBackdropOnly
    RugInFrame
    TabsMatchTheWall
PROPERTIES
    RefinesVoteRegister
CHECK_DEADLOCK FALSE
