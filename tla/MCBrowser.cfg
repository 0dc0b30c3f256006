\* Two products' like buttons under two taps, failures and a reload; four rugs on two
\* pages under three entries of the history; one add form with two pasted
\* links and one saved row; one row under three requests, one of them unheard.
SPECIFICATION BrowserSpec
CONSTANTS
    Products = {p1, p2}
    Posts = {f1, f2}
    MaxBatch = 2
    MaxTaps = 2
    MaxFaults = 2
    MaxDelisted = 1
    Cards = {1, 2, 3, 4}
    Shelves <- MCShelves
    Filed <- MCFiled
    Answers <- MCAnswers
    PAGE_SIZE = 2
    MaxEntries = 3
    PagePhotos = {x1, x2}
    MaxSaves = 1
    MaxPastes = 2
    Names = {n1, n2}
    Choices = {c1, c2}
    MaxSends = 3
    MaxLost = 1
INVARIANTS
    ScreenSettles
    PageInStep
    OwnStoreNeverNumbered
    NothingTrampled
PROPERTIES
    TapsSettle
CHECK_DEADLOCK FALSE
