\* Two requests over a product of two photos: two imports, then more of a pending row one at a time,
\* one fault, one edit of the name or of the slug; two calls to Google, in a spreadsheet changed under
\* them once.
SPECIFICATION DriveSpec
CONSTANTS
    Requests = {q1, q2}
    N = 2
    Slugs = {1, 2}
    UPLOAD_CONCURRENCY = 1
    MaxImports = 2
    MaxFaults = 1
    MaxRenames = 1
    Calls = {w1, w2}
    MaxAttempts = 2
    MaxTampers = 1
INVARIANTS
    RowIsTrue
    NoPhotoTwice
    WritesLandOnce
    RepairsItself
PROPERTIES
    ImportFinishes
CHECK_DEADLOCK FALSE
