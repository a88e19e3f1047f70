SPECIFICATION Spec
CONSTANTS
    Paths = {p1}
    Uploaders = {u1, u2}
    Timers = {t1, t2}
    Handlers = {h1}
    None = None
    QueueCap = 1
    MaxVer = 3
    MaxRetries = 1
    MaxCrashes = 0
    S3MayFail = FALSE
    DeleteMayFail = TRUE
    RemoveMayFail = FALSE
    WatchGaps = FALSE
    FilesInUse = FALSE
SYMMETRY Symmetry
INVARIANTS
    NoWriteForgotten
