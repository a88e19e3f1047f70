SPECIFICATION Spec
CONSTANTS
    Paths = {p1}
    Uploaders = {u1, u2}
    Timers = {t1, t2}
    Handlers = {h1}
    None = None
    QueueCap = 1
    MaxVer = 2
    MaxRetries = 1
    MaxCrashes = 1
    S3MayFail = TRUE
    DeleteMayFail = TRUE
    RemoveMayFail = TRUE
    WatchGaps = TRUE
    FilesInUse = TRUE
INVARIANTS
    StoreInv
PROPERTIES
    ImplementsObjectAccess
