SPECIFICATION FairSpec
CONSTANTS
    Paths = {p1}
    Uploaders = {u1, u2}
    Timers = {t1}
    Handlers = {h1}
    None = None
    QueueCap = 1
    MaxVer = 2
    MaxRetries = 0
    MaxCrashes = 1
    S3MayFail = TRUE
    DeleteMayFail = FALSE
    RemoveMayFail = FALSE
    WatchGaps = FALSE
    FilesInUse = TRUE
PROPERTIES
    DeleteEnds
    EventuallyUploaded
CHECK_DEADLOCK FALSE
