SPECIFICATION Spec
CONSTANTS
    Paths = {p1}
    Uploaders = {u1, u2}
    Timers = {t1, t2}
    Handlers = {h1, h2}
    None = None
    QueueCap = 1
    MaxVer = 3
    MaxRetries = 1
    MaxCrashes = 1
    S3MayFail = TRUE
    DeleteMayFail = FALSE
    RemoveMayFail = FALSE
    WatchGaps = FALSE
    FilesInUse = FALSE
SYMMETRY Symmetry
INVARIANTS
    OneUploadPerPath
    NoUploadWhileHeld
    NoResurrection
    NoWriteForgotten
PROPERTIES
    RecordedIsStored
