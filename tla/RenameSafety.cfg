SPECIFICATION Spec
CONSTANTS
    Keys = {k1, k2}
    Requests = {r1}
    NoKey = NoKey
    Partial = Partial
    MaxVer = 3
    MaxCrashes = 1
    MaxRequests = 2
    S3MayFail = TRUE
    OtherNodes = TRUE
    FreeNames = TRUE
    BusyWrites = FALSE
SYMMETRY Symmetry
INVARIANTS
    TypeOK
    SourceStaysAway
PROPERTIES
    RecordsWhatIsThere
    DestinationIsSource
    NoLostWrite
CHECK_DEADLOCK FALSE
