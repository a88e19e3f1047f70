SPECIFICATION Spec
CONSTANTS
    Downloads = {d1}
    NotFound = NotFound
    NoAnswer = NoAnswer
    MaxVer = 3
    MaxCrashes = 1
    FixedSize = FALSE
    S3MayFail = TRUE
    OtherNodes = "apart"
    Evicts = TRUE
    LateMarks = FALSE
    BusyWrites = FALSE
INVARIANTS
    MarksInv
PROPERTIES
    NoLostWrite
    HitIsCurrent
