SPECIFICATION Spec
CONSTANTS
    MaxTime = 4
    Sizes = 2
    HeadMayFail = FALSE
    S3MayFail = TRUE
    OtherNodes = TRUE
INVARIANT TypeOK
PROPERTIES
    KeepsNewer
    NoLostWrite
CHECK_DEADLOCK FALSE
