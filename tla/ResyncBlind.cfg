SPECIFICATION Spec
CONSTANTS
    MaxTime = 3
    Sizes = 2
    HeadMayFail = TRUE
    S3MayFail = FALSE
    OtherNodes = FALSE
PROPERTY KeepsNewer
CHECK_DEADLOCK FALSE
