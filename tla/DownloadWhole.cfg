SPECIFICATION Spec
CONSTANTS
    Downloads = {d1, d2}
    NumParts = 2
    Inodes = {i1, i2, i3, i4}
    NoInode = NoInode
    MaxVer = 2
    MaxCrashes = 1
    Disturb = FALSE
SYMMETRY Symmetry
INVARIANTS
    TypeOK
    ObjectWhole
    FileWhole
    CoveredIsTag
PROPERTIES
    NotUploadedBack
