SPECIFICATION Spec
CONSTANTS
    Downloads = {d1, d2}
    NumParts = 3
    Inodes = {i1, i2, i3, i4}
    NoInode = NoInode
    MaxVer = 1
    MaxCrashes = 0
    Disturb = TRUE
SYMMETRY Symmetry
INVARIANTS
    ObjectWhole
