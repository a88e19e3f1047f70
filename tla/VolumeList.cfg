SPECIFICATION Spec
CONSTANT
    LastName = 1
INVARIANTS
    TypeOK
    ListIsBetween
PROPERTY
    AllocIsFree
