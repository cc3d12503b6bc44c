SPECIFICATION FairSpec
CONSTANTS
    Key = {k1, k2}
    Proc = {p1, p2}
    None = None
    Max = 2
    Window = 2
INVARIANTS
    TypeOK
    BurstIsBounded
PROPERTIES
    LockoutEnds
