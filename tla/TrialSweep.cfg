SPECIFICATION FairSpec
CONSTANTS
    Org = {o1, o2, o3}
    Job = {j1, j2}
    None = None
    Trial = 1
    Limit = 2
    MaxClock = 3
INVARIANTS
    TypeOK
    SuccessDrainsOldest
PROPERTIES
    SweepTakesNoAccess
    ExpiredTrialsAreSuspended
