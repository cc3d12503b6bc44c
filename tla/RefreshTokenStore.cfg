SPECIFICATION Spec
CONSTANTS
    Hash = {h1, h2, h3}
    Family = {f1, f2}
    User = {u1}
    Proc = {p1, p2}
    NoKey = NoKey
    TTL = 2
    Lifetime = 2
    Grace = 0
    Skew = 1
    MaxClock = 2
SYMMETRY Symmetry
INVARIANTS
    TypeOK
    IInv
    OneLiveTokenPerFamily
    AbsoluteLifetime
    EndedSessionsStayDead
    ReplayIsRecognised
    IndexCoversLiveTokens
PROPERTIES
    ImplementsLineage
