SPECIFICATION Spec
CONSTANTS
    Org = {o1, o2}
    Email = {e1, e2}
    Invitation = {i1, i2}
    Proc = {p1, p2}
    None = None
SYMMETRY Symmetry
INVARIANTS
    TypeOK
    OneInPlayPerAddress
    MembersWereInvited
    AcceptanceIsAtomic
    
    LateRequestsJoinNobody
PROPERTIES
    ImplementsMemberships
