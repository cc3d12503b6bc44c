SPECIFICATION FairSpec
CONSTANTS
    User = {u1}
    Token = {1, 2, 3}
    Proc = {p1, p2}
    None = None
INVARIANTS
    TypeOK
    SuccessIsTrue
    SupersededTokensAreBurned
    ServedWhileOpen
PROPERTIES
    ImplementsLinks
    DeliveredLinkConfirms
