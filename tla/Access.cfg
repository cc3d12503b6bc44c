\* Two organizations, two users, one record of each kind; two requests at a time and three
\* transactions that join somebody.
SPECIFICATION Spec
CONSTANTS
    Org      = {o1, o2}
    User     = {u1, u2}
    Customer = {c1}
    Item     = {i1}
    Invitation = {v1}
    Proc     = {p1, p2}
    None     = None
    MaxBegun = 3
SYMMETRY Symmetry
INVARIANTS
    TypeOK
    OnlyManagersManage
    AnswersStayInside
PROPERTIES
    HomeIsSettled
\* No clock ends the run, but joining does: a request can always be answered, and a
\* user without any organization can do nothing.
CHECK_DEADLOCK FALSE
