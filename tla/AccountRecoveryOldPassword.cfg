SPECIFICATION Spec
CONSTANTS
    User = {u1}
    Password = {w1, w2}
    ResetToken = {r1, r2}
    Family = {f1, f2}
    Hash = {h1, h2, h3}
    Proc = {p1, p2}
    None = None
SYMMETRY Symmetry
INVARIANTS
    NoSessionOfOldPassword
