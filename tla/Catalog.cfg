SPECIFICATION Spec
CONSTANTS
    Org = {o1, o2}
    Item = {i1, i2}
    Tax = {x1, x2, x3}
    Proc = {p1, p2}
    None = None
    MaxVersion = 3
SYMMETRY Symmetry
INVARIANTS
    TypeOK
    TaxesAreOfOneWrite
PROPERTIES
    TaxesAreNotTaken
    DeletedItemsAreFrozen
