SPECIFICATION Spec
CONSTANTS
    OrderIds = {o1, o2, o3}
    Users    = {u1}
    Prices   = {1, 2}
    MaxQty   = 2
    MaxNodes = 4
    ReuseIds = FALSE
INVARIANTS
    TypeOK
    TimeOrdered
    IndexSound
    IndexComplete
    LevelQtyExact
PROPERTIES
    CallsCorrespond
SYMMETRY Symmetry
