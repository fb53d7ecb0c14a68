SPECIFICATION EngineSpec
CONSTANTS
    OrderIds = {o1, o2, o3, o4}
    Users    = {u1, u2}
    Prices   = {0, 10}
    MaxQty   = 2
    MaxNodes = 4
    ReuseIds = FALSE
    Types    = {"LIMIT"}
    Tifs     = {"GTC"}
    StpModes = {"CANCEL_RESTING"}
    ReduceOnlyFlags = {FALSE, TRUE}
    Marks    = {10}
    BandPct  = 50
    BaseImf  = 1
    ImfFactor = 0
PROPERTIES
    ReduceOnlyReduces
CHECK_DEADLOCK FALSE
SYMMETRY Symmetry
