SPECIFICATION FairSpec
CONSTANTS
    OrderIds = {o1, o2}
    Users    = {u1, u2}
    Prices   = {0, 10}
    MaxQty   = 1
    MaxNodes = 3
    ReuseIds = TRUE
    Types    = {"LIMIT"}
    Tifs     = {"GTC"}
    StpModes = {"CANCEL_RESTING"}
    ReduceOnlyFlags = {FALSE}
    Marks    = {10}
    BandPct  = 50
    BaseImf  = 1
    ImfFactor = 0
PROPERTIES
    ProcessTerminates
CHECK_DEADLOCK FALSE
