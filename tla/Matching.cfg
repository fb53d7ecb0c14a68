SPECIFICATION EngineSpec
CONSTANTS
    OrderIds = {o1, o2, o3}
    Users    = {u1, u2}
    Prices   = {0, 10, 11}
    MaxQty   = 2
    MaxNodes = 3
    ReuseIds = FALSE
    Types    = {"LIMIT", "POST_ONLY"}
    Tifs     = {"GTC", "IOC", "FOK"}
    StpModes = {"CANCEL_INCOMING", "CANCEL_RESTING", "CANCEL_BOTH"}
    ReduceOnlyFlags = {FALSE}
    Marks    = {10}
    BandPct  = 50
    BaseImf  = 1
    ImfFactor = 0
INVARIANTS
    EngineTypeOK
    OpenOrdersMirror
    
    FokStopsOnlyAtOwnOrder
PROPERTIES
    ImplementsExchange
    OnlyOwnersWithdraw
    MatchingAdvances
    CrossedOnlyByCancelled
CHECK_DEADLOCK FALSE
SYMMETRY Symmetry
