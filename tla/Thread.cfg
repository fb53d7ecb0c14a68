SPECIFICATION ThreadSpec
CONSTANTS
    OrderIds = {o1, o2}
    Users    = {u1, u2}
    Prices   = {0, 10, 11}
    MaxQty   = 2
    MaxNodes = 2
    ReuseIds = FALSE
    Types    = {"LIMIT", "MARKET"}
    Tifs     = {"GTC", "FOK"}
    StpModes = {"CANCEL_RESTING"}
    ReduceOnlyFlags = {FALSE, TRUE}
    Marks    = {10, 11}
    BandPct  = 5
    BaseImf  = 2
    ImfFactor = 1
    InstrumentStates = {"TRADING", "COOLDOWN", "EMERGENCY"}
    PriceBandPct = 5
    MaxPosition = 1
    RateLimit   = 2
    MaxMessages = 3
INVARIANTS
    TakerKeepsLimit
    TradesInBand
    
    AcceptedWithinRate
    MarginCovers
CHECK_DEADLOCK FALSE
SYMMETRY Symmetry
