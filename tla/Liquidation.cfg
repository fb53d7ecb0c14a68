SPECIFICATION LiqSpec
CONSTANTS
    Users      = {u1, u2, u3}
    Prices     = {6, 10}
    Marks      = {8, 10}
    MaxQty     = 2
    MaxTrades  = 2
    MakerFee   = 1
    TakerFee   = 2
    FeeUnit    = 80
    Deposit    = 5
    VaultSeed  = 0
    BaseImf    = 16
    ImfFactor  = 4
    BaseMmf    = 8
    MmfFactor  = 2
    PriceBand  = 20
    LiqFee     = 8
    LiqBand    = 20
    ChunkParts = 2
    MinLot     = 1
    MaxChunks  = 2
    MaxCalls   = 2
INVARIANTS
    LiqTypeOK
    NetPosition
    EntryAccountsForCash
    ZeroSumUntilLiquidation
PROPERTIES
    
    OthersKeepEquity
    AdlLastAndInOrder
    FillsNeverRestore
    
    LiquidationAdvances
CHECK_DEADLOCK FALSE
SYMMETRY Symmetry
