SPECIFICATION FairBreakersSpec
CONSTANTS
    Instruments = {i1, i2}
    Marks       = {100, 105, 111}
    Window      = 1
    Threshold   = 8
    Duration    = 2
    Seed        = 1
    Amounts     = {1}
    MaxBalance  = 1
    MaxAbsorbed = 1
    MaxUpdates  = 1
    Admin       = TRUE
INVARIANTS
    NoMoveUnanswered
PROPERTIES
    CooldownEnds
    StressStops
