SPECIFICATION StatsSpec
CONSTANTS
    Workers   = {w1}
    Loop      = loop
    Users     = {u1, u2}
    MaxOrders = 1
    MaxFills  = 2
INVARIANTS
    CancelIsFinal
    SamplesReportedOnce
    FinalSnapshotComplete
CHECK_DEADLOCK FALSE
SYMMETRY Symmetry
