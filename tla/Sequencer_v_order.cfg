SPECIFICATION Spec
CONSTANTS
    Threads   = {engine, market}
    MaxEvents = 4
INVARIANTS
    WalOrdered
CHECK_DEADLOCK FALSE
