SPECIFICATION FairSpec
CONSTANTS
    StopIds = {s1, s2}
    Users   = {u1}
    Prices  = {20, 22}
    Triggers = {20, 21}
    Mids    = {0, 19, 22}
    InitialPrice = 20
    MarkClamp = 5
    Sources = {"MARK", "INDEX", "LAST_TRADED"}
INVARIANTS
    OneFate
PROPERTIES
    IndexBehindMark
    ReachedFires
