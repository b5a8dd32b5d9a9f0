SPECIFICATION Spec
CONSTANTS
    Digests = {d1, d2}
    Codes = {"catalog.not_found", "teep.network", "other"}
    TextFields <- MCTextFields
    LimitFields <- MCLimitFields
    ReeDefault <- MCReeDefault
    ReeMax <- MCReeMax
    TaMax <- MCTaMax
    MaxUint32 = 5
    MaxInt32 = 8
    Values = {0, 1, 3, 5}
    PerMs = 3
    FallbackTimeout = 2
    MaxDepth = 8
    Depths = {7, 8, 9}
    Bad = Bad
INVARIANTS ReadAlike WithinLimits
CHECK_DEADLOCK TRUE
