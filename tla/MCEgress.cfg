SPECIFICATION Spec
CONSTANTS
    Calls = {c1, c2}
    Agents <- MCAgents
    Targets <- MCTargets
    Leases <- MCLeases
    Scope <- MCScope
    Limit <- MCLimit
    ActiveLimit = 2
    Horizon = 1
    MaxRetries = 1
    Custom <- MCCustom
    CustomBase <- MCCustomBase
    Blank <- MCBlank
    Dotted <- MCDotted
    Cutting <- MCCutting
SYMMETRY MCSymmetry
INVARIANTS
    TypeOK
    SentIsPaidFor
    SentAtMostOnce
    BookedAsHappened
CHECK_DEADLOCK FALSE
