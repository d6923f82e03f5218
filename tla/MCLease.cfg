SPECIFICATION Spec
CONSTANTS
    l1 = l1
    l2 = l2
    c1 = c1
    c2 = c2
    Leases <- TwoLeases
    Callers <- TwoCallers
    NoLease = NoLease
    Limits = {0, 2}
    Covers <- AllCovered
    SweepLimit = 2
    MaxTime = 2
    MaxUses = 1
    MaxCrashes = 1
INVARIANTS
    TypeOK
    ServedWithinLimit
    InFlight
    ClosedForTheRecordedReason
PROPERTY ImplementsGrant
CHECK_DEADLOCK FALSE
