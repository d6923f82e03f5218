SPECIFICATION Spec
CONSTANTS
    r1 = r1
    r2 = r2
    s1 = s1
    s2 = s2
    Requests = {r1}
    Settlers = {s1, s2}
    NoRequest = NoRequest
    Submitted = {"deny", "allow_once", "auto_allow_in_project"}
    RiskLevels = {"medium", "high"}
    ApprovalTimeout = 1
    WindowLength = 2
    SweepBatch = 2
    MaxTime = 2
    MaxFailures = 2
SYMMETRY RequestSymmetry
INVARIANTS
    TypeOK
    LedgerAgrees
    EarnedOutcome
    SentIsCovered
    InFlight
PROPERTIES
    ImplementsVerdict
CHECK_DEADLOCK FALSE
