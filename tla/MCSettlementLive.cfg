SPECIFICATION FairSpec
CONSTANTS
    r1 = r1
    r2 = r2
    s1 = s1
    s2 = s2
    Requests = {r1, r2}
    Settlers = {s1}
    NoRequest = NoRequest
    Submitted = {"allow_once"}
    RiskLevels = {"low"}
    ApprovalTimeout = 1
    WindowLength = 2
    SweepBatch = 2
    MaxTime = 1
    MaxFailures = 1
PROPERTIES
    OverdueIsClosed
CHECK_DEADLOCK FALSE
