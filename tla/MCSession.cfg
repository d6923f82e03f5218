SPECIFICATION Spec
CONSTANTS
    Runs = {r1, r2}
    Requests = {q1, q2}
    Devices = {laptop}
    Workspaces = {repo}
    Executables = {v1, v2}
    Projects = {p1}
    MaxAgents = 2
    MaxOwner = 1
    CascadeLimit = 1
    Absent = Absent
SYMMETRY MCSymmetry
CHECK_DEADLOCK FALSE
INVARIANTS
    TypeOK
    TrustFollowsTheBinding
    NoOrphanSession
PROPERTIES
    CascadeIsComplete
    DeadKeysStayDead
