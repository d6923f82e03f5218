SPECIFICATION Spec
CONSTANTS
    Connects = {c1, c2}
    Verifies = {v1}
    Fetches = {f1, f2}
    Kinds = {local_vault}
    Lockable = {local_vault}
    Items = {item, missing, vague}
    Exact = {item, missing}
    Resolving = {item}
    Services = {github, cloudflare}
    Accounts = {work}
    Absent = Absent
CHECK_DEADLOCK FALSE
INVARIANTS
    TypeOK
    ConnectedAsAsked
    WaitersAreAccounted
PROPERTIES
    FetchIsAnswered
