SPECIFICATION Spec
CONSTANTS
    Missing = Missing
    Patterns = {"*"}
    Mode = "balanced"
    Agents = {"agent"}
    Names <- MCNames
    Identities = {"work"}
    ServiceOf <- MCIdentityService
    EnvironmentOf <- MCEnvironmentOf
    Calls <- MCCalls
    DeviceUntrusted = FALSE
    LeaseDuration = 1
    TaskRequestLimit = 2
    MemoryTTL = 1
    MemoryLimit = 3
    LeaseLimit = 1
    Submitted = {"deny", "allow_until_task_end", "auto_allow_in_project", "always_ask"}
    MaxRequests = 2
    MaxEvents = 1
INVARIANTS TypeOK ConsentOrHarmless AlwaysAskWins LearningIsTraceable
CHECK_DEADLOCK FALSE
