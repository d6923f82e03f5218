SPECIFICATION Spec
CONSTANTS
    Entries = {"e1", "e2", "e3"}
    AgentOf <- MCAgentOf
    ServiceOf <- MCServiceOf
    PageLimit = 1
    MaxTime = 2
INVARIANT PagesShowEverything
CHECK_DEADLOCK FALSE
