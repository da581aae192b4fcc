\* One page whose sockets come and go, with one sub-agent at a time.
SPECIFICATION FairSpec
CONSTANTS
    MaxSockets = 4
    MaxRequests = 2
    MaxCalls = 1
    MaxFailures = 1
    Prompts <- SomePrompts
    Callers = {1, 2, 3, 4}
    MaxSubagents = 1
    MaxChars = 1
    DeltaSizes = {1}
    Workspaces = {"software-engineer", "ai-educator"}
    SkillsOf <- Skills
    Tools = {"route_to_agent", "vault_read"}
INVARIANTS TypeOK RequestsAccounted OneSocket
PROPERTIES Reconnects RequestsSettle
