\* Runs with large inputs and tool results, on each of the three providers.
SPECIFICATION Spec
CONSTANTS
    Providers = {"litellm", "openai", "anthropic"}
    Responses <- SomeResponses
    InputChars = {400, 180000, 356000}
    ResultChars = {100, 1500, 120000}
    SummaryChars = {4000}
    Budget = 100000
    ProtectedHead = 1
    ProtectedTail = 2
    MaxRuns = 2
    MaxCalls = 3
INVARIANTS TypeOK BudgetKept RequestPaired CallIntact
