SPECIFICATION AgentSpec
CONSTANTS
    MaxSteps = 2
    MaxCalls = 2
    InboxCap = 1
    HistoryCap = 6
INVARIANT CancelHeard
