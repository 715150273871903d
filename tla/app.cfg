SPECIFICATION FairSpec
CONSTANTS
    a = a
    u = u
    v = v
    Bots = {a}
    Upstreams = {u, v}
    MaxTokens = 12
    Files <- MCFiles
    Bad = Bad
    Queue = 1
    Budgets <- MCBudgets
INVARIANTS
    OnePoller
    LogoutQuiet
    RunsAsConfigured
    FailedForGood
PROPERTIES
    SignalCovered
