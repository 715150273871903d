SPECIFICATION Spec
CONSTANTS
    a = a
    u = u
    v = v
    Bots = {a}
    Upstreams = {u, v}
    MaxTokens = 12
    Files <- MCFiles
    Bad = Bad
    Queue = 1
    Budgets <- EarlyMove
PROPERTY
    MovesFirst
