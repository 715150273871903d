SPECIFICATION MCSpec
CONSTANTS
    h1 = h1  c1 = c1  c2 = c2  p1 = p1
    NoHolder = NoHolder  NoKey = NoKey  NoDeadline = NoDeadline
    Producers = {p1}
    Holders = {h1}
    Keys = {}
    AckIds = {1}
    Offsets = {}
    Sizes = {1}
    Configs <- MCConfigs
    MaxInstant = 2
    MaxSeq = 1
    MaxBatch = 1
    MaxOwed = 1
    Polls = {c1, c2}
    Requests <- MCRequests
    NoInteger = NoInteger  NoInstance = NoInstance
    MaxLimit = 2
    MaxTimeout = 2
    DrainHold = 1
INVARIANTS NoLostWakeup
PROPERTIES PollAnswered
