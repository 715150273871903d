SPECIFICATION FairPushSpec
CONSTANTS
    k1 = k1  b1 = b1  b2 = b2  p1 = p1  push = push
    NoHolder = NoHolder  NoKey = NoKey  NoDeadline = NoDeadline
    NoBot = NoBot  NoOptions = NoOptions
    Producers = {p1}
    Holders = {push}
    PushHolder = push
    Keys = {}
    KeyHash <- OneHash
    AckIds = {1}
    Offsets = {1}
    Sizes = {1}
    Configs <- Unordered
    Options <- AgeOptions
    Bots = {}
    MaxInstant = 1
    MaxSeq = 1
    MaxBatch = 1
    MaxOwed = 1
    MaxDelay = 0
    Tokens = {"cancel", "force"}
    MaxLag = 0
    MaxCalls = 1
    MaxEndpoints = 1
    MaxSlots = 2
    CursorPeriod = 2
PROPERTIES StopReturnsLeases DeliveryEnds
