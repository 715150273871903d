SPECIFICATION MCSpec
CONSTANTS
    k1 = k1  b1 = b1  b2 = b2  p1 = p1  push = push
    NoHolder = NoHolder  NoKey = NoKey  NoDeadline = NoDeadline
    NoBot = NoBot  NoOptions = NoOptions
    Producers = {p1}
    Holders = {push}
    PushHolder = push
    Keys = {k1}
    KeyHash <- OneHash
    AckIds = {1}
    Offsets = {1}
    Sizes = {1}
    Configs <- Families
    Options <- MCOptions
    Bots = {b1, b2}
    MaxInstant = 1
    MaxSeq = 2
    MaxBatch = 1
    MaxOwed = 1
    MaxDelay = 1
    Tokens = {"cancel", "force", "kill"}
    MaxLag = 0
    MaxCalls = 2
    MaxEndpoints = 1
    MaxSlots = 3
    CursorPeriod = 2
INVARIANTS ProbeUnderWay TaskAwake LeasesDelivered SentInOrder
PROPERTIES ReplyBoundToOwner
