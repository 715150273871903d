SPECIFICATION MCSpec
CONSTANTS
    k1 = k1  k2 = k2  h1 = h1  h2 = h2  p1 = p1  p2 = p2  p3 = p3
    NoHolder = NoHolder  NoKey = NoKey  NoDeadline = NoDeadline
    Producers = {p1, p2, p3}
    Holders = {h1, h2}
    Keys = {k1, k2}
    AckIds = {1, 2}
    Offsets = {1, 2}
    Sizes = {1, 2}
    Configs <- MCConfigs
    MaxInstant = 1
    MaxSeq = 4
    MaxBatch = 2
    MaxOwed = 1
SYMMETRY MCSymmetry
INVARIANT IndexesAgree
PROPERTIES KeyedLeaseOrder WakeOwed WithinCapacity EvictionSound
