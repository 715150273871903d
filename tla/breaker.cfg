SPECIFICATION FairSpec
CONSTANTS
    c1 = c1  c2 = c2  c3 = c3
    Callers = {c1, c2, c3}
    Threshold = 2
    OpenFor = 1
    MaxInstant = 2
INVARIANTS ProbeNotLost
PROPERTIES HalfOpenEnds
