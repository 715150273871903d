SPECIFICATION Spec
CONSTANTS
    p = p
    q = q
    Reqs = {p, q}
    Plans <- MCPlans
INVARIANTS
    CountedOnce
    SafeToRetry
    QuietOnceOut
    EndpointOfToken
    DrainWaits
CHECK_DEADLOCK FALSE
