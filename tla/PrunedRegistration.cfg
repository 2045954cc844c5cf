SPECIFICATION Spec
CONSTANTS
    Chains = {c1, c2}
    NoChain = NoChain
    Requests = {r1, r2}
    MaxNonce = 1
    MaxExpiries = 1
    MaxFaults = 1
CHECK_DEADLOCK FALSE
INVARIANT RegisteredIsWatched
