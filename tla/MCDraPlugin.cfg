SPECIFICATION Spec
CONSTANTS
    u1 = u1
    u2 = u2
    n1 = n1
    n2 = n2
    d1 = d1
    d2 = d2
    Claims = {u1, u2}
    Names = {n1, n2}
    Devices = {d1, d2}
    Cpus = {d1, d2}
    Numa <- MCNuma
    Strict = TRUE
    MaxFaults = 1
INVARIANT Exclusive
INVARIANT DevicesNotShared
INVARIANT PinnedToOwnClaim
INVARIANT RefusedForCause
SYMMETRY AnyOrder
