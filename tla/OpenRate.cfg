CONSTANTS
    Keys = {k1}
    Nonces = {n1, n2, n3, n4}
    Requests = {r1, r2}
    NoKey = NoKey
    Window = 1
    Keep = 1
    Unit = 1
    Rate = 1
    Burst = 2
    MaxTime = 1
SPECIFICATION OpenSpec
INVARIANT RateHolds
SYMMETRY Symmetry
