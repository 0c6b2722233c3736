SPECIFICATION Spec
CONSTANTS
    Conns = {c1, c2}
    Keys = {k1, k2, k3, k4}
    NoKey = NoKey
    MaxAttempts = 2
    Window = 2
    Threshold = 2
    BanDuration = 1
    MaxBuckets = 1
    MaxTime = 8
SYMMETRY Symmetry
INVARIANTS
    RateKept
    TableBounded
PROPERTIES
    BanHonoured
    BanEarned
