SPECIFICATION Spec
CONSTANTS
    None = None
    Queries = {q1, q2}
    a = a
    b = b
    Questions = {a, b}
    Inverse = {}
    TTLs <- ShortAndLong
    CacheMaxAge = 1
    TicksPerSecond = 2
    MaxTime = 5
    MaxVer = 1
    Offsets <- InStep
SYMMETRY Symmetric
PROPERTIES FreshHits
