SPECIFICATION Spec
CONSTANTS
    None = None
    Queries = {q1, q2}
    a = a
    b = b
    Questions = {a, b}
    Inverse = {}
    TTLs <- OneOutlives
    CacheMaxAge = 0
    TicksPerSecond = 2
    MaxTime = 3
    MaxVer = 1
    Offsets <- OutOfStep
SYMMETRY SymmetricQuestions
PROPERTIES NewConfiguration
