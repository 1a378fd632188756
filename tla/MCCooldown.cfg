SPECIFICATION Spec
CONSTANTS
    m1 = m1
    m2 = m2
    Models = {m1, m2}
    NoModel = NoModel
    QuotaBase = 1
    QuotaMax = 3
    CloudflareMin = 2
    RetryAfter = 2
    Transient = 1
    HalfHour = 2
    HalfDay = 3
    Results <- MCTwoModels
    MaxTime = 3
SYMMETRY MCSymmetry
INVARIANTS
    HoldsAreOnFile
    LadderTakesTime
