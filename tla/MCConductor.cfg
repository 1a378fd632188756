CONSTANTS
    r1 = r1
    r2 = r2
    u1 = u1
    Auths = {a1}
    Requests = {r1, r2}
    Updaters = {u1}
    MaxResults = 1
    Absent = Absent
    Idle = Idle
SPECIFICATION Spec
SYMMETRY MCSymmetry
INVARIANTS
    TypeOK
    CountsKept
    RegistryFollowsMap
    AgreeWithoutOverlap
    RemovedIsNotOffered
