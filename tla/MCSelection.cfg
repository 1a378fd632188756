CONSTANTS
    c1 = c1
    c2 = c2
    v1 = v1
    v2 = v2
    m1 = m1
    r1 = r1
    r2 = r2
    None = None
    Clients = {c1, c2}
    Providers = {v1, v2}
    Models = {m1}
    Readers = {r1, r2}
    MaxCopies = 2
    Window = 2
    MaxTime = 4
    PickAuths <- MCPair
    PickSnapshots <- MCHolds
    PickTime = 2
    TurnAuths <- MCTriple
    TurnSnapshots <- MCRotation
    TurnTime = 1
    Routes <- MCRoutes
    Mixed <- MCMixed
    Parts = {"registry", "picks", "turns"}
SPECIFICATION MCSpec
CONSTRAINT MCTurning
SYMMETRY MCSymmetry
INVARIANTS
    CountsExact
    CacheFresh
    IndexesConsistent
    PickIsBest
    FairTurns
