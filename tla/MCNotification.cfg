SPECIFICATION Spec
CONSTANTS
    d1 = d1
    d2 = d2
    d3 = d3
    i1 = i1
    i2 = i2
    i3 = i3
    r1 = r1
    t1 = t1
    t2 = t2
    u1 = u1
    u2 = u2
    NoDraft = NoDraft
    NoWalk = NoWalk
    NoRow = NoRow
    NoUser = NoUser
    NoId = NoId
    Tenants = {t1, t2}
    Users = {u1, u2}
    Ids = {i1, i2, i3}
    Channels = {1}
    Dispatches = {d1, d2, d3}
    Readers = {r1}
    Limits = {0, 3}
    Sinces = {0, 2}
    Untils = {0}
    DefaultLimit = 1
    MaxLimit = 2
    Faulty = TRUE
    MaxTime = 2
    MaxEvents = 3
SYMMETRY Symmetric
CHECK_DEADLOCK FALSE
INVARIANTS
    TypeOK
    DispatchIsTruthful
    WalkIsComplete
