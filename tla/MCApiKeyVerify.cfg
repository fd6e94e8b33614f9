SPECIFICATION Spec
CONSTANTS
    x = x
    y = y
    k1 = k1
    k2 = k2
    c1 = c1
    c2 = c2
    NoKey = NoKey
    NoId = NoId
    Never = Never
    Tenants = {"acme", "other"}
    Ids = {k1, k2}
    Secrets = {x, y}
    PrefixOf <- SamePrefix
    TTLs = {0, 1}
    Callers = {c1, c2}
    Faulty = TRUE
    MaxTime = 2
    MaxCalls = 1
SYMMETRY Symmetric
CHECK_DEADLOCK FALSE
INVARIANTS
    TypeOK
    AcceptedKeyWasLive
    RefusedKeyIsDead
    RevokeIsTruthfulWhenRead
    TrailIsTruthful
PROPERTIES
    RevokedOnce
    ImplementsCredentials
