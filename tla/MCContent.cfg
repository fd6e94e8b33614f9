SPECIFICATION Spec
CONSTANTS
    c1 = c1
    c2 = c2
    t1 = t1
    t2 = t2
    a1 = a1
    a2 = a2
    p1 = p1
    p2 = p2
    i1 = i1
    i2 = i2
    NoRow = NoRow
    NoTenant = NoTenant
    NoSubject = NoSubject
    NoPath = NoPath
    NoId = NoId
    Tenants = {t1, t2}
    Subjects = {a1, a2}
    Paths = {p1, p2}
    Ids = {i1, i2}
    IdsOf <- AnyId
    Requests = {c1, c2}
    Faulty = TRUE
    MaxCalls = 4
SYMMETRY Symmetric
CHECK_DEADLOCK FALSE
INVARIANTS
    TypeOK
    AuthorIsCreator
    DeletedOnce
PROPERTY
    PublicationIsKept
