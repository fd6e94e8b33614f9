SPECIFICATION Spec
CONSTANTS
    c1 = c1
    c2 = c2
    t1 = t1
    t2 = t2
    n1 = n1
    n2 = n2
    i1 = i1
    i2 = i2
    p1 = p1
    NoUser = NoUser
    NoTenant = NoTenant
    NoPass = NoPass
    NoId = NoId
    NoName = NoName
    NoRequest = NoRequest
    Keep = Keep
    Tenants = {t1, t2}
    Names = {n1, n2}
    Passwords = {p1}
    Ids = {i1, i2}
    IdOf <- Colons
    Requests = {c1, c2}
    Bodies <- SomeBodies
    Env = {"failure", "tenants"}
    MaxCalls = 3
SYMMETRY Symmetric
CHECK_DEADLOCK FALSE
INVARIANTS
    TypeOK
    RefusedLeavesNothing
PROPERTIES
    TenantsAreApart
    CredentialOwnersAreSafe
    UsersOfKnownTenants
