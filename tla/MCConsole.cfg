SPECIFICATION Spec
CONSTANTS
    c1 = c1
    c2 = c2
    l1 = l1
    l2 = l2
    t1 = t1
    Nobody = Nobody
    NoRow = NoRow
    NoLogo = NoLogo
    NoTenant = NoTenant
    NoRequest = NoRequest
    Never = Never
    Modules = {"tenant_management", "user_management", "branding_management", "health_management", "auth_management"}
    Managed = {"tenant_management", "user_management", "branding_management"}
    Base = "/admin"
    StoreFails = TRUE
    Tenants = {t1}
    Logos = {l1, l2}
    Calls = {c1, c2}
    Faulty = TRUE
    PerSecond = 2
    MaxTime = 2
    Paths <- Asked
SYMMETRY Symmetric
CHECK_DEADLOCK FALSE
INVARIANTS
    TypeOK
    LogoIsCurrent
    RailIsRight
PROPERTIES
    SetupIsFinal
    NotGivenIsKept
