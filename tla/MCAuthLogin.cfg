SPECIFICATION Spec
CONSTANTS
    c1 = c1
    c2 = c2
    i1 = i1
    i2 = i2
    u1 = u1
    u2 = u2
    p1 = p1
    p2 = p2
    NoAccount = NoAccount
    NoPass = NoPass
    NoRow = NoRow
    NoId = NoId
    NoUser = NoUser
    Users = {u1, u2}
    Passwords = {p1, p2}
    Ids = {i1, i2}
    Requests = {c1, c2}
    TTL = 1
    Slots = 1
    Env = {"failure", "account"}
    MaxTime = 0
    MaxCalls = 2
SYMMETRY Symmetric
CHECK_DEADLOCK FALSE
INVARIANTS
    TypeOK
    ReservationsAreInFlight
PROPERTIES
    SessionsComeFromLogins
