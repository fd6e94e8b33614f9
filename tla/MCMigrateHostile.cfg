SPECIFICATION Spec
CONSTANTS
    p1 = p1
    p2 = p2
    r1 = r1
    r2 = r2
    r3 = r3
    s1 = s1
    s2 = s2
    t1 = t1
    t2 = t2
    NoRun = NoRun
    NoSession = NoSession
    Procs = {p1, p2}
    Runs = {r1, r2}
    Sessions = {s1, s2, t1, t2}
    Modules = {"user", "tenant"}
    Names = {0, 1, 2, 3}
    Sums = {0, 1, 2, 3}
    ProcOf <- AcrossProcs
    ModuleOf <- SameModule
    PoolOf <- TwoPools
    Releases <- Diverging
    Postgres = TRUE
    Env = {"cancel", "statement", "unlock", "session", "crash", "status"}
    MaxCalls = 1
INVARIANTS
    TypeOK
    AppliedOnce
    LedgerMatchesEffects
    MutualExclusion
