SPECIFICATION Spec
CONSTANTS
    p1 = p1
    p2 = p2
    b1 = b1
    w1 = w1
    Procs = {p1}
    Browsers = {b1}
    Users = {u1, u2}
    Sids = {s1, s2}
    Workers = {w1, w2}
    None = None
    Home <- OneHome
    ProcOf <- OneProcOf
    TwoFactorUsers = {}
    MaxPassword = 0
    ListenerLossy = TRUE
    LookupsFail = TRUE
SYMMETRY OneSymmetry
INVARIANTS
    RegistryOwnsSession
