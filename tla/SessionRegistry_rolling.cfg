SPECIFICATION FairSpec
CONSTANTS
    p1 = p1
    p2 = p2
    b1 = b1
    w1 = w1
    Procs = {p1, p2}
    Browsers = {b1}
    Users = {u1}
    Sids = {s1, s2}
    Workers = {w1, w2}
    None = None
    Home <- TwoHome
    ProcOf <- TwoProcOf
    TwoFactorUsers = {u1}
    MaxPassword = 1
    ListenerLossy = FALSE
    LookupsFail = TRUE
INVARIANT
    RevocationReachesSession
PROPERTY
    RevocationSettles
