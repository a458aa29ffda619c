SPECIFICATION Spec
CONSTANTS
    u1 = u1
    None = None
    Conns = {c1, c2, c3}
    Users = {u1}
    Sids = {s1, s2}
    Posts = {p1}
    OwnerOf <- OneUser
    LoopOf <- ManyLoops
    MaxPerUser = 2
    MaxPerSession = 2
    MaxPosts = 1
SYMMETRY Symmetry
CHECK_DEADLOCK FALSE
INVARIANTS
    TypeOK
    IndexesAgree
    RevokedSocketIsCut
