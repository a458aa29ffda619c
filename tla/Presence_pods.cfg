SPECIFICATION FairSpec
CONSTANTS
    Pods = {p1, p2}
    Users = {u1}
    Beats = 2
    RedisFails = TRUE
    PodsCrash = TRUE
INVARIANT
    TypeOK
PROPERTIES
    TrackedUserIsShown
    UnknownUserExpires
