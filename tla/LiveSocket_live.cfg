SPECIFICATION MCSpec
CONSTANTS
    a = a
    b = b
    Users = {a, b}
    TwoFactor = {b}
    MaxPresses = 2
    MaxAsks = 2
    MayFail = TRUE
    MaxFailures = 2
    MaxTimers = 1
CHECK_DEADLOCK FALSE
INVARIANT
    SocketFollowsPage
PROPERTIES
    PrivateNeedsUser
    LiveOrGivenUp
