SPECIFICATION MCSpec
CONSTANTS
    s1 = s1
    NoStats = NoStats
    NoUser = NoUser
    Ids = {1, 2, 3, 4, 5}
    PageSize = 2
    MaxChanges = 2
    MaxFailures = 1
    PostIds = {"p1", "p2"}
    PostBounds <- SomePostBounds
    Words = {"w1", "w2"}
    MaxSaves = 2
    Devices = {s1}
    MaxEntries = 1
    Peers = {"u1", "u2"}
    TalkBounds <- SomeTalkBounds
    Reports = {"r1", "r2"}
    Content = {"c1"}
    Reported = {"u1"}
    MaxOthers = 1
    Notes = {"n1", "n2"}
    People = {"u1", "u2"}
    Bios = {"t1"}
    Questions = {"q1", "q2"}
    Drafts = {"d1", "d2"}
    Names = {"n1"}
    Addresses = {"a1", "a2"}
    MaxMails = 2
    MaxBuilds = 2
    MaxPuts = 2
    MaxLogouts = 2
    Bases <- SomeBases
    MaxHeadings = 4
    PressesOf <- SomePresses
    AsksOf <- SomeAsks
    MovesOf <- SomeMoves
CHECK_DEADLOCK FALSE
INVARIANTS
    PagesTypeOK
    NothingMissedOrTwice
    EveryRowOnce
    SettledPagesAreRight
    ProofsAreCurrent
PROPERTIES
    LateAnswersUndoNothing
    RendersLandInOrder
    CachesAreRight
