SPECIFICATION Spec
CONSTANTS
    None = None
    Requests = {r1, r2}
    Users = {a, b}
    PostAuthor = a
    MaxComments = 3
    Hideable = {2}
SYMMETRY RequestSymmetry
PROPERTY
    OthersRepliesSurvive
CHECK_DEADLOCK FALSE
