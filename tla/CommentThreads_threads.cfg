SPECIFICATION Spec
CONSTANTS
    None = None
    Requests = {r1, r2}
    Users = {a, b}
    PostAuthor = a
    MaxComments = 3
    Hideable = {2}
SYMMETRY RequestSymmetry
INVARIANT
    TypeOK
PROPERTIES
    RepliesSurviveDeletion
    DeletionStands
    ErasureIsWhole
CHECK_DEADLOCK FALSE
