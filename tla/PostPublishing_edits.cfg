SPECIFICATION FairSpec
CONSTANTS
    None = None
    Requests = {r1, r2, r3}
    Sweepers = {p1, p2}
    Tags = {a}
    Edits <- Everything
    Schedules = {"none", "future"}
    MaxTags = 1
    StatementsFail = TRUE
INVARIANT
    TypeOK
PROPERTIES
    LivePostKeepsItsDate
    PublicationIsAnnounced
