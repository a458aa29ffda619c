SPECIFICATION ShutdownSpec
CONSTANTS
    None = None
    Threads = {t1, t2}
    Jobs = {j1, j2}
    Loose = {m1}
    Capacity = 1
CHECK_DEADLOCK FALSE
INVARIANTS
    ShutdownTypeOK
    AcceptedOnce
    NoJobSleeps
    StopDrains
    JobsMailGoesOut
PROPERTY
    JobsDone
