SPECIFICATION Spec
CONSTANTS
    Requests = {r1, r2, r3, r4}
    Browsers = {b1, b2}
    Old = Old
    None = None
    Steps = {1, 2}
    MaxCount = 1
SYMMETRY Symmetry
CHECK_DEADLOCK FALSE
INVARIANTS
    TypeOK
    ProofUsedOnce
    EnabledSecretIsProven
    EnabledHasCodes
PROPERTY
    CounterNeverFalls
