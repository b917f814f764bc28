SPECIFICATION Spec
CONSTANTS
    Requests = {r1, r2}
    Runs = {l1}
    OldCreds = old
    NoCreds = none
    PutAttempts = 2
    MaxDeletes = 0
    Faults = TRUE
CHECK_DEADLOCK FALSE
SYMMETRY Symmetry
INVARIANTS
    IInv
    StampJudgesStoredCreds
PROPERTIES
    ImplementsTenantConnection
