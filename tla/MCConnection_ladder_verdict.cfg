SPECIFICATION Spec
CONSTANTS
    Requests = {r1}
    Runs = {l1}
    OldCreds = old
    NoCreds = none
    PutAttempts = 2
    MaxDeletes = 0
    Faults = FALSE
CHECK_DEADLOCK FALSE
INVARIANTS
    VerdictIsAboutStoredCreds
