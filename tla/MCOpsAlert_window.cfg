SPECIFICATION Spec
CONSTANTS
    Keys = {k1, k2}
    MaxRuns = 5
    MaxCopies = 1
    MaxTries = 1
    Window = 4
    MaxMishaps = 0
    Serial = TRUE
    InOrder = TRUE
CHECK_DEADLOCK FALSE
SYMMETRY Symmetry
INVARIANTS
    ThirdFailureEscalates
