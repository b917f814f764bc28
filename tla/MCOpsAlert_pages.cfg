SPECIFICATION Spec
CONSTANTS
    Keys = {k1, k2}
    MaxRuns = 4
    MaxCopies = 2
    MaxTries = 2
    Window = 4
    MaxMishaps = 2
    Serial = FALSE
    InOrder = TRUE
CHECK_DEADLOCK FALSE
SYMMETRY Symmetry
INVARIANTS
    IInv
    MarkedOnlyIfPushed
    OnePushPerTask
    PagesAsCounted
