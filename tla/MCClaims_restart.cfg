SPECIFICATION Spec
CONSTANTS
    Moves = {m1, m2}
    Runs = {r1, r2}
    Others = {o1}
    Lookback = 2
    MaxDay = 2
    Manual = FALSE
    Faults = TRUE
    LedgerFaults = FALSE
    DownFaults = TRUE
CHECK_DEADLOCK FALSE
SYMMETRY Symmetry
INVARIANTS
    IInv
    NoMoveLost
    LedgerCoversCursor
