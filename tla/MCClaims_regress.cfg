SPECIFICATION Spec
CONSTANTS
    Moves = {}
    Runs = {r1}
    Others = {o1}
    Lookback = 3
    MaxDay = 1
    Manual = FALSE
    Faults = FALSE
    LedgerFaults = FALSE
    DownFaults = FALSE
CHECK_DEADLOCK FALSE
PROPERTIES
    CursorNeverRegresses
