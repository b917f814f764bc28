CONSTANTS
    Members = {a, m}
    MaxRetries = 2
    Users = {a}
    Untagged = untagged
    MaxGap = 1
    Horizon = 3
    MaxLate = 2
SPECIFICATION FleetSpec
INVARIANT RunningJobIsNotOverdue
