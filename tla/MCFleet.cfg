CONSTANTS
    Members = {a, m}
    MaxRetries = 2
    Users = {a}
    Untagged = untagged
    MaxGap = 1
    Horizon = 2
    MaxLate = 1
SPECIFICATION FleetSpec
INVARIANTS
    FleetTypeOK
    EveryTenantIsAccounted
    OneAlertPerOutage
PROPERTY DarkJobIsTold
