SPECIFICATION AllSpec
CONSTANTS
    Users = {u1, u2}
    Emails = {e1, e2}
    Teams = {t1, t2}
    Requests = {r1, r2, r3}
    Setup = setup
    None = none
    Attempts = 2
    Failures = TRUE
    Tenants = {a, b}
    Tokens = {k1}
    Calls = {c1, c2, c3}
    Nobody = nobody
    CallsMayFail = TRUE
CHECK_DEADLOCK FALSE
SYMMETRY Symmetry
INVARIANTS
    AllTypeOK
    ProfilesHoldTheirClaims
    NothingIsLeftBehind
    LinkMintsOnePasskey
PROPERTIES
    OneRowPerToken
    ImplementsUserStore
