SPECIFICATION JobsSpec
CONSTANTS
    Parts = {"launch", "grade", "alerts", "pickups", "apply", "capture", "gate", "optimizer", "tally",
             "snapshots"}
    Tenants = {a, m}
    Admins = {a}
    Default = m
    Bearer = token
    OwnJobs = {"optimize"}
    LeagueJobs = {"claims"}
    Slots = {k1, k2}
    Calls = {q1, q2}
    MaxJobDuration = 0
    RunsLimit = 1
    Systems = {s1, s2}
    Window = 1
    MaxWindow = 3
    HandRanges <- MCHandRanges
    MaxDays = 4
    Sites = {"start", "trade", "apply", "cache"}
    AlertRuns = {r1, r2}
    Texts = {x, y}
    Event = event
    Unpriced = unpriced
    Absent = absent
    Cleared = cleared
    TradeWindow = 2
    MaxDay = 4
    l1 = l1
    l2 = l2
    d1 = d1
    Leagues = {l1, l2}
    Players = {p1}
    Drops = {d1}
    LeagueOf <- MCLeagueOf
    MayBeLong = {p1}
    FeedTTL = 1
    Overlap = 1
    WeeksBack = 0
    MaxClock = 3
    MaxFaults = 1
    Squad = {p, q, r}
    Active = {s, t}
    Cap <- MCCap
    Bench = bench
    Keep = keep
    NoCopy = nocopy
    Scored = {c1}
    Captures = {r1, r2, r3}
    Values = {u, v}
    Points = {100, 105}
    Estimates = {108, 120}
    MaxToday = 2
    MaxFuture = 2
    MaxHalves = 3
    MaxStarts = 2
    SpotLists <- MCSpotLists
    Hitters <- MCHitters
    Pitchers <- MCPitchers
    Reserve = reserve
    PoolSize = 3
    Arms = {x1, x2}
    PeriodDays = 3
    Totals = {0, 2}
    GSMax = 1
    SnapDays = 2
    Walks = {w1, w2}
    recentPeriodLookback = 2
    SettlingDays = 1
    MaxPeriod = 4
CHECK_DEADLOCK FALSE
SYMMETRY Symmetry
INVARIANTS
    JobsTypeOK
    OverlapsWereBlind
    NothingIsForgotten
    AlertsHadCause
    RepeatsOnlyUnmarked
    RetryKeepsItsWord
    CacheAgrees
    StartsAreWellSpent
    LineupIsBest
    TallyIsExplained
PROPERTIES
    NothingIsPassedOver
    BystandersStay
    LockedRowsSurvive
    PastDaysStayFinal
