SPECIFICATION Spec
CONSTANTS
    None = None
    Infinity = Infinity
    Callers = {"c1", "c2"}
    Admins = {"a1", "a2"}
    Values = {1, 5}
    Updates <- OneSided
    Default <- DefaultClamps
    Limit = 2
    RateWindow = 2
    Threshold = 2
    BlockWindow = 1
    MaxClock = 4
    MaxPerTick = 2
    FreshFor = 2
    ExpiredAfter = 4
    ConflictFor = 4
    HealFor = 1
    MaxTime = 5
    Probes = {"p1", "p2", "p3"}
    HistoryLimit = 2
    Recent = 2
    Entries <- Posts
    Endpoints = {"relay", "settle", "verify"}
    Tokens = {"STX", "sBTC"}
    DayHours = 2
    MaxHour = 4
    MaxEntries = 3
    SenderCount = 4
    MaxSweep = 2
    Submissions = {"s1", "s2"}
    Hooks = {"h1"}
    MaxNonce = 1
INVARIANTS TypeOK StoredIsValid TwiceTheLimitAtMost BlockedForRecent
INVARIANTS CanSponsorIsBacked StatusFollowsChecks OverviewCountsAll BreakdownsAddUp
INVARIANT RefusalsTruthful
PROPERTIES ClampsTakeEffect GoesRoundUnaligned
CHECK_DEADLOCK FALSE
