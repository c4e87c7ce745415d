\* One instance of every part around the queue.
SPECIFICATION Spec
CONSTANTS
    SettleGrace = 1
    ExitGrace = 2
    TotalTimeout = 5
    MaxOutputs = 2
    a = a
    b = b
    c = c
    Commits = {a, b, c}
    Descends <- TwoBranches
    origin = origin
    other = other
    Urls = {origin, other}
    Root = a
    Origin = origin
    NoCommit = NoCommit
    Snapshotters = {"s1", "s2"}
    Callers = {"c1"}
    ProbeTtl = 0
    MaxStatusClock = 1
    Viewers = {"v1", "v2"}
    RefreshTime = 1
    MaxQuotaClock = 2
    MaxInstances = 2
    MaxEvents = 3
    MaxStarted = 4
    MaxClicks = 2
    MaxLosses = 1
    plain = plain
    costly = costly
    profile = profile
    Drafts = {plain, costly}
    NeedsCustom = {costly}
    ProfileOf <- OneProfile
    Secrets = {"k1", "k2", "blank"}
    Blank = "blank"
    None = None
INVARIANTS
    TypeOK
    AnsweredInTimeCompletes
    NoEarlyKill
    OneRouteAtATime
    FallbackJustified
    AnswerOfRouteUsed
    StatusCurrent
    FailureMarksStale
    NoStrayAfterStop
    NeverDoubled
    StrangersSpared
    OneOfEach
    StopLeavesNothingBehind
    FailedApplyRestores
    SettingsUsable
PROPERTIES
    RunEnds
    DriftNeverOverwritten
    ReplyTellsTheTruth
CHECK_DEADLOCK FALSE
