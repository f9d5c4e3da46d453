CONSTANTS
    Tokens = {"t1", "t2"}
    CsrfTokens = {"k1", "k2"}
    Calls = {"c1", "c2"}
    Ops = {"proposal_accept", "remember"}
    Proposals = {"p", "q"}
    MaxRestarts = 1
    Runs = {"r1", "r2"}
    MaxAgentRuns = 3
    Flags = {"lesson_proposal_created", "fallback_used"}
    MaxFeedback = 2
    TTL = 3
    Window = 1
    MaxSeen = 1
    MaxTime = 3
    Tasks = {"t", "u"}
    Connections = {"a", "b", "c", "d"}
    MaxSchedules = 2
    MaxRows = 3
    MaxRuns = 1
    Queries = {"tla", "cron"}
    Types = {"", "skill"}
    Refs = {"x", "y"}
    Keys = {"status", "stats"}
    Refreshes = {"f", "g"}
    MaxVersion = 2
    HourMinutes = 4
    DayHours = 2
    MonthDays = 3
    Months = 2
    WeekDays = 3
    Spring = 4
    Autumn = 12
    Horizon = 56
    Bases = {0, 3, 6, 7, 9, 11, 14, 20}
    CacheTTL = 2
    MaxClock = 3
    MaxChanges = 2
    Limit = 50
    BudgetPercent = 5
    Medians = {10, 12, 13}
    Regression = 20
    DayTicks = 2
    DaysOfWeek = 2
    Hosts = {0, 1}
    Estimate = 1
    MaxUse = 2
    Slots = 2
    BudgetHorizon = 5
    MaxLives = 2
    MaxRequests <- OneOfEach
    Kind <- FourKinds
    Component <- TwoComponents
    Measured <- FewMeasured
    Daily <- SmallDay
    Weekly <- SmallWeek
    Expressions <- Questions
SPECIFICATION FrontSpec
INVARIANT WeekdaysOnly
