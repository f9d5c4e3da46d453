\* Overlapping ticks, throwing task creation and a restart.
CONSTANTS
    a = a
    b = b
    Schedules = {a, b}
    Kind <- IntervalAndCron
    Every <- OneEach
    Policy <- SkipAndReplace
    MaxPerDay <- OneEach
    Retries <- NoneForA
    Delay <- OneEach
    Multiplier <- TwoEach
    Barred = {}
    Closed <- NeverClosed
    DayLength = 4
    None = None
    Throws = TRUE
    MaxTicks = 2
    MaxRuns = 3
    MaxTime = 1
    MaxRestarts = 1
SPECIFICATION Spec
INVARIANTS
    SchedulerTypeOK
    OneRunUnderWay
    RunsOwned
    CounterCountsRuns
PROPERTY NothingUndone
CHECK_DEADLOCK FALSE
