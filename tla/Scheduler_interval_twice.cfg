\* An interval schedule runs twice per interval.
CONSTANTS
    a = a
    b = b
    Schedules = {a}
    Kind <- AllInterval
    Every <- TwoEach
    Policy <- AllSkip
    MaxPerDay <- ManyEach
    Retries <- NoneForA
    Delay <- OneEach
    Multiplier <- TwoEach
    Barred = {}
    Closed <- NeverClosed
    DayLength = 10
    None = None
    Throws = FALSE
    MaxTicks = 1
    MaxRuns = 3
    MaxTime = 6
    MaxRestarts = 0
SPECIFICATION Spec
INVARIANT IntervalApart
CHECK_DEADLOCK FALSE
