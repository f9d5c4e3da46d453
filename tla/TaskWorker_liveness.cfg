\* Approvals, cancels and retries under fair timers.
CONSTANTS
    p1 = p1
    p2 = p2
    k1 = k1
    Projects = {p1}
    Unclassified = unclassified
    Environments = {"local"}
    DefaultEnv = "local"
    Keys = {}
    NoKey = NoKey
    Phantom = phantom
    None = None
    NoProfile = NoProfile
    Concurrency = 2
    MaxTasks = 3
    MaxApprovals = 3
    MaxRestarts = 0
    Requests <- RiskyRequests
    MaxWrite <- OneWrite
    Exhaustible <- NoBudgets
    NoBudget <- NoBudgets
SPECIFICATION FairSpec
PROPERTIES
    EveryTaskEnds
    LocksReturn
CHECK_DEADLOCK FALSE
