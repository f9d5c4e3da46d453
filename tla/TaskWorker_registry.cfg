\* Reads and writes of one project, keys and budgets: the lock registry.
CONSTANTS
    p1 = p1
    p2 = p2
    k1 = k1
    Projects = {p1}
    Unclassified = unclassified
    Environments = {"local", "staging"}
    DefaultEnv = "local"
    Keys = {k1}
    NoKey = NoKey
    Phantom = phantom
    None = None
    NoProfile = NoProfile
    Concurrency = 2
    MaxTasks = 3
    MaxApprovals = 1
    MaxRestarts = 1
    Requests <- LockRequests
    MaxWrite <- TwoWrites
    Exhaustible <- WriteBudgets
    NoBudget <- NoBudgets
SPECIFICATION Spec
INVARIANT
    RegistryExclusive
PROPERTY
    LockKept
CHECK_DEADLOCK FALSE
