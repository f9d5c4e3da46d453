\* Writes of two projects, two at a time: the one-write-per-project rule.
CONSTANTS
    p1 = p1
    p2 = p2
    k1 = k1
    Projects = {p1, p2}
    Unclassified = unclassified
    Environments = {"local", "staging"}
    DefaultEnv = "local"
    Keys = {}
    NoKey = NoKey
    Phantom = phantom
    None = None
    NoProfile = NoProfile
    Concurrency = 2
    MaxTasks = 3
    MaxApprovals = 2
    MaxRestarts = 1
    Requests <- WriteRequests
    MaxWrite <- TwoWrites
    Exhaustible <- NoBudgets
    NoBudget <- NoBudgets
SPECIFICATION Spec
INVARIANT OneWritePerProject
PROPERTY ImplementsLifecycle
CHECK_DEADLOCK FALSE
