\* A read task that ends clears the lock of a write task.
CONSTANTS
    p1 = p1
    p2 = p2
    k1 = k1
    Projects = {p1}
    Unclassified = unclassified
    Environments = {"local"}
    DefaultEnv = "local"
    Keys = {}
    NoKey = NoKey
    Phantom = phantom
    None = None
    NoProfile = NoProfile
    Concurrency = 2
    MaxTasks = 3
    MaxApprovals = 2
    MaxRestarts = 1
    Requests <- ReadRequests
    MaxWrite <- TwoWrites
    Exhaustible <- NoBudgets
    NoBudget <- NoBudgets
SPECIFICATION Spec
INVARIANT OneWriteAlways
CHECK_DEADLOCK FALSE
