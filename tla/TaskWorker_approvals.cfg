\* Approvals of reads and writes of one project, across a restart.
CONSTANTS
    p1 = p1
    p2 = p2
    k1 = k1
    Projects = {p1}
    Unclassified = unclassified
    Environments = {"local"}
    DefaultEnv = "local"
    Keys = {}
    NoKey = NoKey
    Phantom = phantom
    None = None
    NoProfile = NoProfile
    Concurrency = 2
    MaxTasks = 3
    MaxApprovals = 2
    MaxRestarts = 1
    Requests <- ApprovalRequests
    MaxWrite <- TwoWrites
    Exhaustible <- NoBudgets
    NoBudget <- NoBudgets
SPECIFICATION Spec
INVARIANTS
    TypeOK
    ApprovalGate
    WaitersMatch
    StoreAgreesWithMap
PROPERTY OutcomesStay
CHECK_DEADLOCK FALSE
