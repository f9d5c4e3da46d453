\* Two events on an internal and an external channel, two dispatches that
\* overlap and a crash of the worker.
CONSTANTS
    k1 = k1
    k2 = k2
    Keys = {k1, k2}
    Expiring = {k2}
    Dispatches = {d1, d2}
    MaxAttempts = 2
    BatchLimit = 2
    MaxRestarts = 1
    Inputs <- TwoEvents
SPECIFICATION Spec
INVARIANT
    SendingAccounted
    AttemptsBounded
    TwiceOnlyByOverlap
PROPERTY
    
    EveryNoticeSettles
CHECK_DEADLOCK FALSE
