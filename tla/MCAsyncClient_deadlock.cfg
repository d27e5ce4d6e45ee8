SPECIFICATION Spec
CONSTANTS
    s1 = s1
    s2 = s2
    s3 = s3
    i1 = i1
    i2 = i2
    a1 = a1
    a2 = a2
    NoId = NoId
    NoSession = NoSession
    Free = Free
    Sessions <- ThreeSessions
    Ids <- TwoIds
    Callers <- TwoCallers
    Threads = 2
    MaxCancels = 2
CHECK_DEADLOCK FALSE
INVARIANT CancelNeverDeadlocks
