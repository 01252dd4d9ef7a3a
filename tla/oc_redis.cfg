SPECIFICATION Spec
CONSTANTS
    MaxJobs = 1
    MaxAttempts = 2
    JobTTL = 0
    MaxTime = 1
    QueueKind = "redis"
    QueueSize = 2
    MaxSends = 2
    MaxTasks = 1
    Keys = {k1}
    NoKey = NoKey
    Requests = {r1}
    NoRequest = NoRequest
    Answers = {"result", "accepted"}
    ClientOps = {"cancel", "replay"}
    Faults = {"crash", "ack", "lostfile", "save", "load", "noresult"}
INVARIANTS
    StateConsistent
    NoJobLost
CHECK_DEADLOCK FALSE
