SPECIFICATION Spec
CONSTANTS
    MaxJobs = 2
    MaxAttempts = 2
    JobTTL = 1
    MaxTime = 2
    QueueKind = "memory"
    QueueSize = 1
    MaxSends = 1
    MaxTasks = 1
    Keys = {k1}
    NoKey = NoKey
    Requests = {r1, r2}
    NoRequest = NoRequest
    Answers = {"result", "error"}
    ClientOps = {"cancel"}
    Faults = {"crash"}
SYMMETRY Symmetry
INVARIANTS
    TypeOK
    Durable
PROPERTIES
    AcceptedJobsSurvive
    FollowsLifecycle
CHECK_DEADLOCK FALSE
