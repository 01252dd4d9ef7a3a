SPECIFICATION Spec
CONSTANTS
    MaxJobs = 1
    MaxAttempts = 2
    JobTTL = 0
    MaxTime = 1
    QueueKind = "memory"
    QueueSize = 3
    MaxSends = 1
    MaxTasks = 1
    Keys = {k1}
    NoKey = NoKey
    Requests = {r1}
    NoRequest = NoRequest
    Answers = {"accepted"}
    ClientOps = {}
    Faults = {}
PROPERTIES
    SucceededNeverRuns
CHECK_DEADLOCK FALSE
