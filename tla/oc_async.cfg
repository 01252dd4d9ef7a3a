SPECIFICATION PollingSpec
CONSTANTS
    MaxJobs = 1
    MaxAttempts = 2
    JobTTL = 1
    MaxTime = 2
    QueueKind = "memory"
    QueueSize = 8
    MaxSends = 2
    MaxTasks = 2
    Keys = {k1}
    NoKey = NoKey
    Requests = {r1, r2}
    NoRequest = NoRequest
    Answers = {"result", "accepted", "error"}
    ClientOps = {"cancel", "replay"}
    Faults = {"crash"}
INVARIANTS
    WorkerHoldsJob
    ResultMatchesRequest
    SucceededHasResult
    NoJobLost
PROPERTIES
    CanceledSticks
    EventuallyTerminal
CHECK_DEADLOCK FALSE
