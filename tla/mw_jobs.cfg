SPECIFICATION RunSpec
CONSTANTS
    MaxJobs = 2
    MaxRuns = 2
    JobTTL = 1
    MaxTime = 3
    MaxFaults = 2
    Keys = {k1}
    NoKey = NoKey
INVARIANTS
    Durable
    SucceededHasResult
PROPERTIES
    OnlyReplayRevives
    EventuallyTerminal
    SucceededIsAnnounced
CHECK_DEADLOCK FALSE
