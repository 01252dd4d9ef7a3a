\* The defaults of dispatcher.go and server.go, one tick being 200 ms, and two
\* contexts that end earlier.  A torn log or a failed write, once.
SPECIFICATION Spec
CONSTANTS
    MaxAttempts = 10
    InitialBackoff = 1
    MaxBackoff = 15
    JitterPercent = 20
    RequestTimeout = 15
    Deadlines = {0, 18, 300}
    DispatchTimeout = 300
    MaxFaults = 1
INVARIANTS
    LogTellsTheStory
    AllAttemptsMade
CHECK_DEADLOCK FALSE
