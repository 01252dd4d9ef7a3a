SPECIFICATION Spec
CONSTANTS
    Tasks = {t1, t2}
    NoTask = NoTask
    MaxRuns = 2
    Events = {e1, e2}
    AllowedSkew = 1
    ReplayTTL = 4
    Span = 1
    MaxTime = 4
    MaxAccepts = 3
    MaxRestarts = 1
    MaxMoves = 2
CONSTRAINT MovesAfterRuns
SYMMETRY Symmetry
INVARIANTS
    AcceptedOncePerProcess
    HandleIsLive
    MetricsAddUp
    RunningTaskCancelable
    CompletionNotWasted
CHECK_DEADLOCK FALSE
