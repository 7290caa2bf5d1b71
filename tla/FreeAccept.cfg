SPECIFICATION Spec
CONSTANTS
    Tcbs = {"t1"}
    Workers = {"w1"}
    MaxCalls = 2
    AcceptAborted = TRUE
    LateResets = FALSE
    SlowClose = FALSE
INVARIANT KillTimerRuns
CHECK_DEADLOCK FALSE
