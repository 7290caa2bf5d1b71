SPECIFICATION LiveSpec
CONSTANTS
    Tcbs = {"t1"}
    Workers = {"w1", "w2"}
    MaxCalls = 1
    AcceptAborted = FALSE
    LateResets = FALSE
    SlowClose = FALSE
INVARIANTS TypeOK FreedOnce Protected RefExact KillTimerRuns
PROPERTIES Freed EndpointFreed CallsReturn
CHECK_DEADLOCK FALSE
