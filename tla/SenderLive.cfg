SPECIFICATION LiveSpec
CONSTANTS
    Nets = {n1}
    MaxTsn = 2
    MaxSacks = 1
    MaxFaults = 1
    MaxReneges = 1
    PeerShuts = TRUE
    FickleShuts = FALSE
    ProbeFails = FALSE
INVARIANTS
    SomeTimer
PROPERTIES
    Resolved
CHECK_DEADLOCK FALSE
