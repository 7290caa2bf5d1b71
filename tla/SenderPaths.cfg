SPECIFICATION Spec
CONSTANTS
    Nets = {n1, n2}
    MaxTsn = 2
    MaxSacks = 2
    MaxFaults = 0
    MaxReneges = 1
    PeerShuts = FALSE
    FickleShuts = FALSE
    ProbeFails = FALSE
SYMMETRY NetSymmetry
INVARIANTS
    TypeOK
    FlightExact
    RetranExact
    HeadOutstanding
CHECK_DEADLOCK FALSE
