SPECIFICATION LiveSpec
CONSTANTS
    A = A
    B = B
    Ends = {A, B}
    Senders = {A}
    DataStreams = {0}
    Profiles <- Users
    InitSeq <- FirstNumbers
    Lists <- AllOrSecond
    InitStreams = 2
    MaxInbound = 3
    MaxTsn = 4
    MaxFaults = 1
INVARIANTS InOrder PerformedAtPeer
PROPERTIES ResetEnds
CHECK_DEADLOCK FALSE
