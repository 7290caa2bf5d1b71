SPECIFICATION Spec
CONSTANTS
    HalfTsn = 16
    ByteBits = 2
    MaxBytes = 2
    InitBytes = 1
    IncrBytes = 1
    InitialTsn = 30
    MaxSent = 5
    MaxBlocks = 2
INVARIANTS
    TypeOK
    SlideAssertions
    SackComplete
    AckPending
PROPERTIES
    ImplementsReceivedSet
CHECK_DEADLOCK FALSE
