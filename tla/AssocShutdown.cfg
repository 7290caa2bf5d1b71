SPECIFICATION LiveSpec
CONSTANTS
  A = A
  B = B
  Listeners = {B}
  UserOps <- ShutdownOps
  MaxTag = 1
  MaxTcb = 1
  MaxMsgs = 1
  MaxBoot = 0
  MaxInitTimes = 1
  MaxSendTimes = 1
  SlowRestart = FALSE
  GapData = FALSE
INVARIANTS
  TypeOK
  GracefulMeansDelivered
  QueuesEmptyAtShutdown
  TimersCover
PROPERTIES
  SetupEnds
  TeardownEnds
  DataResolved
CHECK_DEADLOCK FALSE
