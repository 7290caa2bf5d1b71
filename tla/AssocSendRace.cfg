SPECIFICATION Spec
CONSTANTS
  A = A
  B = B
  Listeners = {B}
  UserOps <- SendRaceOps
  MaxTag = 1
  MaxTcb = 1
  MaxMsgs = 1
  MaxBoot = 0
  MaxInitTimes = 1
  MaxSendTimes = 1
  SlowRestart = FALSE
  GapData = FALSE
INVARIANT QueuesEmpty
CHECK_DEADLOCK FALSE
