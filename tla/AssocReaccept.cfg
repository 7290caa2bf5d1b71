SPECIFICATION Spec
CONSTANTS
  A = A
  B = B
  Listeners = {B}
  UserOps <- ReacceptOps
  MaxTag = 2
  MaxTcb = 2
  MaxMsgs = 1
  MaxBoot = 0
  MaxInitTimes = 1
  MaxSendTimes = 0
  SlowRestart = FALSE
  GapData = FALSE
INVARIANT MapIsDelivered
CHECK_DEADLOCK FALSE
