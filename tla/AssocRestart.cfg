SPECIFICATION Spec
CONSTANTS
  A = A
  B = B
  Listeners = {B}
  UserOps <- RestartOps
  MaxTag = 2
  MaxTcb = 2
  MaxMsgs = 1
  MaxBoot = 1
  MaxInitTimes = 0
  MaxSendTimes = 0
  SlowRestart = TRUE
  GapData = FALSE
INVARIANTS
  MapIsDelivered
  CookieTimerHasCookie
PROPERTY RestartIsGenuine
CHECK_DEADLOCK FALSE
