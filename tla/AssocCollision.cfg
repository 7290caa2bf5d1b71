SPECIFICATION Spec
CONSTANTS
  A = A
  B = B
  Listeners = {A, B}
  UserOps <- CollisionOps
  MaxTag = 2
  MaxTcb = 1
  MaxMsgs = 2
  MaxBoot = 0
  MaxInitTimes = 1
  MaxSendTimes = 1
  SlowRestart = FALSE
  GapData = FALSE
INVARIANTS
  TsnAgreement
  InitTimerRuns
  AckedIsDelivered
  NoRedelivery
CHECK_DEADLOCK FALSE
