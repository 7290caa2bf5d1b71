SPECIFICATION LiveSpec
CONSTANTS
  Timers = {t1, t2, t3}
  NULL = NULL
  TickBits = 4
  Delta = 2
  MaxDelay = 2
  MaxTicks = 4
  MaxStarts = 2
INVARIANTS
  QueueMatchesFlags
  NextIsQueued
  OnTime
PROPERTY ImplementsTimers
CHECK_DEADLOCK FALSE
