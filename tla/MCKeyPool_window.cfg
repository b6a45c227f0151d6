CONSTANTS
  NumKeys = 1
  Threads = {t1, t2}
  DailyEmergencyLimit = 9
  MinuteSafeLimit = 9
  MinuteGlobalSafeLimit = 1
  SecondsPerMinute = 2
  SecondsPerDay = 12
  MaxClock = 3
  MaxAttempts = 1
  MaxCalls = 3
SPECIFICATION Spec
INVARIANTS
  SlidingWindowBounded
SYMMETRY Symmetry
CHECK_DEADLOCK FALSE
