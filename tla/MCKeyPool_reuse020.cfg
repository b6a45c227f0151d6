CONSTANTS
  NumKeys = 2
  Threads = {t1, t2}
  DailyEmergencyLimit = 1
  MinuteSafeLimit = 1
  MinuteGlobalSafeLimit = 2
  SecondsPerMinute = 1
  SecondsPerDay = 2
  MaxClock = 2
  MaxAttempts = 2
  MaxCalls = 1
SPECIFICATION Spec
INVARIANTS
  NoReuseAfter020
SYMMETRY Symmetry
CHECK_DEADLOCK FALSE
