CONSTANTS
  NumKeys = 2
  Threads = {t1, t2}
  DailyEmergencyLimit = 1
  MinuteSafeLimit = 2
  MinuteGlobalSafeLimit = 2
  SecondsPerMinute = 1
  SecondsPerDay = 1
  MaxClock = 1
  MaxAttempts = 2
  MaxCalls = 1
SPECIFICATION Spec
INVARIANTS
  TypeOK
  CountersBounded
  CountersCoverBilling
  ReuseBoundedByReleases
PROPERTIES
  LimitAnsweredByAllKeys
SYMMETRY Symmetry
CHECK_DEADLOCK FALSE
