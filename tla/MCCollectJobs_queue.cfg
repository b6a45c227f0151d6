CONSTANTS
  Jobs = {j1}
  j1 = j1
  Financial = {j1}
  Runs = {r1, r2}
  r1 = r1
  r2 = r2
  BatchSize = 2
  Concurrency = 1
  MaxTransportRetry = 2
  ResetRunning = {TRUE, FALSE}
  MaxManual = 1
SPECIFICATION Spec
SYMMETRY Symmetry
INVARIANTS
  TypeOK
  OneHolder
  RunningIsHeld
  DoneHasBronze
  FetchedOnce
  RetryBounded
PROPERTY FollowsLifecycle
CHECK_DEADLOCK FALSE
