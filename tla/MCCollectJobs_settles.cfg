CONSTANTS
  Jobs = {j1, j2}
  j1 = j1
  j2 = j2
  Financial = {}
  Runs = {r1, r2}
  r1 = r1
  r2 = r2
  BatchSize = 2
  Concurrency = 1
  MaxTransportRetry = 2
  ResetRunning = {}
  MaxManual = 0
SPECIFICATION FairSpec
PROPERTY Settles
CHECK_DEADLOCK FALSE
