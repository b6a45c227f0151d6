CONSTANTS
  Reports <- MCReports
  Stuck = {3}
  Textless = {2, 4}
  Builders = {"incremental", "backfill"}
  Limit = 3
  ChunkSize = 2
  Backlog = {1, 2, 3, 4}
  MaxContent <- MCMaxContent
  MaxClock = 1
  MaxFaults = 1
SPECIFICATION Spec
INVARIANTS
  TypeOK
  NewestKept
  OnceUnlessInterrupted
PROPERTIES
  CleanRunBuilds
  FollowsLayer
CHECK_DEADLOCK FALSE
