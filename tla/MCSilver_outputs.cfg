CONSTANTS
  Discs = {d1}
  d1 = d1
  Jobs = {j1}
  j1 = j1
  Needs <- MCNeeds
  Leads <- MCLeads
  Metas = {m1, m2}
  m1 = m1
  m2 = m2
  Schedules <- MCSchedules
  MaxActive = 2
SPECIFICATION Spec
INVARIANTS
  TypeOK
  ReportIsWhole
  NothingForgotten
  MarkerFollowsRow
CONSTRAINT OneWorker
SYMMETRY Symmetry
CHECK_DEADLOCK FALSE
