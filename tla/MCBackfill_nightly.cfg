CONSTANTS
  MonthDays <- MCMonthDays
  FirstNight <- MCFirstNight
  BackfillMonths = 3
  ExplicitRange <- MCNoRange
SPECIFICATION Spec
INVARIANT NightlyResumes
CHECK_DEADLOCK FALSE
