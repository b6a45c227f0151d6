SPECIFICATION Spec
CONSTANTS
  Tickers = {a, b}
  History = 2
  LastDay = 4
  Setups <- MCSetups
  MinTickers = 1
  MaxAge = 1
  WindowDays = 2
  MaxRuns = 3
  MaxFaults = 1
INVARIANTS
  TypeOK
  NoTrainingOnPredictedDay
  DerivedRowsHaveSources
  FilesStayUsable
  TradedArePredicted
  MixedArchiveShows
  SuccessIsWhole
SYMMETRY TickerSymmetry
CHECK_DEADLOCK FALSE
