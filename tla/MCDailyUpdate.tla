--------------------------- MODULE MCDailyUpdate ---------------------------
(* The instance of DailyUpdate that TLC checks.                               *)
EXTENDS DailyUpdate, TLC

MCSetups ==
  {[strict |-> TRUE, modes |-> {"normal"}, forces |-> {FALSE}, backdated |-> TRUE,
    runs |-> 3, faults |-> 0],
   [strict |-> TRUE, modes |-> {"normal"}, forces |-> {FALSE}, backdated |-> FALSE,
    runs |-> 3, faults |-> 1],
   [strict |-> TRUE, modes |-> {"normal", "no_download"}, forces |-> {FALSE}, backdated |-> TRUE,
    runs |-> 2, faults |-> 1],
   [strict |-> TRUE, modes |-> {"normal"}, forces |-> {FALSE, TRUE}, backdated |-> FALSE,
    runs |-> 3, faults |-> 0],
   [strict |-> TRUE, modes |-> {"normal"}, forces |-> {FALSE, TRUE}, backdated |-> TRUE,
    runs |-> 2, faults |-> 1],
   [strict |-> FALSE, modes |-> {"normal", "no_download", "check_sources"},
    forces |-> {FALSE, TRUE}, backdated |-> FALSE, runs |-> 2, faults |-> 1]}

TickerSymmetry == Permutations(Tickers)
=============================================================================
