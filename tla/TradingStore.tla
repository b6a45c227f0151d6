---------------------------- MODULE TradingStore ----------------------------
(***************************************************************************)
(* The data files of the daily update of the trading system (src/            *)
(* AI_Trading_System): raw and clean OHLCV, macro rows, features and the     *)
(* training dataset.  They are append-only, except for the date that a run    *)
(* with --force replaces.  Dates are the business days, numbered; of a row    *)
(* only its keys are kept, and in raw whether its prices are valid.           *)
(***************************************************************************)
EXTENDS Naturals, FiniteSets, FiniteSetsExt

CONSTANTS
  Tickers,
  History,       (* the days 1 .. History are in the files at the start       *)
  LastDay

ASSUME TradingStoreAssumption ==
  /\ History \in Nat \ {0}
  /\ LastDay \in Nat /\ History < LastDay

VARIABLES
  raw,           (* quality of the raw row of a day and ticker                 *)
  clean,         (* the <<day, ticker>> of the clean rows                      *)
  macro,         (* the actual date of the macro row of a day, 0 without one    *)
  features,      (* the <<day, ticker>> of the feature rows                    *)
  training       (* rows: features of day feature, returns of day target       *)

storeVars == <<raw, clean, macro, features, training>>

Days == 1 .. LastDay
Keys == Days \X Tickers
Quality == {"ok", "bad", "none"}
NoRows == [t \in Tickers |-> "none"]
TrainingRows == [feature : Days, ticker : Tickers, target : Days]

StoreInit ==
  /\ raw = [k \in Keys |-> IF k[1] <= History THEN "ok" ELSE "none"]
  /\ clean = (1 .. History) \X Tickers
  /\ \E known \in {{}, 1 .. History} :   (* macro_clean_latest starts empty,   *)
       macro = [d \in Days |-> IF d \in known THEN d ELSE 0]    (* or is filled *)
  /\ features = clean
  /\ training = {[feature |-> d, ticker |-> t, target |-> d + 1] :
                   d \in 1 .. History - 1, t \in Tickers}

-----------------------------------------------------------------------------
(* market_data_update.py                                                    *)
LatestClean == Max({0} \cup {k[1] : k \in clean})

AppendRows(rows, day, new, force) ==
  IF force THEN {k \in rows : k[1] # day} \cup new ELSE rows \cup new

AppendRaw(day, daily, force) ==
  raw' = [k \in Keys |-> IF k[1] = day /\ (force \/ raw[k] = "none") THEN daily[k[2]]
                         ELSE raw[k]]

ValidRows(day, daily) == {<<day, t>> : t \in {u \in Tickers : daily[u] = "ok"}}

AppendClean(day, daily, force) ==
  clean' = AppendRows(clean, day, ValidRows(day, daily), force)

-----------------------------------------------------------------------------
(* macro_download.py, feature_source_completeness.py                        *)
AppendMacro(day, actual, force) ==
  macro' = [macro EXCEPT ![day] = IF force \/ @ = 0 THEN actual ELSE @]

(* Mutant of SourcesAvailable: later prices than the expected ones will do.     *)
SourcesAvailable_LaterPrices(expected, maxAge) ==
  LET latest == Max({macro[d] : d \in Days}) IN
  /\ LatestClean >= expected
  /\ latest # 0 /\ latest <= expected /\ expected - latest <= maxAge

(* US sources may be some days old, KRX must be of the expected day.          *)
SourcesAvailable(expected, maxAge) ==
  LET latest == Max({macro[d] : d \in Days}) IN
  /\ LatestClean = expected
  /\ latest # 0 /\ latest <= expected /\ expected - latest <= maxAge

-----------------------------------------------------------------------------
(* feature_update.py.  sox_return_1d of a day is made from the macro rows of  *)
(* the two days before on which the ticker was traded.                       *)
FeatureRows(day) == {k \in clean : k[1] = day}

SoxReturnKnown(day, t) ==
  LET before == {d \in 1 .. day - 1 : <<d, t>> \in clean}
      last == Max(before)
  IN /\ Cardinality(before) >= 2
     /\ macro[last] # 0 /\ macro[Max(before \ {last})] # 0

FeaturesComputable(day) == \E k \in FeatureRows(day) : SoxReturnKnown(day, k[2])

AppendFeatures(day, force) ==
  features' = AppendRows(features, day, FeatureRows(day), force)

-----------------------------------------------------------------------------
(* training_update.py, rolling_window.py                                    *)
NextDates(k) == {d \in Days : d > k[1] /\ <<d, k[2]>> \in clean}

(* Mutant of TargetRows: every clean row becomes a training row.              *)
TargetRows_AllClean(day) ==
  {[feature |-> k[1], ticker |-> k[2], target |-> Min(NextDates(k))] :
     k \in {f \in clean : NextDates(f) # {} /\ Min(NextDates(f)) <= day}}

TargetRows(day) ==
  {[feature |-> k[1], ticker |-> k[2], target |-> Min(NextDates(k))] :
     k \in {f \in features \cap clean : NextDates(f) # {} /\ Min(NextDates(f)) <= day}}

SameKey(r, s) == r.feature = s.feature /\ r.ticker = s.ticker

(* Mutant of CombinedTraining: keys that are there already are added again.    *)
CombinedTraining_AllNew(day, force) ==
  LET new == TargetRows(day) IN
  IF force THEN {r \in training : \A s \in new : r.feature # s.feature} \cup new
  ELSE training \cup new

CombinedTraining(day, force) ==
  LET new == TargetRows(day) IN
  IF force THEN {r \in training : \A s \in new : r.feature # s.feature} \cup new
  ELSE training \cup {r \in new : \A s \in training : ~SameKey(r, s)}

Duplicated(rows) ==
  \E r, s \in rows : r # s /\ r.ticker = s.ticker /\ (r.feature = s.feature \/ r.target = s.target)

EligibleDates(rows, day) == {r.feature : r \in {s \in rows : s.feature < day}}

(* The rows of the n latest feature dates before the day of the prediction.   *)
TrainWindow(rows, day, n) ==
  LET dates == EligibleDates(rows, day) IN
  {r \in rows : r.feature \in dates /\ Cardinality({d \in dates : d > r.feature}) < n}
=============================================================================
