------------------------- MODULE DailyUpdateProofs -------------------------
(***************************************************************************)
(* Theorems about DailyUpdate for any tickers and days, any thresholds and    *)
(* any number of runs and faults.                                            *)
(***************************************************************************)
EXTENDS DailyUpdate, WellFoundedInduction, TLAPS

(* The order of the archive ----------------------------------------------- *)
Size == 12

LEMMA SizeIs ==
  /\ Len(ArchiveOrder) = Size /\ DOMAIN ArchiveOrder = 1 .. Size
  /\ \A i \in 1 .. Size : ArchiveOrder[i] \in ArchiveFiles
  /\ \A f \in ArchiveFiles : \E i \in 1 .. Size : f = ArchiveOrder[i]
<1>1. Len(ArchiveOrder) = Size /\ DOMAIN ArchiveOrder = 1 .. Size
  BY DEF ArchiveOrder, Size
<1>. QED
  BY <1>1 DEF ArchiveFiles

LEMMA FirstFiles ==
  ArchiveOrder[1] = "top10_csv" /\ ArchiveOrder[2] = "top10_xlsx" /\ "top10_xlsx" \in Hashed
BY DEF ArchiveOrder, Hashed

LEMMA HashedAreFiles == Hashed \subseteq ArchiveFiles
<1>1. /\ ArchiveOrder[2] = "top10_xlsx" /\ ArchiveOrder[4] = "prediction_parquet"
      /\ ArchiveOrder[5] = "ranking_model" /\ ArchiveOrder[6] = "gap_model"
      /\ ArchiveOrder[7] = "intraday_model" /\ ArchiveOrder[9] = "rolling_train_parquet"
  BY DEF ArchiveOrder
<1>. QED
  BY <1>1, SizeIs DEF Hashed, Size

(* No file is written twice.                                                 *)
LEMMA OrderIsOneToOne ==
  ASSUME NEW i \in 1 .. Size, NEW j \in 1 .. Size, ArchiveOrder[i] = ArchiveOrder[j]
  PROVE  i = j
<1>1. i \in {1, 2, 3, 4, 5, 6, 7, 8, 9, 10, 11, 12} /\ j \in {1, 2, 3, 4, 5, 6, 7, 8, 9, 10, 11, 12}
  BY DEF Size
<1>. QED
  BY <1>1 DEF ArchiveOrder

(* Dates ------------------------------------------------------------------ *)
LEMMA LeastExists ==
  ASSUME NEW S, S \subseteq Nat, S # {}
  PROVE  \E m \in S : \A x \in S : m <= x
<1>1. PICK m \in S : \A x \in S : ~(<<x, m>> \in OpToRel(<, Nat))
  BY WFMin, NatLessThanWellFounded
<1>2. \A x \in S : ~(x < m)
  BY <1>1 DEF OpToRel
<1>. QED
  BY <1>2

LEMMA MinIsLeast ==
  ASSUME NEW S, S \subseteq Nat, S # {}
  PROVE  Min(S) \in S /\ \A x \in S : Min(S) <= x
BY LeastExists DEF Min

LEMMA MaxIsGreatest ==
  ASSUME NEW n \in Nat, NEW S, S \subseteq 0 .. n, S # {}
  PROVE  Max(S) \in S /\ \A x \in S : x <= Max(S)
<1>. DEFINE Below == {n - x : x \in S}
<1>1. \A x \in S : x \in Nat /\ x <= n /\ n - x \in Nat
  OBVIOUS
<1>2. Below \subseteq Nat /\ Below # {}
  BY <1>1
<1>3. PICK b \in Below : \A y \in Below : b <= y
  <2>. HIDE DEF Below
  <2>. QED
    BY <1>2, LeastExists
<1>4. PICK m \in S : b = n - m
  BY <1>3
<1>5. \A x \in S : n - m <= n - x
  BY <1>3, <1>4
<1>6. \A x \in S : x <= m
  BY <1>1, <1>5
<1>. QED
  BY <1>6 DEF Max

LEMMA DaysAreNaturals ==
  /\ Days \subseteq Nat /\ PredictionDays \subseteq Nat /\ Days \subseteq PredictionDays
  /\ \A d : d \in Days <=> d \in Nat /\ 1 <= d /\ d <= LastDay
  /\ \A d : d \in PredictionDays <=> d \in Nat /\ 1 <= d /\ d <= LastDay + 1
BY TradingStoreAssumption DEF Days, PredictionDays

(* The last day of the clean file.                                           *)
LEMMA LatestCleanIs ==
  ASSUME clean \subseteq Keys
  PROVE  /\ LatestClean \in 0 .. LastDay
         /\ \A k \in clean : k[1] <= LatestClean
         /\ LatestClean # 0 => \E k \in clean : k[1] = LatestClean
<1>. DEFINE S == {0} \cup {k[1] : k \in clean}
<1>1. S \subseteq 0 .. LastDay /\ S # {}
  BY TradingStoreAssumption DEF Keys, Days
<1>2. LatestClean \in S /\ \A x \in S : x <= LatestClean
  BY <1>1, MaxIsGreatest, TradingStoreAssumption DEF LatestClean
<1>. QED
  BY <1>1, <1>2

(* The training rows that a date adds.                                       *)
LEMMA TargetRowsAre ==
  ASSUME clean \subseteq Keys, NEW day \in Days, NEW r \in TargetRows(day)
  PROVE  /\ r \in TrainingRows
         /\ <<r.feature, r.ticker>> \in features /\ <<r.feature, r.ticker>> \in clean
         /\ <<r.target, r.ticker>> \in clean
         /\ r.feature < r.target /\ r.target <= day
         /\ \A d \in Days : d > r.feature /\ <<d, r.ticker>> \in clean => r.target <= d
<1>1. PICK k \in features \cap clean :
        /\ NextDates(k) # {} /\ Min(NextDates(k)) <= day
        /\ r = [feature |-> k[1], ticker |-> k[2], target |-> Min(NextDates(k))]
  BY DEF TargetRows
<1>2. NextDates(k) \subseteq Days /\ NextDates(k) \subseteq Nat
  BY DaysAreNaturals DEF NextDates
<1>3. Min(NextDates(k)) \in NextDates(k) /\ \A d \in NextDates(k) : Min(NextDates(k)) <= d
  BY <1>1, <1>2, MinIsLeast
<1>4. k \in Keys /\ k = <<k[1], k[2]>> /\ k[1] \in Days /\ k[2] \in Tickers
  BY <1>1 DEF Keys
<1>. HIDE DEF Min
<1>5. r.feature = k[1] /\ r.ticker = k[2] /\ r.target = Min(NextDates(k))
  BY <1>1
<1>. QED
  BY <1>1, <1>2, <1>3, <1>4, <1>5 DEF NextDates, TrainingRows

LEMMA TargetRowsAreOne ==
  ASSUME NEW day, NEW r \in TargetRows(day), NEW s \in TargetRows(day), SameKey(r, s),
         clean \subseteq Keys
  PROVE  r = s
<1>1. PICK k \in features \cap clean :
        r = [feature |-> k[1], ticker |-> k[2], target |-> Min(NextDates(k))]
  BY DEF TargetRows
<1>2. PICK l \in features \cap clean :
        s = [feature |-> l[1], ticker |-> l[2], target |-> Min(NextDates(l))]
  BY DEF TargetRows
<1>3. k[1] = l[1] /\ k[2] = l[2]
  BY <1>1, <1>2 DEF SameKey
<1>4. k = <<k[1], k[2]>> /\ l = <<l[1], l[2]>>
  BY DEF Keys
<1>. QED
  BY <1>1, <1>2, <1>3, <1>4
(* Types ------------------------------------------------------------------ *)
StoreOK ==
  /\ raw \in [Keys -> Quality] /\ macro \in [Days -> 0 .. LastDay]
  /\ clean \subseteq Keys /\ features \subseteq Keys /\ training \subseteq TrainingRows

(* A run is for a day from the first one without data to today.               *)
RunOK ==
  /\ run \in {Idle} \cup Run
  /\ run # Idle => run.id = runs /\ run.asOf \in History + 1 .. today

CountersOK ==
  /\ setup \in Setups /\ runs \in Ids /\ faults \in 0 .. MaxFaults
  /\ today \in History + 2 .. LastDay + 1

ExitOK == exit.by \in Ids /\ exit.code \in {0, 1, 130} /\ exit.reason \in Reasons

Outputs == [models : Ids, predictions : Ids, top10 : Ids, summary : Ids, failed : BOOLEAN]
Archived == [files : [ArchiveFiles -> Ids], sha256 : [Hashed -> Ids], metadata : Ids, status : Ids]

OutputOK == output \in [PredictionDays -> Outputs]
ArchiveOK == archive \in [PredictionDays -> Archived]
LatestOK == latest \in [day : 0 .. LastDay + 1, copy : Archived]
StatusOK == status \in [PredictionDays -> [by : Ids, code : {0, 1}]]

TypeInv ==
  StoreOK /\ RunOK /\ CountersOK /\ ExitOK /\ OutputOK /\ ArchiveOK /\ LatestOK /\ StatusOK

LEMMA TypeInvType == TypeInv => TypeOK
<1>. SUFFICES ASSUME TypeInv PROVE TypeOK
  OBVIOUS
<1>1. today \in PredictionDays
  BY TradingStoreAssumption DEF TypeInv, CountersOK, PredictionDays
<1>. QED
  BY <1>1 DEF TypeOK, TypeInv, StoreOK, RunOK, CountersOK, ExitOK, OutputOK, ArchiveOK, LatestOK,
              StatusOK, Outputs, Archived

(* A run moves on to another point; none of the choices of its start change.   *)
Onward(pc) ==
  /\ run' \in Run /\ run'.pc = pc
  /\ run'.id = run.id /\ run'.asOf = run.asOf /\ run'.force = run.force
Dated == run'.update = run.update /\ run'.predict = run.predict /\ run'.fallback = run.fallback
Checked == run'.passed = run.passed
Trained == run'.window = run.window
Written ==
  /\ run'.filed = run.filed /\ run'.mirrors = run.mirrors
  /\ run'.statusWritten = run.statusWritten

LEMMA IdleIsNoRun == Idle \notin Run /\ Idle.pc = "idle" /\ \A pc \in Pcs : pc # "idle"
BY DEF Idle, Run, Pcs

LEMMA Running ==
  ASSUME RunOK, NEW pc \in Pcs, At(pc)
  PROVE  run \in Run /\ run # Idle /\ run.pc = pc
BY IdleIsNoRun DEF RunOK, At

LEMMA RunFields ==
  ASSUME run \in Run
  PROVE  /\ run # Idle /\ run.pc \in Pcs /\ run.id \in Ids /\ run.asOf \in PredictionDays
         /\ run.force \in BOOLEAN /\ run.latestClean \in 0 .. LastDay
         /\ run.update \in Days /\ run.predict \in PredictionDays
         /\ run.daily \in [Tickers -> Quality] /\ run.window \in SUBSET TrainingRows
         /\ run.fallback \in BOOLEAN /\ run.passed \in BOOLEAN
         /\ run.mirrors \in 0 .. Refreshes - 1 /\ run.statusWritten \in BOOLEAN
         /\ run.filed \in 0 .. Len(ArchiveOrder)
BY IdleIsNoRun DEF Run

LEMMA GotoDoes ==
  ASSUME run \in Run, NEW pc \in Pcs, Goto(pc)
  PROVE  Onward(pc) /\ Dated /\ Checked /\ Trained /\ Written /\ run'.daily = run.daily
BY DEF Goto, Run, Onward, Dated, Checked, Trained, Written

LEMMA TargetIsDay ==
  ASSUME RunOK, CountersOK, run \in Run
  PROVE  Target \in Days /\ run.asOf \in PredictionDays /\ Target + 1 = run.asOf /\ run.asOf <= today
BY TradingStoreAssumption, IdleIsNoRun DEF RunOK, CountersOK, Target, Days, PredictionDays

LEMMA FallBackDoes ==
  ASSUME run \in Run, FallBack
  PROVE  /\ Onward("macro") /\ Checked /\ Trained /\ Written /\ run'.fallback = TRUE
<1>1. "macro" \in Pcs
  BY DEF Pcs
<1>2. CASE run.latestClean = 0
  <2>1. run' = [run EXCEPT !.pc = "macro", !.fallback = TRUE]
    BY <1>2 DEF FallBack
  <2>2. run' \in Run
    BY <1>1, <2>1 DEF Run
  <2>. QED
    BY <2>1, <2>2 DEF Run, Onward, Checked, Trained, Written
<1>3. CASE run.latestClean # 0
  <2>1. run.latestClean \in Days /\ run.latestClean + 1 \in PredictionDays
    BY <1>3, RunFields, TradingStoreAssumption DEF Days, PredictionDays
  <2>2. run' = [run EXCEPT !.pc = "macro", !.fallback = TRUE, !.update = run.latestClean,
                           !.predict = run.latestClean + 1]
    BY <1>3 DEF FallBack
  <2>3. run' \in Run
    BY <1>1, <2>1, <2>2 DEF Run
  <2>. QED
    BY <2>2, <2>3 DEF Run, Onward, Checked, Trained, Written
<1>. QED
  BY <1>2, <1>3

LEMMA DailyRowsAre ==
  ASSUME StoreOK, RunOK, CountersOK, run \in Run, NEW daily \in DailyRows
  PROVE  daily \in [Tickers -> Quality]
<1>1. CASE run.mode = "no_download"
  <2>1. \A t \in Tickers : raw[<<Target, t>>] \in Quality
    BY TargetIsDay DEF StoreOK, Keys
  <2>. QED
    BY <1>1, <2>1 DEF DailyRows
<1>2. CASE run.mode # "no_download"
  BY <1>2 DEF DailyRows, Kept, NoRows, Quality
<1>. QED
  BY <1>1, <1>2

LEMMA DownloadDoes ==
  ASSUME StoreOK, RunOK, CountersOK, Download
  PROVE  /\ run \in Run /\ run.pc = "download"
         /\ raw' \in [Keys -> Quality]
         /\ \/ Onward("macro") /\ run'.fallback = TRUE /\ raw' = raw
            \/ /\ Onward("clean") /\ Dated
               /\ AppendRaw(Target, run'.daily, run.force)
         /\ Checked /\ Trained /\ Written
         /\ UNCHANGED <<clean, macro, features, training, runVars, exit>>
<1>1. {"download", "clean"} \subseteq Pcs
  BY DEF Pcs
<1>2. run \in Run /\ run.pc = "download"
  BY <1>1, Running DEF Download
<1>3. PICK daily \in DailyRows :
        IF daily = NoRows THEN FallBack /\ UNCHANGED raw
        ELSE /\ run' = [run EXCEPT !.pc = "clean", !.daily = daily]
             /\ AppendRaw(Target, daily, run.force)
  BY DEF Download
<1>4. UNCHANGED <<clean, macro, features, training, runVars, exit>>
  BY DEF Download
<1>5. CASE daily = NoRows
  BY <1>2, <1>3, <1>4, <1>5, FallBackDoes DEF StoreOK
<1>6. CASE daily # NoRows
  <2>1. daily \in [Tickers -> Quality]
    BY <1>2, DailyRowsAre
  <2>2. /\ Onward("clean") /\ Dated /\ Checked /\ Trained /\ Written /\ run'.daily = daily
    <3>1. run' = [run EXCEPT !.pc = "clean", !.daily = daily]
      BY <1>3, <1>6
    <3>. QED
      BY <1>1, <1>2, <2>1, <3>1 DEF Run, Onward, Dated, Checked, Trained, Written
  <2>3. AppendRaw(Target, daily, run.force)
    BY <1>3, <1>6
  <2>4. raw' \in [Keys -> Quality]
    <3>1. \A k \in Keys : raw[k] \in Quality /\ daily[k[2]] \in Quality
      BY <2>1 DEF StoreOK, Keys
    <3>. QED
      BY <2>3, <3>1 DEF AppendRaw
  <2>. QED
    BY <1>2, <1>4, <2>2, <2>3, <2>4
<1>. QED
  BY <1>5, <1>6
LEMMA WriteCleanDoes ==
  ASSUME StoreOK, RunOK, CountersOK, WriteClean
  PROVE  /\ run \in Run /\ run.pc = "clean"
         /\ Onward("macro") /\ Dated /\ Checked /\ Trained /\ Written
         /\ clean' \subseteq Keys
         /\ AppendClean(Target, run.daily, run.force)
         /\ UNCHANGED <<raw, macro, features, training, runVars, exit>>
<1>1. {"clean", "macro"} \subseteq Pcs
  BY DEF Pcs
<1>2. run \in Run /\ run.pc = "clean"
  BY <1>1, Running DEF WriteClean
<1>3. NoRows \in [Tickers -> Quality]
  BY DEF NoRows, Quality
<1>4. Onward("macro") /\ Dated /\ Checked /\ Trained /\ Written
  BY <1>1, <1>2, <1>3 DEF WriteClean, Run, Onward, Dated, Checked, Trained, Written
<1>5. AppendClean(Target, run.daily, run.force)
  BY DEF WriteClean
<1>6. Target \in Days
  BY <1>2, TargetIsDay
<1>7. clean' \subseteq Keys
  <2>. HIDE DEF Target
  <2>. QED
    BY <1>5, <1>6 DEF AppendClean, AppendRows, ValidRows, Keys, StoreOK
<1>. QED
  BY <1>2, <1>4, <1>5, <1>7 DEF WriteClean

LEMMA DownloadMacroDoes ==
  ASSUME StoreOK, RunOK, CountersOK, DownloadMacro
  PROVE  /\ run \in Run /\ run.pc = "macro"
         /\ Onward("check") /\ Dated /\ Checked /\ Trained /\ Written
         /\ macro' \in [Days -> 0 .. LastDay]
         /\ UNCHANGED <<raw, clean, features, training, runVars, exit>>
<1>1. {"check", "macro"} \subseteq Pcs
  BY DEF Pcs
<1>2. run \in Run /\ run.pc = "macro"
  BY <1>1, Running DEF DownloadMacro
<1>3. Target \in Days
  BY <1>2, TargetIsDay
<1>4. PICK actual \in Days : AppendMacro(Target, actual, run.force)
  BY DEF DownloadMacro
<1>5. macro' \in [Days -> 0 .. LastDay]
  <2>. HIDE DEF Target
  <2>1. actual \in 0 .. LastDay
    BY TradingStoreAssumption DEF Days
  <2>. QED
    BY <1>3, <1>4, <2>1 DEF AppendMacro, StoreOK
<1>. QED
  BY <1>1, <1>2, <1>5, GotoDoes DEF DownloadMacro

LEMMA CheckSourcesDoes ==
  ASSUME RunOK, CheckSources
  PROVE  /\ run \in Run /\ run.pc = "check"
         /\ Onward("features") /\ Dated /\ Trained /\ Written
         /\ run'.passed = SourcesPassed /\ (Strict => SourcesPassed)
         /\ UNCHANGED <<storeVars, runVars, exit>>
<1>1. {"check", "features"} \subseteq Pcs
  BY DEF Pcs
<1>2. run \in Run /\ run.pc = "check"
  BY <1>1, Running DEF CheckSources
<1>3. SourcesPassed \in BOOLEAN
  BY DEF SourcesPassed, SourcesAvailable
<1>4. Onward("features") /\ Dated /\ Trained /\ Written /\ run'.passed = SourcesPassed
  <2>. HIDE DEF SourcesPassed
  <2>1. run' = [run EXCEPT !.pc = "features", !.passed = SourcesPassed]
    BY DEF CheckSources
  <2>. QED
    BY <1>1, <1>2, <1>3, <2>1 DEF Run, Onward, Dated, Trained, Written
<1>. QED
  BY <1>2, <1>4 DEF CheckSources

LEMMA UpdateFeaturesDoes ==
  ASSUME StoreOK, RunOK, UpdateFeatures
  PROVE  /\ run \in Run /\ run.pc = "features"
         /\ Onward("training") /\ Dated /\ Checked /\ Trained /\ Written
         /\ run.update \in Days /\ AppendFeatures(run.update, run.force)
         /\ features' \subseteq Keys
         /\ UNCHANGED <<raw, clean, macro, training, runVars, exit>>
<1>1. {"training", "features"} \subseteq Pcs
  BY DEF Pcs
<1>2. run \in Run /\ run.pc = "features"
  BY <1>1, Running DEF UpdateFeatures
<1>3. features' \subseteq Keys
  BY DEF UpdateFeatures, AppendFeatures, AppendRows, FeatureRows, StoreOK
<1>. QED
  BY <1>1, <1>2, <1>3, GotoDoes DEF UpdateFeatures

LEMMA UpdateTrainingDoes ==
  ASSUME StoreOK, RunOK, UpdateTraining
  PROVE  /\ run \in Run /\ run.pc = "training"
         /\ Onward("models") /\ Dated /\ Checked /\ Trained /\ Written
         /\ run.update \in Days /\ training' = CombinedTraining(run.update, run.force)
         /\ training' \subseteq training \cup TargetRows(run.update)
         /\ training' \subseteq TrainingRows
         /\ UNCHANGED <<raw, clean, macro, features, runVars, exit>>
<1>1. {"training", "models"} \subseteq Pcs
  BY DEF Pcs
<1>2. run \in Run /\ run.pc = "training" /\ run.update \in Days
  BY <1>1, Running, RunFields DEF UpdateTraining
<1>3. training' = CombinedTraining(run.update, run.force)
  BY DEF UpdateTraining
<1>4. training' \subseteq training \cup TargetRows(run.update)
  BY <1>3 DEF CombinedTraining
<1>5. training' \subseteq TrainingRows
  BY <1>2, <1>4, TargetRowsAre DEF StoreOK
<1>. QED
  BY <1>1, <1>2, <1>3, <1>4, <1>5, GotoDoes DEF UpdateTraining

LEMMA TrainModelsDoes ==
  ASSUME StoreOK, RunOK, TrainModels
  PROVE  /\ run \in Run /\ run.pc = "models"
         /\ Onward("predict") /\ Dated /\ Checked /\ Written
         /\ run'.window \subseteq training
         /\ output' = [output EXCEPT ![run.predict].models = run.id]
         /\ UNCHANGED <<storeVars, archive, latest, status, exit>>
<1>1. {"predict", "models"} \subseteq Pcs
  BY DEF Pcs
<1>2. run \in Run /\ run.pc = "models"
  BY <1>1, Running DEF TrainModels
<1>. DEFINE w == TrainWindow(training, run.predict, WindowDays)
<1>3. w \subseteq training /\ w \in SUBSET TrainingRows
  BY DEF TrainWindow, StoreOK
<1>4. run' = [run EXCEPT !.pc = "predict", !.window = w]
  BY DEF TrainModels
<1>. HIDE DEF w
<1>5. Onward("predict") /\ Dated /\ Checked /\ Written /\ run'.window = w
  BY <1>1, <1>2, <1>3, <1>4 DEF Run, Onward, Dated, Checked, Written
<1>. QED
  BY <1>2, <1>3, <1>5 DEF TrainModels
LEMMA GoesDoes ==
  ASSUME RunOK, NEW pc \in Pcs, NEW next \in Pcs, At(pc), Goto(next)
  PROVE  /\ run \in Run /\ run.pc = pc
         /\ Onward(next) /\ Dated /\ Checked /\ Trained /\ Written
BY Running, GotoDoes

LEMMA PredictDoes ==
  ASSUME RunOK, Predict
  PROVE  /\ run \in Run /\ run.pc = "predict" /\ Priced
         /\ Onward("report") /\ Dated /\ Checked /\ Trained /\ Written
         /\ output' = [output EXCEPT ![run.predict].predictions = run.id]
         /\ UNCHANGED <<storeVars, archive, latest, status, exit>>
<1>1. {"predict", "report"} \subseteq Pcs
  BY DEF Pcs
<1>. QED
  BY <1>1, GoesDoes DEF Predict

LEMMA ReportDoes ==
  ASSUME RunOK, Report
  PROVE  /\ run \in Run /\ run.pc = "report"
         /\ Onward("archive") /\ Dated /\ Checked /\ Trained /\ Written
         /\ output' = [output EXCEPT ![run.predict].top10 = run.id, ![run.predict].summary = run.id,
                                     ![run.predict].failed = FALSE]
         /\ UNCHANGED <<storeVars, archive, latest, status, exit>>
<1>1. {"archive", "report"} \subseteq Pcs
  BY DEF Pcs
<1>. QED
  BY <1>1, GoesDoes DEF Report

LEMMA ArchiveFileDoes ==
  ASSUME RunOK, ArchiveFile
  PROVE  /\ run \in Run /\ run.pc = "archive" /\ run.passed
         /\ Onward("archive") /\ Dated /\ Checked /\ Trained
         /\ run'.mirrors = run.mirrors /\ run'.statusWritten = run.statusWritten
         /\ run.filed + 1 \in 1 .. Size /\ run'.filed = run.filed + 1
         /\ LET file == ArchiveOrder[run.filed + 1]
                a == archive[run.predict]
            IN  archive' = [archive EXCEPT ![run.predict] =
                  [a EXCEPT !.files[file] = run.id,
                            !.status = IF file = "status_json" THEN 0 ELSE a.status]]
         /\ UNCHANGED <<storeVars, output, latest, status, exit>>
<1>1. "archive" \in Pcs
  BY DEF Pcs
<1>2. run \in Run /\ run.pc = "archive"
  BY <1>1, Running DEF ArchiveFile
<1>3. run.filed + 1 \in 1 .. Size /\ run.filed + 1 \in 0 .. Len(ArchiveOrder)
  BY <1>2, RunFields, SizeIs DEF ArchiveFile, Size
<1>4. run' = [run EXCEPT !.filed = run.filed + 1]
  BY DEF ArchiveFile
<1>5. /\ Onward("archive") /\ Dated /\ Checked /\ Trained
      /\ run'.mirrors = run.mirrors /\ run'.statusWritten = run.statusWritten
      /\ run'.filed = run.filed + 1
  <2>1. run' \in Run
    BY <1>2, <1>3, <1>4 DEF Run
  <2>. QED
    BY <1>2, <1>4, <2>1 DEF Run, Onward, Dated, Checked, Trained
<1>. QED
  BY <1>2, <1>3, <1>5 DEF ArchiveFile

LEMMA ArchiveMetadataDoes ==
  ASSUME RunOK, ArchiveMetadata
  PROVE  /\ run \in Run /\ run.pc = "archive" /\ run.filed = Size
         /\ Onward("unlink") /\ Dated /\ Checked /\ Trained /\ Written
         /\ LET a == archive[run.predict] IN
              archive' = [archive EXCEPT ![run.predict] =
                [a EXCEPT !.metadata = run.id, !.sha256 = [f \in Hashed |-> a.files[f]]]]
         /\ UNCHANGED <<storeVars, output, latest, status, exit>>
<1>1. {"archive", "unlink"} \subseteq Pcs
  BY DEF Pcs
<1>. QED
  BY <1>1, GoesDoes, SizeIs DEF ArchiveMetadata

LEMMA IdsAreNaturals == Ids \subseteq Nat
BY DailyAssumption DEF Ids

LEMMA ArchiveFields ==
  ASSUME ArchiveOK, NEW p \in PredictionDays
  PROVE  /\ archive[p] \in Archived
         /\ \A i \in 1 .. Size : archive[p].files[ArchiveOrder[i]] \in Nat
         /\ archive[p].metadata \in Nat /\ archive[p].status \in Ids
<1>1. archive[p] \in Archived
  BY DEF ArchiveOK
<1>2. /\ archive[p].files \in [ArchiveFiles -> Ids]
      /\ archive[p].metadata \in Ids /\ archive[p].status \in Ids
  BY <1>1 DEF Archived
<1>3. \A i \in 1 .. Size : archive[p].files[ArchiveOrder[i]] \in Ids
  BY <1>2, SizeIs
<1>. QED
  BY <1>1, <1>2, <1>3, IdsAreNaturals

(* What a copied file changes.                                               *)
LEMMA ArchiveFileWrites ==
  ASSUME RunOK, ArchiveOK, ArchiveFile
  PROVE  /\ archive' \in [PredictionDays -> Archived]
         /\ \A p \in PredictionDays :
              /\ \A f \in ArchiveFiles :
                   archive'[p].files[f] =
                     IF p = run.predict /\ f = ArchiveOrder[run.filed + 1] THEN run.id
                     ELSE archive[p].files[f]
              /\ archive'[p].metadata = archive[p].metadata
              /\ archive'[p].sha256 = archive[p].sha256
<1>. DEFINE q == run.predict
            old == archive[q]
            file == ArchiveOrder[run.filed + 1]
            files == [old.files EXCEPT ![file] = run.id]
            final == IF file = "status_json" THEN 0 ELSE old.status
            new == [old EXCEPT !.files = files, !.status = final]
<1>1. q \in PredictionDays /\ run.id \in Ids /\ file \in ArchiveFiles /\ 0 \in Ids
  BY ArchiveFileDoes, RunFields, SizeIs, DailyAssumption DEF Ids
<1>2. old \in Archived
  BY <1>1 DEF ArchiveOK
<1>3. /\ old.files \in [ArchiveFiles -> Ids] /\ old.sha256 \in [Hashed -> Ids]
      /\ old.metadata \in Ids /\ old.status \in Ids
  BY <1>2 DEF Archived
<1>4. files \in [ArchiveFiles -> Ids] /\ final \in Ids
  BY <1>1, <1>3
<1>6. archive' = [archive EXCEPT ![q] = [old EXCEPT !.files = files, !.status = final]]
  <2>1. archive' = [archive EXCEPT ![q] = [old EXCEPT !.files[file] = run.id, !.status = final]]
    BY ArchiveFileDoes
  <2>2. [old EXCEPT !.files[file] = run.id, !.status = final]
          = [old EXCEPT !.files = files, !.status = final]
    BY <1>2 DEF Archived
  <2>. QED
    BY <2>1, <2>2
<1>. HIDE DEF q, old, file, files, final
<1>7. new \in Archived
  BY <1>2, <1>4 DEF Archived
<1>8. new.files = files /\ new.sha256 = old.sha256 /\ new.metadata = old.metadata
  BY <1>2 DEF Archived
<1>. HIDE DEF new
<1>9. archive' = [archive EXCEPT ![q] = new]
  BY <1>6 DEF new
<1>10. archive' \in [PredictionDays -> Archived]
  BY <1>1, <1>7, <1>9 DEF ArchiveOK
<1>11. ASSUME NEW p \in PredictionDays
       PROVE  /\ \A f \in ArchiveFiles :
                   archive'[p].files[f] = IF p = q /\ f = file THEN run.id ELSE archive[p].files[f]
              /\ archive'[p].metadata = archive[p].metadata
              /\ archive'[p].sha256 = archive[p].sha256
  <2>1. CASE p = q
    <3>1. archive'[p] = new
      BY <1>1, <1>9, <2>1 DEF ArchiveOK
    <3>2. \A f \in ArchiveFiles : files[f] = IF f = file THEN run.id ELSE old.files[f]
      BY <1>3 DEF files
    <3>. QED
      BY <1>8, <2>1, <3>1, <3>2 DEF old
  <2>2. CASE p # q
    BY <1>9, <2>2 DEF ArchiveOK
  <2>. QED
    BY <2>1, <2>2
<1>. QED
  BY <1>10, <1>11 DEF q, file

LEMMA ArchiveMetadataWrites ==
  ASSUME RunOK, ArchiveOK, ArchiveMetadata
  PROVE  /\ archive' \in [PredictionDays -> Archived]
         /\ \A p \in PredictionDays :
              /\ archive'[p].files = archive[p].files
              /\ archive'[p].metadata = IF p = run.predict THEN run.id ELSE archive[p].metadata
              /\ archive'[p].sha256 =
                   IF p = run.predict THEN [f \in Hashed |-> archive[run.predict].files[f]]
                   ELSE archive[p].sha256
<1>. DEFINE q == run.predict
            old == archive[q]
            sums == [f \in Hashed |-> old.files[f]]
            new == [old EXCEPT !.metadata = run.id, !.sha256 = sums]
<1>1. q \in PredictionDays /\ run.id \in Ids
  BY ArchiveMetadataDoes, RunFields
<1>2. old \in Archived
  BY <1>1 DEF ArchiveOK
<1>3. old.files \in [ArchiveFiles -> Ids] /\ old.status \in Ids
  BY <1>2 DEF Archived
<1>4. sums \in [Hashed -> Ids]
  BY <1>3, HashedAreFiles
<1>6. archive' = [archive EXCEPT ![q] = [old EXCEPT !.metadata = run.id, !.sha256 = sums]]
  BY ArchiveMetadataDoes
<1>. HIDE DEF sums
<1>. HIDE DEF q, old
<1>7. new \in Archived
  BY <1>1, <1>2, <1>4 DEF Archived
<1>8. new.files = old.files /\ new.metadata = run.id /\ new.sha256 = sums
  BY <1>2 DEF Archived
<1>. HIDE DEF new
<1>9. archive' = [archive EXCEPT ![q] = new]
  BY <1>6 DEF new
<1>10. archive' \in [PredictionDays -> Archived]
  BY <1>1, <1>7, <1>9 DEF ArchiveOK
<1>11. \A p \in PredictionDays : archive'[p] = IF p = q THEN new ELSE archive[p]
  BY <1>1, <1>9 DEF ArchiveOK
<1>. QED
  BY <1>8, <1>10, <1>11 DEF q, old, sums

LEMMA RemoveLatestDoes ==
  ASSUME RunOK, RemoveLatest
  PROVE  /\ run \in Run /\ run.pc = "unlink"
         /\ Onward("mirror") /\ Dated /\ Checked /\ Trained /\ Written
         /\ latest' = [day |-> 0, copy |-> NoArchive]
         /\ UNCHANGED <<storeVars, output, archive, status, exit>>
<1>1. {"mirror", "unlink"} \subseteq Pcs
  BY DEF Pcs
<1>. QED
  BY <1>1, GoesDoes DEF RemoveLatest

LEMMA FinalStatusDoes ==
  ASSUME RunOK, FinalStatus
  PROVE  /\ run \in Run /\ run.pc = "status"
         /\ Onward("unlink") /\ Dated /\ Checked /\ Trained
         /\ run'.filed = run.filed /\ run'.mirrors = run.mirrors
         /\ WriteStatus(0)
         /\ archive' = [archive EXCEPT ![run.predict].status = run.id]
         /\ UNCHANGED <<storeVars, output, latest, exit>>
<1>1. {"status", "unlink"} \subseteq Pcs
  BY DEF Pcs
<1>2. run \in Run /\ run.pc = "status"
  BY <1>1, Running DEF FinalStatus
<1>. QED
  BY <1>1, <1>2 DEF FinalStatus, Run, Onward, Dated, Checked, Trained

LEMMA CopyLatestDoes ==
  ASSUME RunOK, CopyLatest
  PROVE  /\ run \in Run /\ run.pc = "mirror"
         /\ latest' = [day |-> run.predict, copy |-> archive[run.predict]]
         /\ UNCHANGED <<storeVars, output, archive, status>>
         /\ \/ /\ Onward("status") /\ Dated /\ Checked /\ Trained
               /\ run'.filed = run.filed /\ run'.mirrors = run.mirrors + 1 /\ UNCHANGED exit
            \/ run.mirrors = Refreshes - 1 /\ Ends(0, "success")
<1>1. {"status", "mirror"} \subseteq Pcs
  BY DEF Pcs
<1>2. run \in Run /\ run.pc = "mirror"
  BY <1>1, Running DEF CopyLatest
<1>3. run.mirrors \in 0 .. Refreshes - 1
  BY <1>2, RunFields
<1>4. CASE run.mirrors + 1 < Refreshes
  <2>1. run.mirrors + 1 \in 0 .. Refreshes - 1
    BY <1>3, <1>4 DEF Refreshes
  <2>2. /\ Onward("status") /\ Dated /\ Checked /\ Trained
        /\ run'.filed = run.filed /\ run'.mirrors = run.mirrors + 1
    <3>1. run' = [run EXCEPT !.pc = "status", !.mirrors = run.mirrors + 1]
      BY <1>4 DEF CopyLatest
    <3>. QED
      BY <1>1, <1>2, <2>1, <3>1 DEF Run, Onward, Dated, Checked, Trained
  <2>. QED
    BY <1>2, <1>4, <2>2 DEF CopyLatest
<1>5. CASE ~(run.mirrors + 1 < Refreshes)
  BY <1>2, <1>3, <1>5 DEF CopyLatest, Refreshes
<1>. QED
  BY <1>4, <1>5

Failures == Reasons \ {"success"}
Codes == {1, 130}

(* A run ends.                                                               *)
Ended == run' = Idle /\ exit'.by = run.id /\ exit'.asOf = run.asOf

(* The ways to end without success.                                          *)
Ending ==
  \/ MacroFails \/ SourcesFail \/ OnlyCheckSources \/ NoFeatures \/ TrainingRejected
  \/ WindowTooShort \/ PriceMissing \/ ArchiveRefused
  \/ \E code \in {1, 130} : Abort(code)
  \/ Kill

LEMMA EndsDoes ==
  ASSUME run \in Run, NEW code \in {0} \cup Codes, NEW reason \in Reasons, Ends(code, reason)
  PROVE  Ended /\ ExitOK' /\ exit'.reason = reason
BY RunFields DEF Ends, Ended, ExitOK, Codes

LEMMA FailsDoes ==
  ASSUME TypeInv, run \in Run, NEW code \in Codes, NEW reason \in Failures,
         Fails(code, reason)
  PROVE  /\ Ended /\ ExitOK' /\ exit'.reason = reason /\ OutputOK' /\ StatusOK'
         /\ UNCHANGED <<storeVars, archive, latest>>
<1>1. run.id \in Ids /\ run.asOf \in PredictionDays /\ run.predict \in PredictionDays
  BY RunFields
<1>2. RecordedCode \in {0, 1}
  BY DEF RecordedCode
<1>. HIDE DEF RecordedCode
<1>3. Ended /\ ExitOK' /\ exit'.reason = reason
  BY EndsDoes DEF Failures, Fails
<1>4. StatusOK'
  BY <1>1, <1>2 DEF Fails, WriteStatus, StatusOK, TypeInv
<1>5. OutputOK'
  BY <1>1 DEF Fails, FailureSummary, OutputOK, Outputs, TypeInv
<1>. QED
  BY <1>3, <1>4, <1>5 DEF Fails

LEMMA StopsDoes ==
  ASSUME TypeInv, run \in Run, NEW reason \in Failures, Stops(reason)
  PROVE  /\ Ended /\ ExitOK' /\ exit'.reason = reason /\ OutputOK' /\ StatusOK'
         /\ UNCHANGED <<storeVars, archive, latest>>
<1>1. run.id \in Ids /\ run.asOf \in PredictionDays
  BY RunFields
<1>2. Target \in PredictionDays
  BY TargetIsDay, DaysAreNaturals DEF TypeInv
<1>. HIDE DEF Target
<1>3. Ended /\ ExitOK' /\ exit'.reason = reason
  BY EndsDoes DEF Failures, Stops, Codes
<1>4. StatusOK'
  BY <1>1 DEF Stops, WriteStatus, StatusOK, TypeInv
<1>5. OutputOK'
  BY <1>1, <1>2 DEF Stops, FailureSummary, OutputOK, Outputs, TypeInv
<1>. QED
  BY <1>3, <1>4, <1>5 DEF Stops
LEMMA EndingDoes ==
  ASSUME TypeInv, Ending
  PROVE  /\ run \in Run /\ Ended /\ ExitOK' /\ exit'.reason \in Failures
         /\ OutputOK' /\ StatusOK' /\ UNCHANGED <<storeVars, archive, latest>>
<1>13. /\ {"macro", "sources", "no clean rows", "no sox history", "duplicate rows"} \subseteq Failures
      /\ {"short window", "no prev_close", "sources incomplete", "fault", "killed"} \subseteq Failures
      /\ "checked" \in Failures
  BY DEF Reasons, Failures
<1>14. 1 \in Codes
  BY DEF Codes
<1>1. {"macro", "check", "features", "training", "models", "predict", "archive"} \subseteq Pcs
  BY DEF Pcs
<1>2. RunOK
  BY DEF TypeInv
<1>3. CASE MacroFails
  <2>1. run \in Run
    BY <1>1, <1>2, <1>3, Running DEF MacroFails
  <2>. QED
    BY <1>3, <2>1, <1>13, StopsDoes DEF MacroFails
<1>4. CASE SourcesFail
  <2>1. run \in Run
    BY <1>1, <1>2, <1>4, Running DEF SourcesFail
  <2>. QED
    BY <1>4, <2>1, <1>13, StopsDoes DEF SourcesFail
<1>5. CASE OnlyCheckSources
  <2>1. run \in Run
    BY <1>1, <1>2, <1>5, Running DEF OnlyCheckSources
  <2>2. Ended /\ ExitOK' /\ exit'.reason = "checked"
    BY <1>5, <2>1, <1>13, EndsDoes DEF Failures, OnlyCheckSources
  <2>3. StatusOK'
    BY <1>5, <2>1, RunFields DEF OnlyCheckSources, WriteStatus, StatusOK, TypeInv
  <2>4. OutputOK' /\ UNCHANGED <<storeVars, archive, latest>>
    BY <1>5 DEF OnlyCheckSources, OutputOK, TypeInv
  <2>. QED
    BY <1>13, <2>1, <2>2, <2>3, <2>4
<1>6. CASE NoFeatures
  <2>1. run \in Run
    BY <1>1, <1>2, <1>6, Running DEF NoFeatures
  <2>2. Fails(1, "no clean rows") \/ Fails(1, "no sox history")
    BY <1>6 DEF NoFeatures
  <2>. QED
    BY <2>1, <2>2, <1>13, <1>14, FailsDoes
<1>7. CASE TrainingRejected
  <2>1. run \in Run
    BY <1>1, <1>2, <1>7, Running DEF TrainingRejected
  <2>. QED
    BY <1>7, <2>1, <1>13, <1>14, FailsDoes DEF TrainingRejected
<1>8. CASE WindowTooShort
  <2>1. run \in Run
    BY <1>1, <1>2, <1>8, Running DEF WindowTooShort
  <2>. QED
    BY <1>8, <2>1, <1>13, <1>14, FailsDoes DEF WindowTooShort
<1>9. CASE PriceMissing
  <2>1. run \in Run
    BY <1>1, <1>2, <1>9, Running DEF PriceMissing
  <2>. QED
    BY <1>9, <2>1, <1>13, <1>14, FailsDoes DEF PriceMissing
<1>10. CASE ArchiveRefused
  <2>1. run \in Run
    BY <1>1, <1>2, <1>10, Running DEF ArchiveRefused
  <2>. QED
    BY <1>10, <2>1, <1>13, <1>14, FailsDoes DEF ArchiveRefused
<1>11. ASSUME NEW code \in {1, 130}, Abort(code) 
      PROVE  /\ run \in Run /\ Ended /\ ExitOK' /\ exit'.reason \in Failures
             /\ OutputOK' /\ StatusOK' /\ UNCHANGED <<storeVars, archive, latest>>
  <2>1. run \in Run
    BY <1>2, <1>11 DEF Abort, RunOK
  <2>2. Fails(code, "fault")
    BY <1>11 DEF Abort
  <2>. QED
    <3>1. "fault" \in Failures
      BY <1>13
    <3>2. code \in Codes
      BY <1>11 DEF Codes
    <3>3. exit'.reason = "fault" /\ Ended /\ ExitOK' /\ OutputOK' /\ StatusOK'
          /\ UNCHANGED <<storeVars, archive, latest>>
      BY <2>1, <2>2, <3>1, <3>2, FailsDoes
    <3>. QED
      BY <2>1, <3>1, <3>3
<1>12. CASE Kill
  <2>1. run \in Run
    BY <1>2, <1>12 DEF Kill, RunOK
  <2>2. Ended /\ ExitOK' /\ exit'.reason = "killed"
    BY <1>12, <2>1, <1>13, <1>14, EndsDoes DEF Failures, Kill
  <2>. QED
    BY <1>12, <1>13, <2>1, <2>2 DEF Kill, runVars, OutputOK, StatusOK, TypeInv
<1>. QED
  BY <1>3, <1>4, <1>5, <1>6, <1>7, <1>8, <1>9, <1>10, <1>11, <1>12 DEF Ending
(* What the successful steps of a run change.                                *)
Working ==
  \/ Download \/ WriteClean \/ DownloadMacro \/ CheckSources \/ UpdateFeatures \/ UpdateTraining
  \/ TrainModels \/ Predict \/ Report \/ ArchiveFile \/ ArchiveMetadata
  \/ RemoveLatest \/ CopyLatest \/ FinalStatus

Starting ==
  /\ run = Idle
  /\ run' \in Run /\ run'.pc = "download" /\ run'.asOf \in History + 1 .. today
  /\ run'.id = runs + 1 /\ run'.update = run'.asOf - 1 /\ run'.predict = run'.asOf
  /\ run'.fallback = FALSE /\ run'.window = {} /\ run'.filed = 0 /\ run'.mirrors = 0
  /\ run'.force \in setup.forces /\ (run'.asOf = today \/ setup.backdated)
  /\ runs < setup.runs /\ runs' = runs + 1 /\ exit' = NotEnded
  /\ UNCHANGED <<storeVars, setup, runVars, today, faults>>

LEMMA SetupIs ==
  ASSUME CountersOK
  PROVE  /\ setup \in Setup /\ setup.forces \subseteq BOOLEAN
         /\ setup.modes \subseteq {"normal", "no_download", "check_sources"}
         /\ setup.runs <= MaxRuns /\ setup.faults <= MaxFaults
         /\ setup.runs \in Nat /\ setup.faults \in Nat
         /\ setup.backdated \in BOOLEAN /\ setup.strict \in BOOLEAN
BY DailyAssumption DEF CountersOK, Setup

LEMMA StartRunDoes ==
  ASSUME StoreOK, CountersOK, NEW asOf \in PredictionDays, NEW mode \in setup.modes,
         NEW force \in setup.forces, StartRun(asOf, mode, force)
  PROVE  Starting
<1>1. /\ "download" \in Pcs /\ mode \in {"normal", "no_download", "check_sources"}
      /\ force \in BOOLEAN
  BY SetupIs DEF Pcs
<1>2. runs + 1 \in Ids /\ runs < setup.runs
  BY SetupIs, DailyAssumption DEF StartRun, CountersOK, Ids
<1>3. asOf \in History + 1 .. today /\ (asOf = today \/ setup.backdated)
  BY TradingStoreAssumption DEF StartRun, CountersOK
<1>4. asOf - 1 \in Days
  BY <1>3, TradingStoreAssumption DEF CountersOK, Days
<1>5. LatestClean \in 0 .. LastDay
  BY LatestCleanIs DEF StoreOK
<1>6. NoRows \in [Tickers -> Quality] /\ 0 \in 0 .. Refreshes - 1
  BY DEF NoRows, Quality, Refreshes
<1>7. /\ run = Idle /\ runs' = runs + 1 /\ exit' = NotEnded
      /\ UNCHANGED <<storeVars, setup, runVars, today, faults>>
      /\ run' = [pc |-> "download", id |-> runs + 1, asOf |-> asOf, mode |-> mode, force |-> force,
                 latestClean |-> LatestClean, update |-> asOf - 1, predict |-> asOf,
                 daily |-> NoRows, fallback |-> FALSE, passed |-> FALSE, window |-> {},
                 filed |-> 0, mirrors |-> 0, statusWritten |-> FALSE]
  BY DEF StartRun
<1>8. run' \in Run
  <2>1. 0 \in 0 .. Len(ArchiveOrder)
    BY SizeIs DEF Size
  <2>. HIDE DEF LatestClean, NoRows
  <2>. QED
    BY <1>1, <1>2, <1>4, <1>5, <1>6, <1>7, <2>1 DEF Run
<1>. QED
  BY <1>2, <1>3, <1>7, <1>8 DEF Starting

(* Every step of the update is of one of five kinds.                         *)
LEMMA NextKinds ==
  ASSUME TypeInv, [Next]_vars
  PROVE  \/ Starting
         \/ Working /\ UNCHANGED <<setup, today, runs, faults>>
         \/ Ending /\ UNCHANGED <<setup, today, runs>> /\ faults' \in 0 .. MaxFaults
         \/ /\ run = Idle /\ today' = today + 1 /\ today < LastDay + 1
            /\ UNCHANGED <<storeVars, setup, runVars, run, runs, faults, exit>>
         \/ UNCHANGED vars
<1>1. CASE \E asOf \in PredictionDays, mode \in setup.modes, force \in setup.forces :
             StartRun(asOf, mode, force)
  BY <1>1, StartRunDoes DEF TypeInv
<1>2. CASE RunStep
  <2>1. Working \/ Ending
    BY <1>2 DEF RunStep, Step, Working, Ending
  <2>2. UNCHANGED <<setup, today, runs, faults>> /\ faults \in 0 .. MaxFaults
    BY <1>2 DEF RunStep, TypeInv, CountersOK
  <2>. QED
    BY <2>1, <2>2
<1>3. ASSUME NEW code \in {1, 130}, Abort(code)
      PROVE  Ending /\ UNCHANGED <<setup, today, runs>> /\ faults' \in 0 .. MaxFaults
  BY <1>3, SetupIs, DailyAssumption DEF Abort, Ending, TypeInv, CountersOK
<1>4. CASE Kill
  BY <1>4, SetupIs, DailyAssumption DEF Kill, Ending, TypeInv, CountersOK
<1>5. CASE NextDay
  BY <1>5 DEF NextDay
<1>. QED
  BY <1>1, <1>2, <1>3, <1>4, <1>5 DEF Next
LEMMA TypeInit == Init => TypeInv
<1>. SUFFICES ASSUME Init PROVE TypeInv
  OBVIOUS
<1>1. StoreOK
  <2>1. \A d \in 1 .. History : d \in Days
    BY TradingStoreAssumption DEF Days
  <2>2. raw \in [Keys -> Quality]
    BY DEF Init, StoreInit, Quality
  <2>3. clean \subseteq Keys /\ features \subseteq Keys
    BY <2>1 DEF Init, StoreInit, Keys
  <2>4. macro \in [Days -> 0 .. LastDay]
    BY <2>1, TradingStoreAssumption DEF Init, StoreInit, Days
  <2>5. training \subseteq TrainingRows
    <3>1. \A d \in 1 .. History - 1 : d \in Days /\ d + 1 \in Days
      BY TradingStoreAssumption DEF Days
    <3>. QED
      BY <3>1 DEF Init, StoreInit, TrainingRows
  <2>. QED
    BY <2>2, <2>3, <2>4, <2>5 DEF StoreOK
<1>2. RunOK
  BY DEF Init, RunOK
<1>3. CountersOK
  BY TradingStoreAssumption, DailyAssumption DEF Init, CountersOK, Ids
<1>4. 0 \in Ids /\ 0 \in 0 .. LastDay + 1
  BY TradingStoreAssumption, DailyAssumption DEF Ids
<1>5. ExitOK /\ OutputOK /\ ArchiveOK /\ LatestOK /\ StatusOK
  <2>1. NoArchive \in Archived
    BY <1>4 DEF NoArchive, ArchiveOf, Archived
  <2>. QED
    BY <1>4, <2>1
    DEF Init, ExitOK, OutputOK, ArchiveOK, LatestOK, StatusOK, NotEnded, Reasons, Outputs
<1>. QED
  BY <1>1, <1>2, <1>3, <1>5 DEF TypeInv

LEMMA TypeKept ==
  ASSUME TypeInv, [Next]_vars
  PROVE  TypeInv'
<1>. USE DEF TypeInv
<1>1. CASE Starting
  <2>1. RunOK'
    BY <1>1, RunFields DEF Starting, RunOK, CountersOK
  <2>2. CountersOK'
    <3>1. runs + 1 \in Ids
      BY <1>1, SetupIs, DailyAssumption DEF Starting, CountersOK, Ids
    <3>. QED
      BY <1>1, <3>1 DEF Starting, CountersOK
  <2>3. ExitOK'
    <3>1. 0 \in Ids /\ "none" \in Reasons
      BY DailyAssumption DEF Ids, Reasons
    <3>. QED
      BY <1>1, <3>1 DEF Starting, ExitOK, NotEnded
  <2>. QED
    BY <1>1, <2>1, <2>2, <2>3 DEF Starting, storeVars, runVars, StoreOK, OutputOK, ArchiveOK,
                                   LatestOK, StatusOK
<1>2. ASSUME Working, UNCHANGED <<setup, today, runs, faults>>
      PROVE  TypeInv'
  <2>1. CountersOK'
    BY <1>2 DEF CountersOK
  <2>2. ASSUME NEW pc, run \in Run, Onward(pc)
        PROVE  RunOK'
    BY <1>2, <2>2, RunFields DEF Onward, RunOK
  <2>3. ASSUME run \in Run, UNCHANGED storeVars PROVE StoreOK'
    BY <2>3 DEF storeVars, StoreOK
  <2>4. ASSUME UNCHANGED runVars
        PROVE  OutputOK' /\ ArchiveOK' /\ LatestOK' /\ StatusOK'
    BY <2>4 DEF runVars, OutputOK, ArchiveOK, LatestOK, StatusOK
  <2>5. ASSUME UNCHANGED exit PROVE ExitOK'
    BY <2>5 DEF ExitOK
  <2>6. ASSUME run \in Run
        PROVE  run.id \in Ids /\ run.predict \in PredictionDays /\ run.asOf \in PredictionDays
    BY <2>6, RunFields
  <2>7. CASE Download
    BY <2>1, <2>2, <2>4, <2>5, <2>7, DownloadDoes DEF StoreOK
  <2>8. CASE WriteClean
    BY <2>1, <2>2, <2>4, <2>5, <2>8, WriteCleanDoes DEF StoreOK
  <2>9. CASE DownloadMacro
    BY <2>1, <2>2, <2>4, <2>5, <2>9, DownloadMacroDoes DEF StoreOK
  <2>10. CASE CheckSources
    BY <2>1, <2>2, <2>3, <2>4, <2>5, <2>10, CheckSourcesDoes
  <2>11. CASE UpdateFeatures
    BY <2>1, <2>2, <2>4, <2>5, <2>11, UpdateFeaturesDoes DEF StoreOK
  <2>12. CASE UpdateTraining
    BY <2>1, <2>2, <2>4, <2>5, <2>12, UpdateTrainingDoes DEF StoreOK
  <2>13. CASE TrainModels
    <3>1. run \in Run /\ RunOK' /\ StoreOK' /\ ExitOK'
      BY <2>2, <2>3, <2>5, <2>13, TrainModelsDoes
    <3>2. OutputOK'
      BY <2>6, <2>13, <3>1, TrainModelsDoes DEF OutputOK, Outputs
    <3>. QED
      BY <2>1, <2>13, <3>1, <3>2, TrainModelsDoes DEF ArchiveOK, LatestOK, StatusOK
  <2>14. CASE Predict
    <3>1. run \in Run /\ RunOK' /\ StoreOK' /\ ExitOK'
      BY <2>2, <2>3, <2>5, <2>14, PredictDoes
    <3>2. OutputOK'
      BY <2>6, <2>14, <3>1, PredictDoes DEF OutputOK, Outputs
    <3>. QED
      BY <2>1, <2>14, <3>1, <3>2, PredictDoes DEF ArchiveOK, LatestOK, StatusOK
  <2>15. CASE Report
    <3>1. run \in Run /\ RunOK' /\ StoreOK' /\ ExitOK'
      BY <2>2, <2>3, <2>5, <2>15, ReportDoes
    <3>2. OutputOK'
      BY <2>6, <2>15, <3>1, ReportDoes DEF OutputOK, Outputs
    <3>. QED
      BY <2>1, <2>15, <3>1, <3>2, ReportDoes DEF ArchiveOK, LatestOK, StatusOK
  <2>16. CASE ArchiveFile
    <3>1. run \in Run /\ RunOK' /\ StoreOK' /\ ExitOK'
      BY <2>2, <2>3, <2>5, <2>16, ArchiveFileDoes
    <3>2. ArchiveOK'
      BY <2>16, ArchiveFileWrites DEF ArchiveOK
    <3>. QED
      BY <2>1, <2>16, <3>1, <3>2, ArchiveFileDoes DEF OutputOK, LatestOK, StatusOK
  <2>18. CASE ArchiveMetadata
    <3>1. run \in Run /\ RunOK' /\ StoreOK' /\ ExitOK'
      BY <2>2, <2>3, <2>5, <2>18, ArchiveMetadataDoes
    <3>2. ArchiveOK'
      BY <2>18, ArchiveMetadataWrites DEF ArchiveOK
    <3>. QED
      BY <2>1, <2>18, <3>1, <3>2, ArchiveMetadataDoes DEF OutputOK, LatestOK, StatusOK
  <2>19. CASE RemoveLatest
    <3>1. run \in Run /\ RunOK' /\ StoreOK' /\ ExitOK'
      BY <2>2, <2>3, <2>5, <2>19, RemoveLatestDoes
    <3>2. LatestOK'
      <4>1. NoArchive \in Archived /\ 0 \in 0 .. LastDay + 1
        BY DailyAssumption, TradingStoreAssumption DEF Archived, NoArchive, ArchiveOf, Ids
      <4>. QED
        BY <2>19, <4>1, RemoveLatestDoes DEF LatestOK
    <3>. QED
      BY <2>1, <2>19, <3>1, <3>2, RemoveLatestDoes DEF OutputOK, ArchiveOK, StatusOK
  <2>20. CASE CopyLatest
    <3>1. run \in Run /\ StoreOK'
      BY <2>3, <2>20, CopyLatestDoes
    <3>2. LatestOK'
      BY <2>6, <2>20, <3>1, CopyLatestDoes, TradingStoreAssumption
      DEF LatestOK, ArchiveOK, PredictionDays
    <3>3. RunOK' /\ ExitOK'
      <4>1. CASE Onward("status") /\ UNCHANGED exit
        BY <2>2, <2>5, <3>1, <4>1
      <4>2. CASE Ends(0, "success")
        BY <2>6, <3>1, <4>2 DEF Ends, RunOK, ExitOK, Reasons
      <4>. QED
        BY <2>20, <4>1, <4>2, CopyLatestDoes
    <3>. QED
      BY <2>1, <2>20, <3>1, <3>2, <3>3, CopyLatestDoes DEF OutputOK, ArchiveOK, StatusOK
  <2>21. CASE FinalStatus
    <3>1. run \in Run /\ RunOK' /\ StoreOK' /\ ExitOK'
      BY <2>2, <2>3, <2>5, <2>21, FinalStatusDoes
    <3>2. ArchiveOK'
      BY <2>6, <2>21, <3>1, FinalStatusDoes DEF ArchiveOK, Archived
    <3>3. StatusOK'
      BY <2>6, <2>21, <3>1, FinalStatusDoes DEF StatusOK, WriteStatus
    <3>. QED
      BY <2>1, <2>21, <3>1, <3>2, <3>3, FinalStatusDoes DEF OutputOK, LatestOK
  <2>. QED
    BY <1>2, <2>7, <2>8, <2>9, <2>10, <2>11, <2>12, <2>13, <2>14, <2>15, <2>16, <2>18, <2>19,
       <2>20, <2>21 DEF Working
<1>3. ASSUME Ending, UNCHANGED <<setup, today, runs>>, faults' \in 0 .. MaxFaults
      PROVE  TypeInv'
  BY <1>3, EndingDoes DEF Ended, StoreOK, storeVars, RunOK, CountersOK, ArchiveOK, LatestOK
<1>4. ASSUME run = Idle, today' = today + 1, today < LastDay + 1,
             UNCHANGED <<storeVars, setup, runVars, run, runs, faults, exit>>
      PROVE  TypeInv'
  BY <1>4, TradingStoreAssumption
  DEF StoreOK, storeVars, RunOK, CountersOK, ExitOK, OutputOK, ArchiveOK, LatestOK, StatusOK, runVars
<1>5. CASE UNCHANGED vars
  BY <1>5 DEF vars, StoreOK, storeVars, RunOK, CountersOK, ExitOK, OutputOK, ArchiveOK, LatestOK,
              StatusOK, runVars
<1>. QED
  BY <1>1, <1>2, <1>3, <1>4, <1>5, NextKinds

LEMMA TypeAlways == Spec => []TypeInv
BY TypeInit, TypeKept, PTL DEF Spec

(* Every variable of the daily update keeps its type.                        *)
THEOREM TypeCorrect == Spec => []TypeOK
BY TypeAlways, TypeInvType, PTL
(* Archives and results --------------------------------------------------- *)
Collecting ==
  Download \/ WriteClean \/ DownloadMacro \/ CheckSources \/ UpdateFeatures \/ UpdateTraining
Early == {"download", "clean", "macro", "check", "features", "training", "models"}

(* The steps up to the training leave alone what runs publish.               *)
LEMMA CollectingDoes ==
  ASSUME TypeInv, Collecting
  PROVE  /\ run \in Run /\ run.pc \in Early /\ run' \in Run /\ run'.pc \in Early
         /\ run'.id = run.id /\ run'.asOf = run.asOf /\ Trained /\ Written
         /\ UNCHANGED runVars /\ exit' = exit
<1>. USE DEF TypeInv, Onward, Early
<1>1. CASE Download
  BY <1>1, DownloadDoes
<1>2. CASE WriteClean
  BY <1>2, WriteCleanDoes
<1>3. CASE DownloadMacro
  BY <1>3, DownloadMacroDoes
<1>4. CASE CheckSources
  BY <1>4, CheckSourcesDoes
<1>5. CASE UpdateFeatures
  BY <1>5, UpdateFeaturesDoes
<1>6. CASE UpdateTraining
  BY <1>6, UpdateTrainingDoes
<1>. QED
  BY <1>1, <1>2, <1>3, <1>4, <1>5, <1>6 DEF Collecting

Mirroring == {"unlink", "mirror", "status"}

(* What a run has put in the archive of its day so far.                        *)
Filed ==
  LET a == archive[run.predict] IN
  /\ \A i \in 1 .. run.filed : a.files[ArchiveOrder[i]] = run.id
  /\ run.pc \notin {"archive"} \cup Mirroring => run.filed = 0
  /\ run.pc \in Mirroring => run.filed = Size /\ a.metadata = run.id

(* A file is of no earlier run than the next one, the last of no earlier run than *)
(* the metadata, and the hashes were made of files of the run of the metadata.   *)
InOrder(a) ==
  /\ \A i, j \in 1 .. Size :
       i <= j => a.files[ArchiveOrder[j]] <= a.files[ArchiveOrder[i]]
  /\ \A i \in 1 .. Size : a.metadata <= a.files[ArchiveOrder[i]]
  /\ \A f \in Hashed : a.sha256[f] = a.metadata

(* Inductive: every archive is in that order, no file of it later than the last   *)
(* run; a run that mirrors has written all of them.                             *)
ArchiveInv ==
  /\ \A p \in PredictionDays :
       /\ InOrder(archive[p])
       /\ \A i \in 1 .. Size : archive[p].files[ArchiveOrder[i]] <= runs
  /\ run \in Run => Filed
  /\ \A f \in ArchiveFiles : latest.copy.files[f] = latest.copy.metadata

LEMMA ArchiveKept ==
  ASSUME TypeInv, ArchiveInv, [Next]_vars
  PROVE  ArchiveInv'
<1>. USE DEF ArchiveInv, TypeInv
<1>1. Ids \subseteq Nat /\ runs \in Nat
  BY DailyAssumption DEF Ids, CountersOK
<1>2. CASE Starting
  <2>1. Filed'
    BY <1>2 DEF Starting, Filed, Mirroring
  <2>2. archive' = archive /\ latest' = latest /\ runs' = runs + 1
    BY <1>2 DEF Starting, runVars
  <2>3. \A p \in PredictionDays, i \in 1 .. Size :
          archive[p].files[ArchiveOrder[i]] <= runs + 1
    <3>1. \A p \in PredictionDays, i \in 1 .. Size :
            /\ archive[p].files[ArchiveOrder[i]] \in Nat
            /\ archive[p].files[ArchiveOrder[i]] <= runs
      BY ArchiveFields
    <3>. QED
      BY <1>1, <3>1
  <2>. QED
    BY <1>2, <2>1, <2>2, <2>3 DEF Starting
<1>3. ASSUME Working, UNCHANGED <<setup, today, runs, faults>>
      PROVE  ArchiveInv'
  <2>1. CASE Collecting
    <3>1. Filed'
      BY <2>1, CollectingDoes DEF Filed, Mirroring, Early, Written
    <3>. QED
      BY <1>3, <2>1, <3>1, CollectingDoes DEF runVars
  <2>2. CASE TrainModels
    BY <1>3, <2>2, TrainModelsDoes DEF Filed, Mirroring, Onward, Dated, Written
  <2>3. CASE Predict
    BY <1>3, <2>3, PredictDoes DEF Filed, Mirroring, Onward, Dated, Written
  <2>4. CASE Report
    BY <1>3, <2>4, ReportDoes DEF Filed, Mirroring, Onward, Dated, Written
  <2>5. ASSUME run \in Run
        PROVE  run.predict \in PredictionDays /\ run.id = runs
    BY <2>5, RunFields DEF RunOK
  <2>6. CASE ArchiveFile
    <3>1. /\ run \in Run /\ run.pc = "archive" /\ run'.pc = "archive"
          /\ run'.predict = run.predict /\ run'.id = run.id
          /\ run.filed + 1 \in 1 .. Size /\ run'.filed = run.filed + 1
          /\ run.filed \in Nat
      BY <2>6, ArchiveFileDoes, RunFields DEF Onward, Dated
    <3>2. \A p \in PredictionDays :
            /\ \A f \in ArchiveFiles :
                 archive'[p].files[f] =
                   IF p = run.predict /\ f = ArchiveOrder[run.filed + 1] THEN run.id
                   ELSE archive[p].files[f]
            /\ archive'[p].metadata = archive[p].metadata
            /\ archive'[p].sha256 = archive[p].sha256
      BY <2>6, ArchiveFileWrites
    <3>3. \A p \in PredictionDays, i \in 1 .. Size :
            archive'[p].files[ArchiveOrder[i]] =
              IF p = run.predict /\ i = run.filed + 1 THEN run.id
              ELSE archive[p].files[ArchiveOrder[i]]
      BY <3>1, <3>2, SizeIs, OrderIsOneToOne
    <3>4. \A i \in 1 .. run.filed : archive[run.predict].files[ArchiveOrder[i]] = run.id
      BY <3>1 DEF Filed
    <3>5. ASSUME NEW p \in PredictionDays
          PROVE  /\ InOrder(archive'[p])
                 /\ \A i \in 1 .. Size : archive'[p].files[ArchiveOrder[i]] <= runs
      <4>1. InOrder(archive[p])
        OBVIOUS
      <4>2. \A i \in 1 .. Size :
              /\ archive[p].files[ArchiveOrder[i]] \in Nat
              /\ archive[p].files[ArchiveOrder[i]] <= runs
        BY ArchiveFields
      <4>3. archive[p].metadata \in Nat
        BY ArchiveFields
      <4>4. run.id = runs
        BY <2>5, <3>1
      <4>5. CASE p = run.predict
        <5>1. ASSUME NEW i \in 1 .. Size
              PROVE  /\ archive'[p].files[ArchiveOrder[i]] <= runs
                     /\ archive'[p].metadata <= archive'[p].files[ArchiveOrder[i]]
          BY <1>1, <3>2, <3>3, <4>1, <4>2, <4>3, <4>4, <4>5 DEF InOrder
        <5>2. ASSUME NEW i \in 1 .. Size, NEW j \in 1 .. Size, i <= j
              PROVE  archive'[p].files[ArchiveOrder[j]] <= archive'[p].files[ArchiveOrder[i]]
          <6>1. CASE i = run.filed + 1
            BY <1>1, <3>3, <4>2, <4>4, <4>5, <6>1
          <6>2. CASE i # run.filed + 1 /\ j = run.filed + 1
            <7>1. i \in 1 .. run.filed
              BY <3>1, <5>2, <6>2 DEF Size
            <7>. QED
              BY <1>1, <3>3, <3>4, <4>4, <4>5, <6>2, <7>1
          <6>3. CASE i # run.filed + 1 /\ j # run.filed + 1
            BY <3>3, <4>1, <5>2, <6>3 DEF InOrder
          <6>. QED
            BY <6>1, <6>2, <6>3
        <5>3. \A f \in Hashed : archive'[p].sha256[f] = archive'[p].metadata
          BY <3>2, <4>1 DEF InOrder
        <5>. QED
          BY <5>1, <5>2, <5>3 DEF InOrder
      <4>6. CASE p # run.predict
        <5>1. \A i \in 1 .. Size :
                archive'[p].files[ArchiveOrder[i]] = archive[p].files[ArchiveOrder[i]]
          BY <3>3, <4>6
        <5>2. archive'[p].metadata = archive[p].metadata /\ archive'[p].sha256 = archive[p].sha256
          BY <3>2
        <5>. QED
          BY <4>1, <4>2, <5>1, <5>2 DEF InOrder
      <4>. QED
        BY <4>5, <4>6
    <3>6. Filed'
      <4>1. \A i \in 1 .. run.filed + 1 :
              archive'[run.predict].files[ArchiveOrder[i]] = run.id
        <5>1. \A i \in 1 .. run.filed + 1 :
                i \in 1 .. Size /\ (i # run.filed + 1 => i \in 1 .. run.filed)
          BY <3>1 DEF Size
        <5>. QED
          BY <2>5, <3>1, <3>3, <3>4, <5>1
      <4>. QED
        BY <3>1, <4>1 DEF Filed, Mirroring
    <3>7. latest' = latest
      BY <2>6, ArchiveFileDoes
    <3>. QED
      BY <1>3, <3>5, <3>6, <3>7
  <2>8. CASE ArchiveMetadata
    <3>1. /\ run \in Run /\ run.pc = "archive" /\ run.filed = Size
          /\ run'.pc = "unlink" /\ run'.predict = run.predict /\ run'.id = run.id
          /\ run'.filed = Size
      BY <2>8, ArchiveMetadataDoes DEF Onward, Dated, Written
    <3>2. \A p \in PredictionDays :
            /\ archive'[p].files = archive[p].files
            /\ archive'[p].metadata = IF p = run.predict THEN run.id ELSE archive[p].metadata
            /\ archive'[p].sha256 =
                 IF p = run.predict THEN [f \in Hashed |-> archive[run.predict].files[f]]
                 ELSE archive[p].sha256
      BY <2>8, ArchiveMetadataWrites
    <3>3. \A i \in 1 .. Size : archive[run.predict].files[ArchiveOrder[i]] = run.id
      BY <3>1 DEF Filed
    <3>4. \A f \in Hashed : archive[run.predict].files[f] = run.id
      BY <3>3, SizeIs, HashedAreFiles
    <3>5. ASSUME NEW p \in PredictionDays
          PROVE  /\ InOrder(archive'[p])
                 /\ \A i \in 1 .. Size : archive'[p].files[ArchiveOrder[i]] <= runs
      <4>1. /\ InOrder(archive[p])
            /\ \A i \in 1 .. Size : archive[p].files[ArchiveOrder[i]] <= runs
        OBVIOUS
      <4>2. CASE p = run.predict
        <5>1. run.id \in Nat
          BY <1>1, <2>5, <3>1
        <5>2. \A i \in 1 .. Size : archive'[p].files[ArchiveOrder[i]] = run.id
          BY <3>2, <3>3, <4>2
        <5>3. archive'[p].metadata = run.id
          BY <3>2, <4>2
        <5>4. \A f \in Hashed : archive'[p].sha256[f] = run.id
          <6>1. archive'[p].sha256 = [f \in Hashed |-> archive[run.predict].files[f]]
            BY <3>2, <4>2
          <6>. QED
            BY <3>4, <6>1
        <5>. QED
          <6>1. run.id <= run.id /\ run.id <= runs
            BY <1>1, <2>5, <3>1, <5>1
          <6>. QED
            BY <5>2, <5>3, <5>4, <6>1 DEF InOrder
      <4>3. CASE p # run.predict
        BY <3>2, <4>1, <4>3 DEF InOrder
      <4>. QED
        BY <4>2, <4>3
    <3>6. Filed'
      <4>1. /\ archive'[run.predict].files = archive[run.predict].files
            /\ archive'[run.predict].metadata = run.id
        BY <2>5, <3>1, <3>2
      <4>2. \A i \in 1 .. Size : archive'[run.predict].files[ArchiveOrder[i]] = run.id
        BY <3>3, <4>1
      <4>. QED
        BY <3>1, <4>1, <4>2 DEF Filed, Mirroring
    <3>7. latest' = latest
      BY <2>8, ArchiveMetadataDoes
    <3>. QED
      BY <1>3, <3>5, <3>6, <3>7
  <2>9. CASE RemoveLatest
    <3>1. Filed'
      BY <2>9, RemoveLatestDoes DEF Filed, Mirroring, Onward, Dated, Written
    <3>2. \A f \in ArchiveFiles : NoArchive.files[f] = NoArchive.metadata
      BY DEF NoArchive, ArchiveOf
    <3>3. latest'.copy = NoArchive /\ archive' = archive
      BY <2>9, RemoveLatestDoes
    <3>. QED
      BY <1>3, <3>1, <3>2, <3>3
  <2>10. CASE CopyLatest
    <3>1. run \in Run /\ run.pc = "mirror" /\ latest'.copy = archive[run.predict]
      BY <2>10, CopyLatestDoes
    <3>2. \A f \in ArchiveFiles : latest'.copy.files[f] = latest'.copy.metadata
      <4>1. /\ \A i \in 1 .. Size : archive[run.predict].files[ArchiveOrder[i]] = run.id
            /\ archive[run.predict].metadata = run.id
        BY <3>1 DEF Filed, Mirroring
      <4>. QED
        BY <3>1, <4>1, SizeIs
    <3>3. run' \in Run => Filed'
      <4>1. CASE Onward("status") /\ Dated /\ run'.filed = run.filed
        <5>1. /\ run'.pc = "status" /\ run'.predict = run.predict /\ run'.id = run.id
              /\ run'.filed = run.filed /\ archive' = archive
          BY <2>10, <4>1, CopyLatestDoes DEF Onward, Dated
        <5>2. /\ \A i \in 1 .. run.filed : archive[run.predict].files[ArchiveOrder[i]] = run.id
              /\ run.filed = Size /\ archive[run.predict].metadata = run.id
          BY <3>1 DEF Filed, Mirroring
        <5>. QED
          BY <5>1, <5>2 DEF Filed, Mirroring
      <4>2. CASE run' = Idle
        BY <4>2, IdleIsNoRun
      <4>. QED
        BY <2>10, <4>1, <4>2, CopyLatestDoes DEF Ends
    <3>. QED
      BY <1>3, <2>10, <3>2, <3>3, CopyLatestDoes
  <2>11. CASE FinalStatus
    <3>1. /\ run \in Run /\ archive' = [archive EXCEPT ![run.predict].status = run.id]
          /\ run.pc = "status" /\ run'.filed = run.filed
          /\ run'.pc = "unlink" /\ run'.predict = run.predict /\ run'.id = run.id
      BY <2>11, FinalStatusDoes DEF Onward, Dated
    <3>2. \A p \in PredictionDays : /\ archive'[p].files = archive[p].files
                                   /\ archive'[p].metadata = archive[p].metadata
                                   /\ archive'[p].sha256 = archive[p].sha256
      BY <2>5, <3>1 DEF ArchiveOK, Archived
    <3>3. Filed'
      BY <2>5, <3>1, <3>2 DEF Filed, Mirroring
    <3>4. \A p \in PredictionDays :
            /\ InOrder(archive'[p])
            /\ \A i \in 1 .. Size : archive'[p].files[ArchiveOrder[i]] <= runs
      BY <3>2 DEF InOrder
    <3>. QED
      BY <1>3, <2>11, <3>3, <3>4, FinalStatusDoes
  <2>. QED
    BY <1>3, <2>1, <2>2, <2>3, <2>4, <2>6, <2>8, <2>9, <2>10, <2>11 DEF Working, Collecting
<1>4. ASSUME Ending, UNCHANGED <<setup, today, runs>>
      PROVE  ArchiveInv'
  BY <1>4, EndingDoes, IdleIsNoRun DEF Ended
<1>5. CASE UNCHANGED <<storeVars, setup, runVars, run, runs, faults, exit>>
  BY <1>5 DEF runVars, Filed
<1>. QED
  BY <1>2, <1>3, <1>4, <1>5, NextKinds DEF vars, runVars
LEMMA ArchiveInit == Init => ArchiveInv
<1>. SUFFICES ASSUME Init PROVE ArchiveInv
  OBVIOUS
<1>1. /\ \A f \in ArchiveFiles : NoArchive.files[f] = 0
      /\ \A f \in Hashed : NoArchive.sha256[f] = 0
      /\ NoArchive.metadata = 0
  BY DEF NoArchive, ArchiveOf
<1>2. \A i \in 1 .. Size : NoArchive.files[ArchiveOrder[i]] = 0
  BY <1>1, SizeIs
<1>3. InOrder(NoArchive)
  BY <1>1, <1>2 DEF InOrder
<1>. QED
  BY <1>1, <1>2, <1>3, IdleIsNoRun DEF Init, ArchiveInv

LEMMA ArchiveAlways == Spec => []ArchiveInv
BY TypeAlways, ArchiveInit, ArchiveKept, PTL DEF Spec

LEMMA OrderedShows ==
  ASSUME TypeInv, NEW p \in PredictionDays, InOrder(archive[p]),
         NEW f \in ArchiveFiles \ {"top10_csv"}, archive[p].files[f] # archive[p].metadata
  PROVE  archive[p].files["top10_xlsx"] # archive[p].sha256["top10_xlsx"]
<1>1. PICK i \in 1 .. Size : f = ArchiveOrder[i]
  BY SizeIs
<1>2. 2 \in 1 .. Size /\ 2 <= i
  BY <1>1, FirstFiles DEF Size
<1>3. /\ archive[p].files[f] \in Nat /\ archive[p].files["top10_xlsx"] \in Nat
      /\ archive[p].metadata \in Nat
  BY <1>1, <1>2, ArchiveFields, FirstFiles DEF TypeInv
<1>4. /\ archive[p].metadata <= archive[p].files[f]
      /\ archive[p].files[f] <= archive[p].files["top10_xlsx"]
      /\ archive[p].sha256["top10_xlsx"] = archive[p].metadata
  BY <1>1, <1>2, FirstFiles DEF InOrder
<1>. QED
  BY <1>3, <1>4

(* A mixed archive shows in its hashes, unless it is the Top10 CSV alone that is  *)
(* of another run; the mirror is made of an archive of one run.                 *)
THEOREM ArchiveCorrect == Spec => []MixedArchiveShows
<1>1. TypeInv /\ ArchiveInv => MixedArchiveShows
  BY OrderedShows, FirstFiles DEF ArchiveInv, MixedArchiveShows
<1>. QED
  BY <1>1, TypeAlways, ArchiveAlways, PTL

(* The results of a run for the day that it predicts, as far as it has come.    *)
Published ==
  LET o == output[run.predict] IN
  /\ run.pc \notin Early => o.models = run.id
  /\ run.pc \notin Early \cup {"predict"} => o.predictions = run.id
  /\ run.pc \notin Early \cup {"predict", "report"} =>
       o.top10 = run.id /\ o.summary = run.id /\ o.failed = FALSE
  /\ run.pc \notin Mirroring => run.mirrors = 0
  /\ run.pc \in {"unlink", "mirror"} /\ run.mirrors # 0 =>
       /\ archive[run.predict].status = run.id
       /\ status[run.asOf] = [by |-> run.id, code |-> 0]

(* Inductive: until the run has ended, and after that as it is promised.       *)
ResultInv == (run \in Run => Published) /\ SuccessIsWhole

LEMMA ResultKept ==
  ASSUME TypeInv, ArchiveInv, ResultInv, [Next]_vars
  PROVE  ResultInv'
<1>. USE DEF TypeInv, ResultInv
<1>1. CASE Starting
  BY <1>1, IdleIsNoRun DEF Starting, Published, SuccessIsWhole, Early, Mirroring
<1>2. ASSUME Working, UNCHANGED <<setup, today, runs, faults>>
      PROVE  ResultInv'
  <2>1. ASSUME run \in Run
        PROVE  run.predict \in PredictionDays /\ run.asOf \in PredictionDays
    BY <2>1, RunFields
  <2>2. ASSUME run' \in Run PROVE SuccessIsWhole'
    BY <2>2, IdleIsNoRun DEF SuccessIsWhole
  <2>3. CASE Collecting
    <3>1. Published'
      BY <2>3, CollectingDoes DEF Published, Mirroring, Early, Written
    <3>. QED
      BY <2>2, <2>3, <3>1, CollectingDoes
  <2>4. CASE TrainModels
    <3>1. /\ run \in Run /\ run.pc = "models" /\ run' \in Run /\ run'.pc = "predict"
          /\ run'.predict = run.predict /\ run'.id = run.id /\ run'.mirrors = run.mirrors
          /\ output' = [output EXCEPT ![run.predict].models = run.id]
      BY <2>4, TrainModelsDoes DEF Onward, Dated, Written
    <3>2. output'[run.predict].models = run.id
      BY <2>1, <3>1 DEF OutputOK, Outputs
    <3>3. Published'
      BY <3>1, <3>2 DEF Published, Mirroring, Early
    <3>. QED
      BY <2>2, <3>1, <3>3
  <2>5. CASE Predict
    <3>1. /\ run \in Run /\ run.pc = "predict" /\ run' \in Run /\ run'.pc = "report"
          /\ run'.predict = run.predict /\ run'.id = run.id /\ run'.mirrors = run.mirrors
          /\ output' = [output EXCEPT ![run.predict].predictions = run.id]
      BY <2>5, PredictDoes DEF Onward, Dated, Written
    <3>2. /\ output'[run.predict].models = output[run.predict].models
          /\ output'[run.predict].predictions = run.id
      BY <2>1, <3>1 DEF OutputOK, Outputs
    <3>3. Published'
      BY <3>1, <3>2 DEF Published, Mirroring, Early
    <3>. QED
      BY <2>2, <3>1, <3>3
  <2>6. CASE Report
    <3>1. /\ run \in Run /\ run.pc = "report" /\ run' \in Run /\ run'.pc = "archive"
          /\ run'.predict = run.predict /\ run'.id = run.id /\ run'.mirrors = run.mirrors
          /\ output' = [output EXCEPT ![run.predict].top10 = run.id,
                                      ![run.predict].summary = run.id,
                                      ![run.predict].failed = FALSE]
      BY <2>6, ReportDoes DEF Onward, Dated, Written
    <3>2. /\ output'[run.predict].models = output[run.predict].models
          /\ output'[run.predict].predictions = output[run.predict].predictions
          /\ output'[run.predict].top10 = run.id /\ output'[run.predict].summary = run.id
          /\ output'[run.predict].failed = FALSE
      BY <2>1, <3>1 DEF OutputOK, Outputs
    <3>3. Published'
      BY <3>1, <3>2 DEF Published, Mirroring, Early
    <3>. QED
      BY <2>2, <3>1, <3>3
  <2>7. CASE ArchiveFile
    <3>1. /\ run \in Run /\ run.pc = "archive" /\ run' \in Run /\ run'.pc = "archive"
          /\ run'.predict = run.predict /\ run'.id = run.id /\ run'.mirrors = run.mirrors
          /\ output' = output
      BY <2>7, ArchiveFileDoes DEF Onward, Dated
    <3>2. Published'
      BY <3>1 DEF Published, Mirroring, Early
    <3>. QED
      BY <2>2, <3>1, <3>2
  <2>9. CASE ArchiveMetadata
    <3>1. /\ run \in Run /\ run.pc = "archive" /\ run' \in Run /\ run'.pc = "unlink"
          /\ run'.predict = run.predict /\ run'.id = run.id /\ run'.mirrors = run.mirrors
          /\ output' = output
      BY <2>9, ArchiveMetadataDoes DEF Onward, Dated, Written
    <3>2. Published'
      BY <3>1 DEF Published, Mirroring, Early
    <3>. QED
      BY <2>2, <3>1, <3>2
  <2>10. CASE RemoveLatest
    <3>1. /\ run \in Run /\ run.pc = "unlink" /\ run' \in Run /\ run'.pc = "mirror"
          /\ run'.predict = run.predict /\ run'.id = run.id /\ run'.mirrors = run.mirrors
          /\ run'.asOf = run.asOf /\ output' = output /\ archive' = archive /\ status' = status
      BY <2>10, RemoveLatestDoes DEF Onward, Dated, Written
    <3>2. Published'
      BY <3>1 DEF Published, Mirroring, Early
    <3>. QED
      BY <2>2, <3>1, <3>2
  <2>11. CASE CopyLatest
    <3>1. /\ run \in Run /\ run.pc = "mirror"
          /\ latest' = [day |-> run.predict, copy |-> archive[run.predict]]
          /\ output' = output /\ archive' = archive /\ status' = status
      BY <2>11, CopyLatestDoes
    <3>2. CASE Onward("status") /\ Dated
      <4>1. Published'
        BY <3>1, <3>2 DEF Published, Mirroring, Early, Onward, Dated
      <4>. QED
        BY <2>2, <3>2, <4>1 DEF Onward
    <3>3. CASE run.mirrors = Refreshes - 1 /\ Ends(0, "success")
      <4>1. run' = Idle /\ exit'.by = run.id /\ exit'.asOf = run.asOf
        BY <3>3 DEF Ends
      <4>2. run.mirrors # 0
        BY <3>3 DEF Refreshes
      <4>3. /\ archive[run.predict].status = run.id
            /\ status[run.asOf] = [by |-> run.id, code |-> 0]
        BY <3>1, <4>2 DEF Published
      <4>4. archive[run.predict] = ArchiveOf(run.id)
        <5>1. Filed /\ InOrder(archive[run.predict])
          BY <2>1, <3>1 DEF ArchiveInv
        <5>2. /\ \A f \in ArchiveFiles : archive[run.predict].files[f] = run.id
              /\ archive[run.predict].metadata = run.id
          BY <3>1, <5>1, SizeIs DEF Filed, Mirroring
        <5>3. \A f \in Hashed : archive[run.predict].sha256[f] = run.id
          BY <5>1, <5>2 DEF InOrder
        <5>4. archive[run.predict] \in Archived
          BY <2>1, <3>1, ArchiveFields
        <5>5. /\ archive[run.predict].files = [f \in ArchiveFiles |-> run.id]
              /\ archive[run.predict].sha256 = [f \in Hashed |-> run.id]
          <6>1. /\ archive[run.predict].files \in [ArchiveFiles -> Ids]
                /\ archive[run.predict].sha256 \in [Hashed -> Ids]
            BY <5>4 DEF Archived
          <6>. QED
            BY <5>2, <5>3, <6>1
        <5>. QED
          BY <4>3, <5>2, <5>4, <5>5 DEF Archived, ArchiveOf
      <4>5. output[run.predict] = [models |-> run.id, predictions |-> run.id, top10 |-> run.id,
                                   summary |-> run.id, failed |-> FALSE]
        <5>1. output[run.predict] \in Outputs
          BY <2>1, <3>1 DEF OutputOK
        <5>2. /\ output[run.predict].models = run.id /\ output[run.predict].predictions = run.id
              /\ output[run.predict].top10 = run.id /\ output[run.predict].summary = run.id
              /\ output[run.predict].failed = FALSE
          BY <3>1 DEF Published, Early
        <5>. QED
          BY <5>1, <5>2 DEF Outputs
      <4>6. SuccessIsWhole'
        BY <2>1, <3>1, <4>1, <4>3, <4>4, <4>5 DEF SuccessIsWhole
      <4>. QED
        BY <4>1, <4>6, IdleIsNoRun
    <3>. QED
      BY <2>11, <3>2, <3>3, CopyLatestDoes
  <2>12. CASE FinalStatus
    <3>1. /\ run \in Run /\ run.pc = "status" /\ run' \in Run /\ run'.pc = "unlink"
          /\ run'.predict = run.predict /\ run'.id = run.id /\ run'.mirrors = run.mirrors
          /\ run'.asOf = run.asOf /\ output' = output
          /\ archive' = [archive EXCEPT ![run.predict].status = run.id]
          /\ status' = [status EXCEPT ![run.asOf] = [by |-> run.id, code |-> 0]]
      BY <2>12, FinalStatusDoes DEF Onward, Dated, WriteStatus
    <3>2. archive'[run.predict].status = run.id
      BY <2>1, <3>1 DEF ArchiveOK, Archived
    <3>3. status'[run.asOf] = [by |-> run.id, code |-> 0]
      BY <2>1, <3>1 DEF StatusOK
    <3>4. Published'
      BY <3>1, <3>2, <3>3 DEF Published, Mirroring, Early
    <3>. QED
      BY <2>2, <3>1, <3>4
  <2>. QED
    BY <1>2, <2>3, <2>4, <2>5, <2>6, <2>7, <2>9, <2>10, <2>11, <2>12 DEF Working, Collecting
<1>3. ASSUME Ending PROVE ResultInv'
  BY <1>3, EndingDoes, IdleIsNoRun DEF Ended, Failures, SuccessIsWhole
<1>4. CASE UNCHANGED <<storeVars, setup, runVars, run, runs, faults, exit>>
  BY <1>4 DEF runVars, Published, SuccessIsWhole
<1>. QED
  BY <1>1, <1>2, <1>3, <1>4, NextKinds DEF vars, runVars

LEMMA ResultAlways == Spec => []ResultInv
<1>1. Init => ResultInv
  BY IdleIsNoRun DEF Init, ResultInv, SuccessIsWhole, NotEnded
<1>. QED
  BY <1>1, TypeAlways, ArchiveAlways, ResultKept, PTL DEF Spec

(* A run that ended with success left one set of files.                      *)
THEOREM SuccessCorrect == Spec => []SuccessIsWhole
<1>1. ResultInv => SuccessIsWhole
  BY DEF ResultInv
<1>. QED
  BY <1>1, ResultAlways, PTL
(* Sources ---------------------------------------------------------------- *)
Before == {"download", "clean", "macro", "check"}

LEMMA WorkingDoes ==
  ASSUME TypeInv, Working
  PROVE  /\ run \in Run
         /\ run' \in Run =>
              /\ run'.asOf = run.asOf /\ run'.force = run.force
              /\ Dated \/ run'.fallback
              /\ \/ run'.pc \in Before
                 \/ CheckSources /\ Dated /\ clean' = clean
                 \/ run.pc \notin Before /\ Dated /\ Checked /\ clean' = clean
<1>. USE DEF TypeInv, Onward, Before
<1>1. CASE Download
  BY <1>1, DownloadDoes
<1>2. CASE WriteClean
  BY <1>2, WriteCleanDoes
<1>3. CASE DownloadMacro
  BY <1>3, DownloadMacroDoes
<1>4. CASE CheckSources
  BY <1>4, CheckSourcesDoes DEF storeVars
<1>5. CASE UpdateFeatures
  BY <1>5, UpdateFeaturesDoes
<1>6. CASE UpdateTraining
  BY <1>6, UpdateTrainingDoes
<1>7. CASE TrainModels
  BY <1>7, TrainModelsDoes DEF storeVars
<1>8. CASE Predict
  BY <1>8, PredictDoes DEF storeVars
<1>9. CASE Report
  BY <1>9, ReportDoes DEF storeVars
<1>10. CASE ArchiveFile
  BY <1>10, ArchiveFileDoes DEF storeVars
<1>12. CASE ArchiveMetadata
  BY <1>12, ArchiveMetadataDoes DEF storeVars
<1>13. CASE RemoveLatest
  BY <1>13, RemoveLatestDoes DEF storeVars
<1>14. CASE CopyLatest
  BY <1>14, CopyLatestDoes, IdleIsNoRun DEF storeVars, Ends
<1>15. CASE FinalStatus
  BY <1>15, FinalStatusDoes DEF storeVars
<1>. QED
  BY <1>1, <1>2, <1>3, <1>4, <1>5, <1>6, <1>7, <1>8, <1>9, <1>10, <1>12, <1>13, <1>14, <1>15
  DEF Working

(* Inductive: a run that fell back on an earlier day knows it, and a strict run   *)
(* that is past the check works for the last day of the clean file.           *)
SourceInv ==
  run \in Run =>
    /\ run.force \in setup.forces
    /\ run.asOf = today \/ setup.backdated
    /\ ~run.fallback => run.update = Target /\ run.predict = run.asOf
    /\ Strict /\ run.pc \notin Before => ~run.fallback /\ run.passed /\ LatestClean = Target

LEMMA SourceKept ==
  ASSUME TypeInv, SourceInv, [Next]_vars
  PROVE  SourceInv'
<1>. USE DEF TypeInv, SourceInv
<1>1. CASE Starting
  BY <1>1 DEF Starting, Before, Target
<1>2. ASSUME Working, UNCHANGED <<setup, today, runs, faults>>
      PROVE  SourceInv'
  <2>. SUFFICES ASSUME run' \in Run PROVE SourceInv'
    OBVIOUS
  <2>1. /\ run \in Run /\ run'.asOf = run.asOf /\ run'.force = run.force
        /\ Dated \/ run'.fallback
    BY <1>2, WorkingDoes
  <2>2. Target' = Target
    BY <2>1 DEF Target
  <2>3. ASSUME Strict, run'.pc \notin Before
        PROVE  ~run'.fallback /\ run'.passed /\ LatestClean' = Target
    <3>1. CASE CheckSources /\ Dated /\ clean' = clean
      <4>1. SourcesPassed /\ run'.passed
        BY <2>3, <3>1, CheckSourcesDoes
      <4>2. LatestClean = Target /\ ~run.fallback
        BY <2>3, <4>1 DEF SourcesPassed, SourcesAvailable, ExpectedSourceDay
      <4>3. LatestClean' = LatestClean
        BY <3>1 DEF LatestClean
      <4>. QED
        BY <3>1, <4>1, <4>2, <4>3 DEF Dated
    <3>2. CASE run.pc \notin Before /\ Dated /\ Checked /\ clean' = clean
      <4>1. LatestClean' = LatestClean
        BY <3>2 DEF LatestClean
      <4>. QED
        BY <2>1, <2>3, <3>2, <4>1 DEF Dated, Checked
    <3>. QED
      BY <1>2, <2>3, <3>1, <3>2, WorkingDoes
  <2>4. Strict' = Strict
    BY <1>2 DEF Strict
  <2>. HIDE DEF Target
  <2>. QED
    BY <1>2, <2>1, <2>2, <2>3, <2>4 DEF Dated
<1>3. ASSUME Ending PROVE SourceInv'
  BY <1>3, EndingDoes, IdleIsNoRun DEF Ended
<1>4. CASE run = Idle /\ run' = run
  BY <1>4, IdleIsNoRun
<1>5. CASE UNCHANGED vars
  BY <1>5 DEF vars, storeVars, Strict, LatestClean, Target
<1>. QED
  BY <1>1, <1>2, <1>3, <1>4, <1>5, NextKinds

LEMMA SourceAlways == Spec => []SourceInv
<1>1. Init => SourceInv
  BY IdleIsNoRun DEF Init, SourceInv
<1>. QED
  BY <1>1, TypeAlways, SourceKept, PTL DEF Spec
(* Predictions ------------------------------------------------------------ *)
Unfeatured == Before \cup {"features"}
Unpredicted == Unfeatured \cup {"training", "models", "predict"}

(* The features of the day that a run is for: first no price is without them,    *)
(* in the end none of them without a price either.                           *)
Featured ==
  /\ run.pc \notin Unfeatured => FeatureRows(run.update) \subseteq features
  /\ run.pc \notin Unpredicted => Priced

TradedInv == (run \in Run => Featured) /\ TradedArePredicted

LEMMA TradedKept ==
  ASSUME TypeInv, SourceInv, TradedInv, [Next]_vars
  PROVE  TradedInv'
<1>. USE DEF TypeInv, TradedInv
<1>1. CASE Starting
  BY <1>1, IdleIsNoRun DEF Starting, Featured, TradedArePredicted, Unfeatured, Unpredicted, Before
<1>2. ASSUME Working, UNCHANGED <<setup, today, runs, faults>>
      PROVE  TradedInv'
  <2>1. ASSUME run' \in Run PROVE TradedArePredicted'
    BY <2>1, IdleIsNoRun DEF TradedArePredicted
  <2>2. ASSUME run \in Run, run' \in Run, run'.update = run.update,
               clean' = clean, features' = features,
               run'.pc \notin Unfeatured => run.pc \notin Unfeatured,
               run'.pc \notin Unpredicted => run.pc \notin Unpredicted \/ Priced
        PROVE  TradedInv'
    <3>1. \A d : FeatureRows(d)' = FeatureRows(d)
      BY <2>2 DEF FeatureRows
    <3>2. FeatureRows(run.update)' = FeatureRows(run.update)
      BY <2>2 DEF FeatureRows
    <3>3. Priced' <=> Priced
      BY <2>2 DEF Priced
    <3>. QED
      BY <2>1, <2>2, <3>2, <3>3 DEF Featured
  <2>. USE DEF Onward, Dated, Unfeatured, Unpredicted, Before
  <2>3. CASE run' \in Run /\ run'.pc \in Unfeatured
    BY <2>1, <2>3 DEF Featured
  <2>4. CASE UpdateFeatures
    <3>1. /\ run' \in Run /\ run'.pc = "training" /\ run'.update = run.update /\ clean' = clean
          /\ AppendFeatures(run.update, run.force)
      BY <2>4, UpdateFeaturesDoes
    <3>2. FeatureRows(run.update) \subseteq features'
      BY <3>1 DEF AppendFeatures, AppendRows
    <3>3. FeatureRows(run.update)' = FeatureRows(run.update)
      BY <3>1 DEF FeatureRows
    <3>. QED
      BY <2>1, <3>1, <3>2, <3>3 DEF Featured
  <2>5. CASE UpdateTraining
    BY <2>2, <2>5, UpdateTrainingDoes
  <2>6. CASE TrainModels
    BY <2>2, <2>6, TrainModelsDoes DEF storeVars
  <2>7. CASE Predict
    BY <2>2, <2>7, PredictDoes DEF storeVars
  <2>8. CASE Report
    BY <2>2, <2>8, ReportDoes DEF storeVars
  <2>9. CASE ArchiveFile
    BY <2>2, <2>9, ArchiveFileDoes DEF storeVars
  <2>11. CASE ArchiveMetadata
    BY <2>2, <2>11, ArchiveMetadataDoes DEF storeVars
  <2>12. CASE RemoveLatest
    BY <2>2, <2>12, RemoveLatestDoes DEF storeVars
  <2>13. CASE FinalStatus
    BY <2>2, <2>13, FinalStatusDoes DEF storeVars
  <2>14. CASE CopyLatest
    <3>1. /\ run \in Run /\ run.pc = "mirror" /\ clean' = clean /\ features' = features
      BY <2>14, CopyLatestDoes DEF storeVars
    <3>2. CASE Onward("status") /\ Dated
      BY <2>2, <3>1, <3>2
    <3>3. CASE Ends(0, "success")
      <4>1. run' = Idle /\ exit'.asOf = run.asOf
        BY <3>3 DEF Ends
      <4>2. FeatureRows(run.update) \subseteq features /\ Priced
        BY <3>1 DEF Featured
      <4>3. Strict => run.update = run.asOf - 1
        BY <3>1 DEF SourceInv, Target
      <4>4. {k \in features : k[1] = run.update} = {k \in clean : k[1] = run.update}
        BY <4>2 DEF FeatureRows, Priced
      <4>5. Strict' => Strict
        BY <1>2 DEF Strict
      <4>6. TradedArePredicted'
        BY <3>1, <4>1, <4>3, <4>4, <4>5 DEF TradedArePredicted
      <4>. QED
        BY <4>1, <4>6, IdleIsNoRun
    <3>. QED
      BY <2>14, <3>2, <3>3, CopyLatestDoes
  <2>15. CASE Download \/ WriteClean \/ DownloadMacro \/ CheckSources
    BY <2>3, <2>15, DownloadDoes, WriteCleanDoes, DownloadMacroDoes, CheckSourcesDoes
  <2>. QED
    BY <1>2, <2>4, <2>5, <2>6, <2>7, <2>8, <2>9, <2>11, <2>12, <2>13, <2>14, <2>15
    DEF Working
<1>3. ASSUME Ending PROVE TradedInv'
  BY <1>3, EndingDoes, IdleIsNoRun DEF Ended, Failures, TradedArePredicted
<1>4. CASE UNCHANGED <<storeVars, setup, runVars, run, runs, faults, exit>>
  BY <1>4 DEF storeVars, Featured, TradedArePredicted, Strict, FeatureRows, Priced
<1>. QED
  BY <1>1, <1>2, <1>3, <1>4, NextKinds DEF vars, runVars

(* A strict run that succeeds has predicted exactly what was traded.          *)
THEOREM PredictionCorrect == Spec => []TradedArePredicted
<1>1. Init => TradedInv
  BY IdleIsNoRun DEF Init, TradedInv, TradedArePredicted, NotEnded
<1>2. TradedInv => TradedArePredicted
  BY DEF TradedInv
<1>. QED
  BY <1>1, <1>2, TypeAlways, SourceAlways, TradedKept, PTL DEF Spec
(* Files ------------------------------------------------------------------ *)
RowsOf(r) == <<r.feature, r.ticker>> \in features /\ <<r.target, r.ticker>> \in clean

(* Between the days of a training row its ticker has no features.             *)
Adjacent(r) ==
  /\ r.feature < r.target
  /\ \A d \in Days : r.feature < d /\ d < r.target => <<d, r.ticker>> \notin features

(* Inductive, of strict runs without --force: besides what is promised, a price    *)
(* is in raw before it is in clean, and the training rows of a ticker make a chain. *)
FilesInv ==
  OnlyAppends =>
    /\ features \subseteq clean
    /\ \A k \in clean : raw[k] # "none"
    /\ run \in Run /\ run.pc = "clean" =>
         \A t \in Tickers : run.daily[t] = "ok" => raw[<<Target, t>>] # "none"
    /\ \A r \in training : RowsOf(r) /\ Adjacent(r)
    /\ \A r, s \in training : SameKey(r, s) => r = s

LEMMA FilesInit == Init => FilesInv
<1>. SUFFICES ASSUME Init PROVE FilesInv
  OBVIOUS
<1>1. StoreOK /\ run \notin Run
  BY TypeInit, IdleIsNoRun DEF TypeInv, Init
<1>2. features = clean /\ clean = (1 .. History) \X Tickers
  BY DEF Init, StoreInit
<1>3. \A k \in clean : raw[k] # "none"
  <2>1. \A k \in clean : k \in Keys /\ k[1] <= History
    BY <1>1, <1>2 DEF StoreOK
  <2>. QED
    BY <2>1 DEF Init, StoreInit
<1>4. ASSUME NEW r \in training
      PROVE  /\ r.feature \in 1 .. History - 1 /\ r.ticker \in Tickers /\ r.target = r.feature + 1
             /\ r = [feature |-> r.feature, ticker |-> r.ticker, target |-> r.target]
  BY <1>4 DEF Init, StoreInit
<1>5. \A r \in training : RowsOf(r)
  BY <1>2, <1>4, TradingStoreAssumption DEF RowsOf
<1>6. \A r \in training : Adjacent(r)
  BY <1>4, TradingStoreAssumption DEF Adjacent, Days
<1>7. \A r, s \in training : SameKey(r, s) => r = s
  BY <1>4 DEF SameKey
<1>. QED
  BY <1>1, <1>2, <1>3, <1>5, <1>6, <1>7 DEF FilesInv

(* The training rows after an update without --force.                        *)
LEMMA CombinedRows ==
  ASSUME StoreOK, NEW day \in Days, features \subseteq clean,
         \A r \in training : RowsOf(r) /\ Adjacent(r),
         \A r, s \in training : SameKey(r, s) => r = s
  PROVE  LET rows == CombinedTraining(day, FALSE) IN
         /\ \A r \in rows : r \in TrainingRows /\ RowsOf(r) /\ Adjacent(r)
         /\ \A r, s \in rows : SameKey(r, s) => r = s
         /\ ~Duplicated(rows)
<1>. DEFINE rows == CombinedTraining(day, FALSE)
<1>1. \A r : r \in rows <=> \/ r \in training
                            \/ r \in TargetRows(day) /\ \A s \in training : ~SameKey(r, s)
  BY DEF CombinedTraining
<1>. HIDE DEF rows
<1>2. ASSUME NEW r \in TargetRows(day)
      PROVE  r \in TrainingRows /\ RowsOf(r) /\ Adjacent(r)
  <2>1. /\ r \in TrainingRows /\ RowsOf(r) /\ r.feature < r.target
        /\ \A d \in Days : d > r.feature /\ <<d, r.ticker>> \in clean => r.target <= d
    BY TargetRowsAre DEF StoreOK, RowsOf
  <2>2. r.target \in Days /\ r.feature \in Days
    BY <2>1 DEF TrainingRows
  <2>. QED
    BY <2>1, <2>2, DaysAreNaturals DEF Adjacent
<1>3. \A r \in rows : r \in TrainingRows /\ RowsOf(r) /\ Adjacent(r)
  BY <1>1, <1>2 DEF StoreOK
<1>4. ASSUME NEW r \in rows, NEW s \in rows, SameKey(r, s)
      PROVE  r = s
  <2>1. SameKey(s, r)
    BY <1>4 DEF SameKey
  <2>2. CASE r \in training /\ s \in training
    BY <1>4, <2>2
  <2>3. CASE r \in TargetRows(day) /\ s \in TargetRows(day)
    BY <1>4, <2>3, TargetRowsAreOne DEF StoreOK
  <2>. QED
    BY <1>1, <1>4, <2>1, <2>2, <2>3
<1>5. ASSUME NEW r \in rows, NEW s \in rows, r.ticker = s.ticker, r.target = s.target,
             r.feature < s.feature
      PROVE  FALSE
  <2>1. s.feature \in Days /\ s.feature < s.target /\ <<s.feature, s.ticker>> \in features
    BY <1>3 DEF TrainingRows, Adjacent, RowsOf
  <2>. QED
    BY <1>3, <1>5, <2>1 DEF Adjacent
<1>6. ~Duplicated(rows)
  <2>1. SUFFICES ASSUME NEW r \in rows, NEW s \in rows, r # s, r.ticker = s.ticker,
                        r.feature = s.feature \/ r.target = s.target
                 PROVE  FALSE
    BY DEF Duplicated
  <2>2. r.feature # s.feature
    BY <1>4, <2>1 DEF SameKey
  <2>3. r.feature \in Nat /\ s.feature \in Nat
    BY <1>3, DaysAreNaturals DEF TrainingRows
  <2>. QED
    BY <1>5, <2>1, <2>2, <2>3
<1>. QED
  BY <1>3, <1>4, <1>6 DEF rows
LEMMA NoForce ==
  ASSUME TypeInv, SourceInv, run \in Run, OnlyAppends
  PROVE  run.force = FALSE
BY SetupIs DEF TypeInv, SourceInv, OnlyAppends

LEMMA FilesKept ==
  ASSUME TypeInv, SourceInv, FilesInv, [Next]_vars
  PROVE  FilesInv'
<1>. USE DEF TypeInv
<1>0. OnlyAppends' <=> OnlyAppends
  <2>1. setup' = setup
    BY NextKinds DEF Starting, vars
  <2>. QED
    BY <2>1 DEF OnlyAppends, Strict
<1>. SUFFICES ASSUME OnlyAppends PROVE FilesInv'
  BY <1>0 DEF FilesInv
<1>1. /\ features \subseteq clean
      /\ \A k \in clean : raw[k] # "none"
      /\ run \in Run /\ run.pc = "clean" =>
           \A t \in Tickers : run.daily[t] = "ok" => raw[<<Target, t>>] # "none"
      /\ \A r \in training : RowsOf(r) /\ Adjacent(r)
      /\ \A r, s \in training : SameKey(r, s) => r = s
  BY DEF FilesInv
<1>2. ASSUME UNCHANGED storeVars, run' \in Run => run'.pc # "clean"
      PROVE  FilesInv'
  BY <1>1, <1>2 DEF storeVars, FilesInv, RowsOf, Adjacent
<1>3. CASE Starting
  BY <1>2, <1>3 DEF Starting
<1>4. CASE Download
  <2>1. /\ run \in Run /\ UNCHANGED <<clean, features, training>> /\ run'.asOf = run.asOf
        /\ \/ run'.pc = "macro" /\ raw' = raw
           \/ run' \in Run /\ run'.pc = "clean" /\ AppendRaw(Target, run'.daily, FALSE)
    BY <1>4, DownloadDoes, NoForce DEF Onward
  <2>2. \A k \in Keys : raw[k] # "none" => raw'[k] # "none"
    BY <2>1 DEF AppendRaw, StoreOK
  <2>3. \A k \in clean' : raw'[k] # "none"
    BY <1>1, <2>1, <2>2 DEF StoreOK
  <2>4. run' \in Run /\ run'.pc = "clean" =>
          \A t \in Tickers : run'.daily[t] = "ok" => raw'[<<Target', t>>] # "none"
    <3>. SUFFICES ASSUME run' \in Run, run'.pc = "clean", NEW t \in Tickers, run'.daily[t] = "ok"
                  PROVE  raw'[<<Target', t>>] # "none"
      OBVIOUS
    <3>1. Target' = Target /\ <<Target, t>> \in Keys
      BY <2>1, TargetIsDay DEF Target, Keys
    <3>2. AppendRaw(Target, run'.daily, FALSE)
      BY <2>1
    <3>. HIDE DEF Target
    <3>. QED
      BY <3>1, <3>2 DEF AppendRaw
  <2>. QED
    BY <1>1, <2>1, <2>3, <2>4 DEF FilesInv, RowsOf, Adjacent
<1>5. CASE WriteClean
  <2>1. /\ run \in Run /\ run.pc = "clean" /\ UNCHANGED <<raw, features, training>>
        /\ run'.pc = "macro" /\ AppendClean(Target, run.daily, FALSE)
    BY <1>5, WriteCleanDoes, NoForce DEF Onward
  <2>2. clean' = clean \cup ValidRows(Target, run.daily)
    BY <2>1 DEF AppendClean, AppendRows
  <2>3. \A k \in clean' : raw'[k] # "none"
    BY <1>1, <2>1, <2>2 DEF ValidRows
  <2>. QED
    BY <1>1, <2>1, <2>2, <2>3 DEF FilesInv, RowsOf, Adjacent
<1>6. CASE DownloadMacro
  BY <1>1, <1>6, DownloadMacroDoes DEF FilesInv, RowsOf, Adjacent, Onward
<1>7. CASE CheckSources
  BY <1>2, <1>7, CheckSourcesDoes DEF Onward
<1>8. CASE UpdateFeatures
  <2>1. /\ run \in Run /\ run.pc = "features" /\ UNCHANGED <<raw, clean, training>>
        /\ run'.pc = "training" /\ AppendFeatures(run.update, FALSE) /\ run.update \in Days
    BY <1>8, UpdateFeaturesDoes, NoForce DEF Onward
  <2>2. features' = features \cup {k \in clean : k[1] = run.update}
    BY <2>1 DEF AppendFeatures, AppendRows, FeatureRows
  <2>3. run.update = LatestClean
    BY <2>1 DEF SourceInv, OnlyAppends, Before
  <2>4. ASSUME NEW r \in training
        PROVE  r.target <= run.update /\ r.target \in Nat /\ run.update \in Nat
    <3>1. <<r.target, r.ticker>> \in clean
      BY <1>1, <2>4 DEF RowsOf
    <3>2. r.target <= LatestClean
      BY <3>1, LatestCleanIs DEF StoreOK
    <3>3. r.target \in Days
      BY <2>4 DEF StoreOK, TrainingRows
    <3>. QED
      BY <2>1, <2>3, <3>2, <3>3, DaysAreNaturals
  <2>5. ASSUME NEW r \in training, NEW d \in Days, r.feature < d, d < r.target
        PROVE  <<d, r.ticker>> \notin features'
    <3>1. <<d, r.ticker>> \notin features
      BY <1>1, <2>5 DEF Adjacent
    <3>2. d # run.update
      BY <2>4, <2>5, DaysAreNaturals
    <3>. QED
      BY <2>2, <3>1, <3>2
  <2>. QED
    BY <1>1, <2>1, <2>2, <2>5 DEF FilesInv, RowsOf, Adjacent
<1>9. CASE UpdateTraining
  <2>1. /\ run \in Run /\ UNCHANGED <<raw, clean, features>> /\ run.update \in Days
        /\ run'.pc = "models" /\ training' = CombinedTraining(run.update, FALSE)
    BY <1>9, UpdateTrainingDoes, NoForce DEF Onward
  <2>2. /\ \A r \in training' : RowsOf(r) /\ Adjacent(r)
        /\ \A r, s \in training' : SameKey(r, s) => r = s
    BY <1>1, <2>1, CombinedRows
  <2>. QED
    BY <1>1, <2>1, <2>2 DEF FilesInv, RowsOf, Adjacent
<1>10. CASE TrainModels
  BY <1>2, <1>10, TrainModelsDoes DEF Onward
<1>11. CASE Predict
  BY <1>2, <1>11, PredictDoes DEF Onward
<1>12. CASE Report
  BY <1>2, <1>12, ReportDoes DEF Onward
<1>13. CASE ArchiveFile
  BY <1>2, <1>13, ArchiveFileDoes DEF Onward
<1>15. CASE ArchiveMetadata
  BY <1>2, <1>15, ArchiveMetadataDoes DEF Onward
<1>16. CASE RemoveLatest
  BY <1>2, <1>16, RemoveLatestDoes DEF Onward
<1>17. CASE CopyLatest
  BY <1>2, <1>17, CopyLatestDoes, IdleIsNoRun DEF Onward, Ends
<1>18. CASE FinalStatus
  BY <1>2, <1>18, FinalStatusDoes DEF Onward
<1>19. CASE Ending
  BY <1>2, <1>19, EndingDoes, IdleIsNoRun DEF Ended
<1>20. CASE UNCHANGED <<storeVars, run>>
  <2>1. Target' = Target
    BY <1>20 DEF Target
  <2>. QED
    BY <1>1, <1>20, <2>1 DEF storeVars, FilesInv, RowsOf, Adjacent
<1>. QED
  BY <1>3, <1>4, <1>5, <1>6, <1>7, <1>8, <1>9, <1>10, <1>11, <1>12, <1>13, <1>15, <1>16,
     <1>17, <1>18, <1>19, <1>20, NextKinds DEF Working, vars

LEMMA FilesAlways == Spec => []FilesInv
BY TypeAlways, SourceAlways, FilesInit, FilesKept, PTL DEF Spec

(* In strict runs without --force, cut off anywhere, the derived files never    *)
(* hold a row whose source is missing.                                        *)
THEOREM SourcesCorrect == Spec => []DerivedRowsHaveSources
<1>1. FilesInv => DerivedRowsHaveSources
  BY DEF FilesInv, DerivedRowsHaveSources, RowsOf
<1>. QED
  BY <1>1, FilesAlways, PTL
Broken == {"duplicate rows", "no clean rows", "no prev_close", "sources incomplete"}

LEMMA UsableKept ==
  ASSUME TypeInv, SourceInv, FilesInv, FilesStayUsable, [Next]_vars
  PROVE  FilesStayUsable'
<1>. USE DEF TypeInv
<1>0. OnlyAppends' <=> OnlyAppends
  <2>1. setup' = setup
    BY NextKinds DEF Starting, vars
  <2>. QED
    BY <2>1 DEF OnlyAppends, Strict
<1>. SUFFICES ASSUME OnlyAppends PROVE exit'.reason \notin Broken
  BY <1>0 DEF FilesStayUsable, Broken
<1>1. CASE exit' = exit
  BY <1>1 DEF FilesStayUsable, Broken
<1>2. CASE Starting
  BY <1>2 DEF Starting, NotEnded, Broken
<1>3. CASE Working
  <2>1. exit' = exit \/ Ends(0, "success")
    BY <1>3, CollectingDoes, TrainModelsDoes, PredictDoes, ReportDoes, ArchiveFileDoes,
       ArchiveMetadataDoes, RemoveLatestDoes, CopyLatestDoes, FinalStatusDoes
    DEF Working, Collecting
  <2>2. CASE Ends(0, "success")
    <3>1. exit'.reason = "success"
      BY <2>2 DEF Ends
    <3>. QED
      BY <3>1 DEF Broken
  <2>. QED
    BY <1>1, <2>1, <2>2
<1>4. CASE Ending
  <2>1. run \in Run
    BY <1>4, EndingDoes
  <2>2. run.force = FALSE /\ run.update \in Days
    BY <2>1, NoForce, RunFields
  <2>3. features \subseteq clean
    BY DEF FilesInv
  <2>4. ~TrainingRejected
    <3>1. ~Duplicated(CombinedTraining(run.update, FALSE))
      BY <2>2, CombinedRows DEF FilesInv
    <3>. QED
      BY <2>2, <3>1 DEF TrainingRejected
  <2>5. ~PriceMissing
    BY <2>3 DEF PriceMissing, Priced
  <2>6. ~ArchiveRefused
    BY <2>1 DEF ArchiveRefused, At, SourceInv, OnlyAppends, Before
  <2>7. ~(At("features") /\ FeatureRows(run.update) = {})
    <3>. SUFFICES ASSUME At("features") PROVE FeatureRows(run.update) # {}
      OBVIOUS
    <3>1. LatestClean = run.update
      BY <2>1 DEF At, SourceInv, OnlyAppends, Before
    <3>2. LatestClean # 0
      BY <2>2, <3>1, DaysAreNaturals
    <3>3. PICK k \in clean : k[1] = LatestClean
      BY <3>2, LatestCleanIs DEF StoreOK
    <3>. QED
      BY <3>1, <3>3 DEF FeatureRows
  <2>8. ASSUME NEW code, NEW reason, Ends(code, reason) PROVE exit'.reason = reason
    BY <2>8 DEF Ends
  <2>9. {"macro", "sources", "checked", "no sox history", "short window", "fault", "killed"}
          \cap Broken = {}
    BY DEF Broken
  <2>10. CASE MacroFails
    BY <2>8, <2>9, <2>10 DEF MacroFails, Stops
  <2>11. CASE SourcesFail
    BY <2>8, <2>9, <2>11 DEF SourcesFail, Stops
  <2>12. CASE OnlyCheckSources
    BY <2>8, <2>9, <2>12 DEF OnlyCheckSources
  <2>13. CASE NoFeatures
    BY <2>7, <2>8, <2>9, <2>13 DEF NoFeatures, Fails
  <2>14. CASE WindowTooShort
    BY <2>8, <2>9, <2>14 DEF WindowTooShort, Fails
  <2>15. CASE Kill
    BY <2>8, <2>9, <2>15 DEF Kill
  <2>16. CASE \E code \in {1, 130} : Abort(code)
    <3>1. PICK code : Abort(code)
      BY <2>16
    <3>2. Ends(code, "fault")
      BY <3>1 DEF Abort, Fails
    <3>. QED
      BY <2>8, <2>9, <3>2
  <2>. QED
    BY <1>4, <2>4, <2>5, <2>6, <2>10, <2>11, <2>12, <2>13, <2>14, <2>15, <2>16 DEF Ending
<1>. QED
  BY <1>1, <1>2, <1>3, <1>4, NextKinds DEF vars

(* Without --force no sequence of runs and crashes makes the files unusable.  *)
THEOREM FilesCorrect == Spec => []FilesStayUsable
<1>1. Init => FilesStayUsable
  BY DEF Init, FilesStayUsable, NotEnded
<1>. QED
  BY <1>1, TypeAlways, SourceAlways, FilesAlways, UsableKept, PTL DEF Spec

(* Without an earlier --as-of-date the training rows end before today.        *)
TrainingBehind == Strict /\ ~setup.backdated => \A r \in training : r.target < today

LEMMA BehindKept ==
  ASSUME TypeInv, SourceInv, TrainingBehind, [Next]_vars
  PROVE  TrainingBehind'
<1>. USE DEF TypeInv
<1>1. setup' = setup /\ today \in Nat /\ today' \in Nat /\ today <= today'
  <2>1. today \in Nat
    BY TradingStoreAssumption DEF CountersOK
  <2>2. setup' = setup
    BY NextKinds DEF Starting, vars
  <2>3. today' = today \/ today' = today + 1
    BY NextKinds DEF Starting, vars
  <2>. QED
    BY <2>1, <2>2, <2>3
<1>. SUFFICES ASSUME Strict, ~setup.backdated PROVE \A r \in training' : r.target < today'
  BY <1>1 DEF TrainingBehind, Strict
<1>2. \A r \in training : r.target \in Nat /\ r.target < today
  BY DaysAreNaturals DEF TrainingBehind, StoreOK, TrainingRows
<1>3. CASE training' \subseteq training
  BY <1>1, <1>2, <1>3
<1>4. CASE UpdateTraining
  <2>1. /\ run \in Run /\ run.pc = "training" /\ run.update \in Days
        /\ training' \subseteq training \cup TargetRows(run.update)
    BY <1>4, UpdateTrainingDoes
  <2>2. run.update = Target /\ run.asOf = today
    BY <2>1 DEF SourceInv, Before
  <2>3. run.update < today
    BY <1>1, <2>1, <2>2, TargetIsDay, DaysAreNaturals
  <2>4. \A r \in TargetRows(run.update) : r.target \in Nat /\ r.target <= run.update
    BY <2>1, TargetRowsAre, DaysAreNaturals DEF StoreOK, TrainingRows
  <2>. QED
    BY <1>1, <1>2, <2>1, <2>3, <2>4, DaysAreNaturals
<1>5. training' = training \/ UpdateTraining
  <2>1. CASE Working
    <3>1. CASE Download
      BY <3>1, DownloadDoes
    <3>2. CASE WriteClean
      BY <3>2, WriteCleanDoes
    <3>3. CASE DownloadMacro
      BY <3>3, DownloadMacroDoes
    <3>4. CASE UpdateFeatures
      BY <3>4, UpdateFeaturesDoes
    <3>5. CASE CheckSources \/ TrainModels \/ Predict \/ Report
      BY <3>5, CheckSourcesDoes, TrainModelsDoes, PredictDoes, ReportDoes DEF storeVars
    <3>6. CASE ArchiveFile \/ ArchiveMetadata
      BY <3>6, ArchiveFileDoes, ArchiveMetadataDoes DEF storeVars
    <3>7. CASE RemoveLatest \/ CopyLatest \/ FinalStatus
      BY <3>7, RemoveLatestDoes, CopyLatestDoes, FinalStatusDoes DEF storeVars
    <3>. QED
      BY <2>1, <3>1, <3>2, <3>3, <3>4, <3>5, <3>6, <3>7 DEF Working
  <2>2. CASE Ending
    BY <2>2, EndingDoes DEF storeVars
  <2>. QED
    BY <2>1, <2>2, NextKinds DEF Starting, storeVars, vars
<1>. QED
  BY <1>3, <1>4, <1>5

LEMMA BehindAlways == Spec => []TrainingBehind
<1>1. Init => TrainingBehind
  BY TradingStoreAssumption DEF Init, StoreInit, TrainingBehind
<1>. QED
  BY <1>1, TypeAlways, SourceAlways, BehindKept, PTL DEF Spec

(* Inductive: a window is cut when the models are trained, and not before.     *)
WindowInv ==
  /\ run \in Run /\ run.pc \in Early => run.window = {}
  /\ NoTrainingOnPredictedDay

LEMMA WindowKept ==
  ASSUME TypeInv, SourceInv, FilesInv, TrainingBehind, WindowInv, [Next]_vars
  PROVE  WindowInv'
<1>. USE DEF TypeInv, WindowInv
<1>1. setup' = setup
  BY NextKinds DEF Starting, vars
<1>2. CASE run' = Idle
  BY <1>2, IdleIsNoRun DEF NoTrainingOnPredictedDay
<1>3. CASE run' \in Run /\ run'.window = {}
  BY <1>3 DEF NoTrainingOnPredictedDay
<1>4. ASSUME run \in Run, run' \in Run, run'.pc \notin Early, run'.window = run.window,
             run'.predict = run.predict
      PROVE  WindowInv'
  BY <1>1, <1>4, RunFields DEF NoTrainingOnPredictedDay, Strict, ForcedBackdating
<1>5. CASE Collecting
  BY <1>3, <1>5, CollectingDoes DEF Trained
<1>6. CASE TrainModels
  <2>1. /\ run \in Run /\ run' \in Run /\ run.pc = "models" /\ run'.pc = "predict"
        /\ run'.window \subseteq training /\ run'.predict = run.predict
    BY <1>6, TrainModelsDoes DEF Onward, Dated
  <2>2. ASSUME Strict, ~ForcedBackdating, NEW r \in training
        PROVE  r.target < run.predict
    <3>1. run.predict = run.asOf /\ LatestClean = Target /\ run.asOf \in Nat /\ Target \in Nat
          /\ Target < run.asOf /\ r.target \in Nat
      BY <2>1, <2>2, TargetIsDay, DaysAreNaturals DEF SourceInv, Before, StoreOK, TrainingRows
    <3>2. CASE ~setup.backdated
      BY <2>1, <2>2, <3>1, <3>2 DEF TrainingBehind, SourceInv
    <3>3. CASE TRUE \notin setup.forces
      <4>1. <<r.target, r.ticker>> \in clean
        BY <2>2, <3>3 DEF FilesInv, OnlyAppends, RowsOf
      <4>2. r.target <= LatestClean
        BY <4>1, LatestCleanIs DEF StoreOK
      <4>. QED
        BY <3>1, <4>2
    <3>. QED
      BY <2>2, <3>2, <3>3 DEF ForcedBackdating
  <2>3. Strict' = Strict /\ (ForcedBackdating' <=> ForcedBackdating)
    BY <1>1 DEF Strict, ForcedBackdating
  <2>. QED
    BY <2>1, <2>2, <2>3 DEF NoTrainingOnPredictedDay, Early
<1>7. CASE Starting
  BY <1>3, <1>7 DEF Starting
<1>. USE DEF Onward, Dated, Trained, Early
<1>8. CASE Predict \/ Report
  BY <1>4, <1>8, PredictDoes, ReportDoes
<1>9. CASE ArchiveFile \/ ArchiveMetadata
  BY <1>4, <1>9, ArchiveFileDoes, ArchiveMetadataDoes
<1>10. CASE RemoveLatest \/ FinalStatus
  BY <1>4, <1>10, RemoveLatestDoes, FinalStatusDoes
<1>11. CASE CopyLatest
  BY <1>2, <1>4, <1>11, CopyLatestDoes DEF Ends
<1>12. CASE Ending
  BY <1>2, <1>12, EndingDoes DEF Ended
<1>13. CASE run' = run
  BY <1>1, <1>13 DEF NoTrainingOnPredictedDay, Strict, ForcedBackdating
<1>. QED
  BY <1>5, <1>6, <1>7, <1>8, <1>9, <1>10, <1>11, <1>12, <1>13, NextKinds
  DEF Working, Collecting, vars

(* No model of a strict run learns from the day it predicts.                 *)
THEOREM WindowCorrect == Spec => []NoTrainingOnPredictedDay
<1>1. Init => WindowInv
  BY IdleIsNoRun DEF Init, WindowInv, NoTrainingOnPredictedDay
<1>2. WindowInv => NoTrainingOnPredictedDay
  BY DEF WindowInv
<1>. QED
  BY <1>1, <1>2, TypeAlways, SourceAlways, FilesAlways, BehindAlways, WindowKept, PTL DEF Spec
=============================================================================
