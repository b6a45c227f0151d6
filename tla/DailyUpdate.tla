----------------------------- MODULE DailyUpdate -----------------------------
(***************************************************************************)
(* run_daily_update_pipeline.py: the run of a morning downloads the day       *)
(* before, updates the data files of TradingStore, trains, predicts the day,   *)
(* writes the Top10 and archives all that.  A run may be started again, for     *)
(* an earlier --as-of-date or with --force, and may be cut off anywhere.        *)
(***************************************************************************)
EXTENDS TradingStore, Sequences

CONSTANTS
  Setups,        (* how the update may be set up and used, in a behaviour of    *)
                 (* its own: records of Setup below                           *)
  MinTickers,    (* the least success of a download, as a number of tickers    *)
  MaxAge,        (* us_macro_max_age_calendar_days                             *)
  WindowDays,    (* rolling_train_days                                         *)
  MaxRuns, MaxFaults                                                (* bounds *)

(* strict: production_mode and strict_feature_source_check; modes, forces: the  *)
(* options that are used; backdated: whether --as-of-date may be an earlier    *)
(* day; runs and faults bound what happens.                                  *)
Setup == [strict : BOOLEAN, modes : SUBSET {"normal", "no_download", "check_sources"},
          forces : SUBSET BOOLEAN, backdated : BOOLEAN, runs : 0 .. MaxRuns, faults : 0 .. MaxFaults]

ASSUME DailyAssumption ==
  /\ MinTickers \in Nat /\ MaxAge \in Nat /\ WindowDays \in Nat
  /\ MaxRuns \in Nat /\ MaxFaults \in Nat
  /\ Setups \subseteq Setup

VARIABLES
  setup,         (* of Setups                                                  *)
  today,         (* the day that is predicted when no --as-of-date is given    *)
  run,           (* the run in progress                                        *)
  runs, faults,  (* how many there were                                        *)
  output,        (* the runs whose models, predictions, Top10 and summary are   *)
                 (* in the output directories of a prediction date             *)
  archive,       (* the runs whose files are in the archive of a date          *)
  latest,        (* the mirror of an archive, of day 0 when missing or not whole  *)
  status,        (* the status JSON of an as-of date                           *)
  exit           (* how the last run ended                                     *)

runVars == <<output, archive, latest, status>>
vars == <<storeVars, setup, today, run, runs, faults, output, archive, latest, status, exit>>

PredictionDays == 1 .. LastDay + 1
Ids == 0 .. MaxRuns
Idle == [pc |-> "idle"]
NotEnded == [by |-> 0, asOf |-> 0, code |-> 0, reason |-> "none"]

(* Mutant of ArchiveOrder: the two CSVs first.                                 *)
ArchiveOrder_CsvsFirst ==
  <<"top10_csv", "prediction_csv", "top10_xlsx", "prediction_parquet",
    "ranking_model", "gap_model", "intraday_model",
    "rolling_train_csv", "rolling_train_parquet", "summary", "status_json", "readme">>

(* create_daily_archive writes the files of an archive in this order, and        *)
(* afterwards the metadata with the hashes of some of them.                     *)
ArchiveOrder ==
  <<"top10_csv", "top10_xlsx", "prediction_csv", "prediction_parquet",
    "ranking_model", "gap_model", "intraday_model",
    "rolling_train_csv", "rolling_train_parquet", "summary", "status_json", "readme">>
ArchiveFiles == {ArchiveOrder[i] : i \in DOMAIN ArchiveOrder}
Hashed == {"top10_xlsx", "prediction_parquet", "ranking_model", "gap_model", "intraday_model",
           "rolling_train_parquet"}

(* The run of each file, the runs of the files that the hashes were made of, the *)
(* run of the metadata, and the run whose final status is there.                *)
ArchiveOf(id) == [files |-> [f \in ArchiveFiles |-> id], sha256 |-> [f \in Hashed |-> id],
                  metadata |-> id, status |-> id]
NoArchive == ArchiveOf(0)

Init ==
  /\ StoreInit
  /\ setup \in Setups
  /\ today = History + 2
  /\ run = Idle /\ runs = 0 /\ faults = 0
  /\ output = [p \in PredictionDays |->
                 [models |-> 0, predictions |-> 0, top10 |-> 0, summary |-> 0, failed |-> FALSE]]
  /\ archive = [p \in PredictionDays |-> NoArchive]
  /\ latest = [day |-> 0, copy |-> NoArchive]
  /\ status = [a \in PredictionDays |-> [by |-> 0, code |-> 0]]
  /\ exit = NotEnded

-----------------------------------------------------------------------------
Strict == setup.strict
At(pc) == run.pc = pc
Goto(pc) == run' = [run EXCEPT !.pc = pc]
Target == run.asOf - 1

Ends(code, reason) ==
  /\ run' = Idle
  /\ exit' = [by |-> run.id, asOf |-> run.asOf, code |-> code, reason |-> reason]

WriteStatus(code) == status' = [status EXCEPT ![run.asOf] = [by |-> run.id, code |-> code]]

FailureSummary(day) ==
  output' = [output EXCEPT ![day].summary = run.id, ![day].failed = TRUE]

(* main, write_best_effort_failure_status: an exception or Ctrl-C.  The code    *)
(* in the status is the one the run had set, if it had come that far.         *)
RecordedCode == IF run.statusWritten THEN 0 ELSE 1
Fails(code, reason) ==
  /\ Ends(code, reason)
  /\ WriteStatus(RecordedCode)
  /\ FailureSummary(run.predict)
  /\ UNCHANGED <<storeVars, archive, latest>>

(* The run stops by itself with exit code 1; the summary has the date of the    *)
(* target, not of the prediction.                                            *)
Stops(reason) ==
  /\ Ends(1, reason)
  /\ WriteStatus(1)
  /\ FailureSummary(Target)
  /\ UNCHANGED <<storeVars, archive, latest>>

-----------------------------------------------------------------------------
(* daily_context.py                                                         *)
StartRun(asOf, mode, force) ==
  /\ run = Idle
  /\ runs < setup.runs
  /\ asOf = today \/ (setup.backdated /\ asOf \in History + 1 .. today)
  /\ runs' = runs + 1
  /\ run' = [pc |-> "download", id |-> runs + 1, asOf |-> asOf, mode |-> mode, force |-> force,
             latestClean |-> LatestClean, update |-> asOf - 1, predict |-> asOf,
             daily |-> NoRows, fallback |-> FALSE, passed |-> FALSE, window |-> {},
             filed |-> 0, mirrors |-> 0, statusWritten |-> FALSE]
  /\ exit' = NotEnded
  /\ UNCHANGED <<storeVars, setup, runVars, today, faults>>

(* What run_ohlcv_update keeps of an answer; short of the threshold a strict    *)
(* run keeps nothing.                                                        *)
Kept(answer) ==
  IF Strict /\ Cardinality({t \in Tickers : answer[t] # "none"}) < MinTickers THEN NoRows
  ELSE answer

DailyRows ==
  IF run.mode = "no_download" THEN {[t \in Tickers |-> raw[<<Target, t>>]]}
  ELSE {Kept(answer) : answer \in [Tickers -> Quality]}

(* Mutant of FallBack: the next business day is taken twice.                   *)
FallBack_NextButOne ==
  run' = IF run.latestClean = 0 THEN [run EXCEPT !.pc = "macro", !.fallback = TRUE]
         ELSE [run EXCEPT !.pc = "macro", !.fallback = TRUE, !.update = run.latestClean,
                          !.predict = run.latestClean + 2]

(* Without rows the run goes on with the latest clean day.                    *)
FallBack ==
  run' = IF run.latestClean = 0 THEN [run EXCEPT !.pc = "macro", !.fallback = TRUE]
         ELSE [run EXCEPT !.pc = "macro", !.fallback = TRUE, !.update = run.latestClean,
                          !.predict = run.latestClean + 1]

Download ==
  /\ At("download")
  /\ \E daily \in DailyRows :
       IF daily = NoRows THEN FallBack /\ UNCHANGED raw
       ELSE /\ run' = [run EXCEPT !.pc = "clean", !.daily = daily]
            /\ AppendRaw(Target, daily, run.force)
  /\ UNCHANGED <<clean, macro, features, training, runVars, exit>>

WriteClean ==
  /\ At("clean")
  /\ AppendClean(Target, run.daily, run.force)
  /\ run' = [run EXCEPT !.pc = "macro", !.daily = NoRows]
  /\ UNCHANGED <<raw, macro, features, training, runVars, exit>>

(* A source whose market was closed answers with a day before.                *)
DownloadMacro ==
  /\ At("macro")
  /\ \E actual \in Days : /\ actual <= Target /\ Target - actual <= MaxAge
                         /\ AppendMacro(Target, actual, run.force)
  /\ Goto("check")
  /\ UNCHANGED <<raw, clean, features, training, runVars, exit>>

MacroFails == At("macro") /\ Stops("macro")

(* The source check; a strict run stops, another one remembers the result.    *)
ExpectedSourceDay == IF Strict THEN Target ELSE run.update
SourcesPassed ==
  /\ SourcesAvailable(ExpectedSourceDay, MaxAge)
  /\ ~(Strict /\ run.fallback)

CheckSources ==
  /\ At("check")
  /\ Strict => SourcesPassed
  /\ run.mode # "check_sources"
  /\ run' = [run EXCEPT !.pc = "features", !.passed = SourcesPassed]
  /\ UNCHANGED <<storeVars, runVars, exit>>

SourcesFail == At("check") /\ Strict /\ ~SourcesPassed /\ Stops("sources")

OnlyCheckSources ==
  /\ At("check")
  /\ Strict => SourcesPassed
  /\ run.mode = "check_sources"
  /\ Ends(0, "checked")
  /\ WriteStatus(0)
  /\ UNCHANGED <<storeVars, output, archive, latest>>

-----------------------------------------------------------------------------
UpdateFeatures ==
  /\ At("features")
  /\ run.update \in Days
  /\ FeaturesComputable(run.update)
  /\ AppendFeatures(run.update, run.force)
  /\ Goto("training")
  /\ UNCHANGED <<raw, clean, macro, training, runVars, exit>>

NoFeatures ==
  /\ At("features")
  /\ \/ FeatureRows(run.update) = {} /\ Fails(1, "no clean rows")
     \/ /\ FeatureRows(run.update) # {} /\ ~FeaturesComputable(run.update)
        /\ Fails(1, "no sox history")

UpdateTraining ==
  /\ At("training")
  /\ ~Duplicated(CombinedTraining(run.update, run.force))
  /\ training' = CombinedTraining(run.update, run.force)
  /\ Goto("models")
  /\ UNCHANGED <<raw, clean, macro, features, runVars, exit>>

TrainingRejected ==
  /\ At("training")
  /\ Duplicated(CombinedTraining(run.update, run.force))
  /\ Fails(1, "duplicate rows")

TrainModels ==
  /\ At("models")
  /\ Cardinality(EligibleDates(training, run.predict)) >= WindowDays
  /\ run' = [run EXCEPT !.pc = "predict",
                        !.window = TrainWindow(training, run.predict, WindowDays)]
  /\ output' = [output EXCEPT ![run.predict].models = run.id]
  /\ UNCHANGED <<storeVars, archive, latest, status, exit>>

WindowTooShort ==
  /\ At("models")
  /\ Cardinality(EligibleDates(training, run.predict)) < WindowDays
  /\ Fails(1, "short window")

(* Mutant of Priced: features without a price are left out of the prediction.   *)
Priced_Skipped == FeatureRows(run.update) # {}

Priced == {k \in features : k[1] = run.update} \subseteq clean

Predict ==
  /\ At("predict")
  /\ Priced
  /\ output' = [output EXCEPT ![run.predict].predictions = run.id]
  /\ Goto("report")
  /\ UNCHANGED <<storeVars, archive, latest, status, exit>>

PriceMissing == At("predict") /\ ~Priced /\ Fails(1, "no prev_close")

Report ==
  /\ At("report")
  /\ output' = [output EXCEPT ![run.predict].top10 = run.id, ![run.predict].summary = run.id,
                              ![run.predict].failed = FALSE]
  /\ Goto("archive")
  /\ UNCHANGED <<storeVars, archive, latest, status, exit>>

-----------------------------------------------------------------------------
(* archive.py                                                               *)
ArchiveRefused == At("archive") /\ ~run.passed /\ Fails(1, "sources incomplete")

(* The next file, by copy2 or written anew.  The status JSON written here is not  *)
(* the final one.                                                            *)
ArchiveFile ==
  /\ At("archive") /\ run.passed
  /\ run.filed < Len(ArchiveOrder)
  /\ LET file == ArchiveOrder[run.filed + 1]
         a == archive[run.predict]
     IN  archive' = [archive EXCEPT ![run.predict] =
           [a EXCEPT !.files[file] = run.id,
                     !.status = IF file = "status_json" THEN 0 ELSE a.status]]
  /\ run' = [run EXCEPT !.filed = @ + 1]
  /\ UNCHANGED <<storeVars, output, latest, status, exit>>

(* build_archive_hashes reads the files that are in the archive by now.          *)
ArchiveMetadata ==
  /\ At("archive") /\ run.passed
  /\ run.filed = Len(ArchiveOrder)
  /\ LET a == archive[run.predict] IN
       archive' = [archive EXCEPT ![run.predict] =
         [a EXCEPT !.metadata = run.id, !.sha256 = [f \in Hashed |-> a.files[f]]]]
  /\ Goto("unlink")
  /\ UNCHANGED <<storeVars, output, latest, status, exit>>

(* update_latest_archive: rmtree, then copytree.  It is called when the archive *)
(* is made and after each of the two status writes.                          *)
RemoveLatest ==
  /\ At("unlink")
  /\ latest' = [day |-> 0, copy |-> NoArchive]
  /\ Goto("mirror")
  /\ UNCHANGED <<storeVars, output, archive, status, exit>>

Refreshes == 3
CopyLatest ==
  /\ At("mirror")
  /\ latest' = [day |-> run.predict, copy |-> archive[run.predict]]
  /\ IF run.mirrors + 1 < Refreshes
     THEN /\ run' = [run EXCEPT !.pc = "status", !.mirrors = @ + 1]
          /\ UNCHANGED exit
     ELSE Ends(0, "success")
  /\ UNCHANGED <<storeVars, output, archive, status>>

(* Mutant of FinalStatus: the status is not copied into the archive.           *)
FinalStatus_NotArchived ==
  /\ At("status")
  /\ WriteStatus(0)
  /\ run' = [run EXCEPT !.pc = "unlink", !.statusWritten = TRUE]
  /\ UNCHANGED <<storeVars, output, archive, latest, exit>>

FinalStatus ==
  /\ At("status")
  /\ WriteStatus(0)
  /\ archive' = [archive EXCEPT ![run.predict].status = run.id]
  /\ run' = [run EXCEPT !.pc = "unlink", !.statusWritten = TRUE]
  /\ UNCHANGED <<storeVars, output, latest, exit>>

-----------------------------------------------------------------------------
Step ==
  \/ Download \/ WriteClean \/ DownloadMacro \/ MacroFails
  \/ CheckSources \/ SourcesFail \/ OnlyCheckSources
  \/ UpdateFeatures \/ NoFeatures \/ UpdateTraining \/ TrainingRejected
  \/ TrainModels \/ WindowTooShort \/ Predict \/ PriceMissing \/ Report
  \/ ArchiveRefused \/ ArchiveFile \/ ArchiveMetadata
  \/ RemoveLatest \/ CopyLatest \/ FinalStatus

RunStep == Step /\ UNCHANGED <<setup, today, runs, faults>>

(* A full disk, a file held open by Excel, Ctrl-C.                            *)
Abort(code) ==
  /\ run # Idle
  /\ faults < setup.faults
  /\ faults' = faults + 1
  /\ Fails(code, "fault")
  /\ UNCHANGED <<setup, today, runs>>

(* The process is killed.                                                    *)
Kill ==
  /\ run # Idle
  /\ faults < setup.faults
  /\ faults' = faults + 1
  /\ Ends(1, "killed")
  /\ UNCHANGED <<storeVars, setup, runVars, today, runs>>

NextDay ==
  /\ run = Idle
  /\ today < LastDay + 1
  /\ today' = today + 1
  /\ UNCHANGED <<storeVars, setup, runVars, run, runs, faults, exit>>

Next ==
  \/ \E asOf \in PredictionDays, mode \in setup.modes, force \in setup.forces :
       StartRun(asOf, mode, force)
  \/ RunStep
  \/ \E code \in {1, 130} : Abort(code)
  \/ Kill
  \/ NextDay

Spec == Init /\ [][Next]_vars

-----------------------------------------------------------------------------
Pcs == {"download", "clean", "macro", "check", "features", "training", "models", "predict",
        "report", "archive", "unlink", "mirror", "status"}
Reasons == {"none", "success", "checked", "macro", "sources", "no clean rows", "no sox history",
            "duplicate rows", "short window", "no prev_close", "sources incomplete", "fault", "killed"}

Run == [pc : Pcs, id : Ids, asOf : PredictionDays, mode : {"normal", "no_download", "check_sources"},
        force : BOOLEAN, latestClean : 0 .. LastDay, update : Days, predict : PredictionDays,
        daily : [Tickers -> Quality], fallback : BOOLEAN, passed : BOOLEAN,
        window : SUBSET TrainingRows, filed : 0 .. Len(ArchiveOrder), mirrors : 0 .. Refreshes - 1,
        statusWritten : BOOLEAN]

(* Every variable keeps its type: the files hold rows of the days and tickers, *)
(* the outputs and the archive the numbers of runs.                           *)
TypeOK ==
  /\ raw \in [Keys -> Quality] /\ macro \in [Days -> 0 .. LastDay]
  /\ clean \subseteq Keys /\ features \subseteq Keys /\ training \subseteq TrainingRows
  /\ setup \in Setups /\ today \in PredictionDays /\ runs \in Ids /\ faults \in 0 .. MaxFaults
  /\ run \in {Idle} \cup Run
  /\ run # Idle => run.id = runs
  /\ output \in [PredictionDays -> [models : Ids, predictions : Ids, top10 : Ids, summary : Ids,
                                     failed : BOOLEAN]]
  /\ LET Archived == [files : [ArchiveFiles -> Ids], sha256 : [Hashed -> Ids],
                      metadata : Ids, status : Ids] IN
     /\ archive \in [PredictionDays -> Archived]
     /\ latest \in [day : 0 .. LastDay + 1, copy : Archived]
  /\ status \in [PredictionDays -> [by : Ids, code : {0, 1}]]
  /\ exit.by \in Ids /\ exit.code \in {0, 1, 130} /\ exit.reason \in Reasons

(* No model of a strict run learns from the day it predicts, nor from a later   *)
(* one: the window is cut by the date of the features only, so it takes the      *)
(* check of the sources, which refuses a day before the last clean one, and      *)
(* training rows that never run ahead of the clean file (rolling_window.py:37).  *)
(* --force replaces a day in the clean file, and may leave nothing of it, while   *)
(* the training rows stay: after that an earlier --as-of-date passes the check    *)
(* and learns from its own day, so the two options are not used together here.   *)
ForcedBackdating == setup.backdated /\ TRUE \in setup.forces
NoTrainingOnPredictedDay ==
  Strict /\ ~ForcedBackdating /\ run # Idle => \A r \in run.window : r.target < run.predict

(* Of strict runs without --force, whatever was cut off between the writes of    *)
(* the files: the derived ones never hold a row whose source is missing.  A      *)
(* training row has its features, the prices of its day and of its target, a     *)
(* clean row was downloaded.                                                 *)
OnlyAppends == Strict /\ TRUE \notin setup.forces
DerivedRowsHaveSources ==
  OnlyAppends =>
    /\ features \subseteq clean
    /\ \A k \in clean : raw[k] # "none"
    /\ \A r \in training : /\ <<r.feature, r.ticker>> \in features
                           /\ <<r.target, r.ticker>> \in clean

(* No sequence of such runs, partial downloads, reruns of earlier days and        *)
(* crashes brings the files into a state that makes a run fail in the middle:     *)
(* neither the duplicate check of the training rows, which would then fail every  *)
(* later run, nor the prices of the feature rows, nor the archive after the       *)
(* Top10.                                                                    *)
FilesStayUsable ==
  OnlyAppends =>
    exit.reason \notin {"duplicate rows", "no clean rows", "no prev_close", "sources incomplete"}

(* A strict run that succeeds has predicted exactly the tickers that the day     *)
(* before has valid prices for, whatever forced and stopped runs left in the      *)
(* features (attach_prev_close, daily_prediction.py).                           *)
TradedArePredicted ==
  Strict /\ run = Idle /\ exit.reason = "success" =>
    {k \in features : k[1] = exit.asOf - 1} = {k \in clean : k[1] = exit.asOf - 1}

(* An archive that crashes left with files of several runs shows it: some file     *)
(* is not the one that the hash in the metadata was made of.  One mixture does not *)
(* show, a Top10 CSV of a later run than all the rest: it is copied first and has  *)
(* no hash.  The mirror is never made of a mixed archive, not of that one either.  *)
MixedArchiveShows ==
  /\ \A p \in PredictionDays :
       LET a == archive[p] IN
       (\E f \in ArchiveFiles \ {"top10_csv"} : a.files[f] # a.metadata) =>
         \E f \in Hashed : a.files[f] # a.sha256[f]
  /\ \A f \in ArchiveFiles : latest.copy.files[f] = latest.copy.metadata

(* A run that ended with success left one set of files: outputs, archive with    *)
(* the final status, mirror and status JSON are all its own.                    *)
SuccessIsWhole ==
  run = Idle /\ exit.reason = "success" =>
    \E p \in PredictionDays :
      /\ output[p] = [models |-> exit.by, predictions |-> exit.by, top10 |-> exit.by,
                      summary |-> exit.by, failed |-> FALSE]
      /\ archive[p] = ArchiveOf(exit.by)
      /\ latest = [day |-> p, copy |-> archive[p]]
      /\ status[exit.asOf] = [by |-> exit.by, code |-> 0]
=============================================================================
