# TLA+ models and proofs of the data pipelines

This directory specifies the parts of the repository whose correctness depends on the order in
which concurrent or interruptible things happen: the OpenDART ingestion under `src/src/dart_agent`,
from the quota of the API keys to the Gold files; the nightly pipeline of securities reports
under `src/dags`, from the PDFs to the search server; and the daily update of the trading system
under `src/AI_Trading_System`, from the prices of a day to the archive of its predictions. Scheduled
runs, worker threads, retries and operators share one PostgreSQL database, one set of API keys and
one tree of objects, mostly without locks; the daily update keeps its state in files that it rewrites. TLC
checks the modules on small instances; TLAPS proves the safety properties of every component but the
backfill, which does not keep its promise, for every value of the constants.

Paths below are relative to `src/`; a bare name (`workflows.py`, `gold/build.py`) is under `src/dart_agent`.

- [1. The system](#1-the-system)
- [2. Modules and code](#2-modules-and-code)
- [3. What the runs check](#3-what-the-runs-check)
- [4. Bounds](#4-bounds)
- [5. Fairness](#5-fairness)
- [6. What is proved](#6-what-is-proved)
- [7. What is only model-checked, and what is not modelled](#7-what-is-only-model-checked-and-what-is-not-modelled)
- [8. Plan](#8-plan)
- [9. Running it](#9-running-it)

## 1. The system

### Inventory

| component | state it keeps | operations | with whom it interacts |
|---|---|---|---|
| **DART quota table** `rate_limiter.py`, `quota_keys.py` | `api_quota_counter`: one row per key and day (`all_api`, `quota_counted`), per key and minute, one per second for the window of all keys, attempts per day | `reserve`, `release`, `mark_external_daily_limit`, `retry_after_seconds`, `wait_for_capacity` | called by the key pool of every process, in transactions of its own |
| **OpenDART key pool** `opendart/key_pool.py`, `client.py` | `_next_index` under a lock; the locals of each `_call` | the API methods, all through `_call`, `_reserve_key`, `_reserve_specific_key` | reserves a key, sends the HTTP request, releases on TRANSPORT, marks on 020 |
| **collect_job queue and collectors** `repositories/jobs.py`, `workflows.py` 532-742, 1448-1715, 1960-2050, 2600-3163 | `collect_job` rows (status, retry_count, scheduled_at, error_message), the Bronze files, `raw_file`, `api_log` | enqueue, claim, collect, done / failed / reset / reschedule, two requeue jobs, recollection, resync of a replay | worker threads use the pool; the storage; disclosures enqueue jobs; Silver reads DONE jobs |
| **Disclosure discovery and groups** `services/disclosure.py`, `repositories/disclosures.py`, `workflows.py` 150-506 | `disclosure` rows with `group_key`, `is_latest`; `dart_run_state` (watermarks, backfill frontier) | discovery by list API, `upsert_disclosure` and the refresh of its group, backfill windows, nightly backfill, replay | creates collect jobs; its `is_latest` decides what Silver and Gold build |
| **Listed companies** `services/listed_company.py`, `collectors/corp_code.py` | `listed_company`, `corp_code` | roster diff, listing and delisting, opening the backfill of a new company | selects the companies that discovery covers |
| **Bronze completion and Silver** `silver/*.py`, `workflows.py` 745-1447 | complete markers, `report.json`, Silver done markers; run-state watermarks | completion pass, incremental and full Silver passes, rebuild of targets, stale output removal | reads Bronze and DONE jobs; recollection invalidates its markers |
| **Gold build and compaction** `gold/build.py`, `writer.py`, `compaction.py` | Parquet parts, done markers | target scan, batch flush, compaction | reads Silver; compaction and builds overlap |
| **Object storage and paths** `storage/*.py` | files by path | exists, read, write, delete | everything above |
| **Run state and configuration** `repositories/state.py`, `config.py`, `dart_keys.py` | `dart_run_state` | get, set | discovery, Silver |
| **DART DAG definitions** `dags/gold/dag_dart_*.py` | none | order and overlap of the entry points | decide which of the above may run at once |
| **Securities report pipeline** `dags/bronze`, `dags/silver`, `dags/gold`, `dags/maintenance`, `spark_jobs/gold_to_delta.py`, `server/build_index.py` | per firm and date PDFs and a manifest, Silver texts, LLM answers, monthly Parquet files, Delta tables, the FAISS index and its id list, the state of the night's tasks | collect, extract, structure, embed, merge, build the index, restart | the maintenance DAG, triggered by two Datasets, also merges and indexes the Gold of DART |
| **Chat and agent server** `server`, `v4_conversation_store.py` | conversations | request handling around a language model | reads the data stores |
| **Trading daily update** `AI_Trading_System/scripts/run_daily_update_pipeline.py`, `AI_Trading_System/src/pipeline` | Parquet files of raw and clean prices, macro rows, features and training rows; per prediction date models, predictions, Top10 and summary; an archive per date and a mirror of the latest; a status file | download, source check, feature and training update, training, prediction, report, archive | its own files only |
| **Trading research and model numerics** the rest of `AI_Trading_System`, `src/model` | feature tables, trained models | feature formulas, training, back-tests | the daily update calls the formulas |
| **Embedding, extraction, Spark jobs** `embedding`, `pipeline`, `collectors`, the other `spark_jobs` | output tables | batch transformations, run by hand | none of the above |
| **Deployment and scripts** `terraform`, `scripts`, `sql` | none at run time | | |

### How the DART components interact

A detail job goes from discovery to Silver like this. `upsert_disclosure` stores the disclosure and
`enqueue_collect_job` inserts a PENDING row, once per request hash. `run_detail_collector` claims a
batch (`FOR UPDATE SKIP LOCKED`), sets it RUNNING and gives it to a thread pool. A worker looks for
the Bronze file, calls the API through the key pool when it is missing, writes the file, registers and
logs it in a transaction, and ends the job in another: DONE, FAILED, PENDING again (out of quota or
past the deadline), or PENDING with a later `scheduled_at` (a failure that is worth another try). An API call
takes a key round-robin, reserves one request in the quota table *before* it is sent, and gives the
reservation back only when the transport failed. All processes share the table, and no lock is held
while a request is out.

### How the report pipeline's tasks interact

Every night three Bronze tasks store the PDFs of the target date and replace one manifest per firm and
date. Sensors hold Silver until all three have succeeded and the two Gold tasks until Silver has. Silver
extracts the text of each manifest entry; `structured` and `embedding` each list the Silver objects of
the date and put their rows into the file of the month by reading, merging and writing it. Each Gold task
that succeeds updates a Dataset, and Airflow starts the maintenance DAG when both were updated since it
last did: Delta merge, `build_index.py`, restart of the server, which reads index and id list into memory.
Every job can be started by hand too.

### What is hard

- **Quota.** `reserve` reads the clock before it waits for the locks, so a transaction may count in
  a second, minute or day that is over; a release decrements the window of the *failure*, not of the
  reservation; a 020 raises a counter that other workers still decrement; two reservations must not
  both pass a check before either increments.
- **Jobs.** Between any two statements of a worker, another run, a requeue job, an operator's
  recollection or a resync may change the row it works on, and no UPDATE of a status has a condition
  on the old one, except in the claim and the requeues. A process may die anywhere; nothing
  recovers a RUNNING row. A financial statement is two files and may fail between them. A file is
  written before the transaction that registers it. One failing transaction at the end of a job
  cancels the jobs of its batch that have not started.
- **Silver.** Complete marker, report and done marker are three objects that six procedures write or
  delete one after the other; a watermark moves past rows that commit later.
- **Disclosures.** Under READ COMMITTED each statement of the group refresh sees another state, and two
  transactions do not see each other's rows.
- **Backfill.** Its windows are counted back from a today that moves.
- **Gold.** Builds of two DAGs and the compaction write one directory; names have the resolution of a
  second; what fails never gets a marker and comes first again.
- **Reports.** Retries after half the work, runs by hand beside the scheduled ones, events that are
  paired by count, two files that belong together.
- **Trading.** Five files that are appended to one after the other, the prices before the sources are checked;
  reruns for earlier dates and with `--force`; an archive written over an earlier one and mirrored three times.

`PROJECT.json` lists each of these hazards at the line where it bites, with the properties that catch
it, or a note saying why none does.

### What makes each component correct

- *Quota table and pool*: no counter passes its safe limit; what OpenDART really charges stays within
  a named margin of it; a key that said 020 is closed; a caller sees "limit" only when every key said so.
- *Jobs*: one run has a job at a time; RUNNING means that somebody works on it; DONE means that its
  files are there; a file is fetched once; retries end; a queued job comes to an end.
- *Disclosures*: one latest version per group, the newest; a change that a marker copies is seen.
- *Backfill*: no day between the frontier and the latest day was never discovered.
- *Silver*: a done report was made from the present Bronze files; a DONE job reaches a report; a marker
  that does not copy its row is looked at again.
- *Gold*: the facts and embeddings of what is marked are there and of one version; the newest row of a report counts, once, whichever of build and
  compaction was interrupted; runs make progress.
- *Reports*: months lose no rows; a task that succeeded stored everything it listed; what both Gold tasks
  delivered reaches the server's memory, with an index and ids of one build.
- *Trading*: no model learns from the day it predicts; derived rows keep their sources; no run is stopped by
  what earlier ones left; a success leaves files of one run in all places.
- *Companies* (not modelled): one bad roster does not delist everything.

## 2. Modules and code

| module | what it is |
|---|---|
| `RateLimiter` | the quota table and its transactions as operators, with the clock |
| `KeyPool` | the worker threads' path through `_call`; extends `RateLimiter` and is the specification of the two together |
| `MCKeyPool` + 3 cfgs | TLC instances |
| `KeyPoolProofs` | type correctness, limits and 020, the billing margin, the sliding window, the end of a limited call |
| `JobLifecycle` | what the queue promises to its readers: the abstract life cycle of a job |
| `CollectJobs` | the queue, the collector runs, the requeue jobs, the recollection and the resync |
| `MCCollectJobs` + 3 cfgs | TLC instances |
| `CollectJobsProofs`, `CollectJobsSafety` | type correctness; the five safety properties and the refinement of `JobLifecycle` |
| `Silver`, `MCSilver` + cfg | the outputs of a disclosure and the passes over them; composed with `JobLifecycle` |
| `SilverProofs` | type correctness and the three safety properties |
| `Disclosures`, `MCDisclosures` + cfg | the transactions of `upsert_disclosure` |
| `DisclosuresProofs` | type correctness, the exactness of groups, the stamps of changes |
| `Backfill`, `MCBackfill` + cfg | the windows and the frontier of the nightly backfill |
| `GoldLayer` | what the Gold layer promises to its readers, without files |
| `Gold`, `MCGold` + cfg | builds and compaction |
| `GoldProofs` | type correctness, the three invariants of the files, the progress of a clean run, the refinement of `GoldLayer` |
| `ReportPipeline`, `MCReportPipeline` + cfg | the nightly report pipeline with its maintenance DAG |
| `ReportPipelineProofs` | type correctness, four safety properties, the catching up of Delta |
| `TradingStore` | the data files of the daily update and what each write makes of them, as operators |
| `DailyUpdate`, `MCDailyUpdate` + cfg | the runs of the daily update; extends `TradingStore` |
| `DailyUpdateProofs` | type correctness and the six safety properties |

### RateLimiter and KeyPool

Every counter of the table is a function of the key and the number of its minute or day
(`daily_all`, `daily_quota_counted`, `minute_all`) or of the second (`minute_global_sec`). `Reserve`,
`Release` and `MarkExternalDailyLimit` are the bodies of the three transactions. Each is atomic:
`reserve` selects its counter rows `FOR UPDATE` and then takes the advisory transaction lock of the
global window, so check and increment are not separated by another reservation. The `now` that a
transaction works on is a parameter read one step earlier, which is where the interleavings are.
`RateLimitExceeded` is the order of the checks: minute, daily, window sum, one-second bucket.
`Dropped` is the deletion of old buckets, which a reservation that was stalled for a minute meets.

A thread's `frame` is its call stack. `pc` names the point between two transactions; the other
fields are the locals that are live there, and those that are dead are reset, so that two states
differ only where the code could. The actions are the code's steps:

| action | code |
|---|---|
| `Call`, `ClaimStartIndex`, `SelectKey` | entering `_call`; `_claim_start_index`; a turn of the offset loop of `_reserve_key` |
| `ReserveKey`, `ReserveKeyLimited` | `reserve` commits, or raises: next untried key, else wait (minute) or leave (daily). `_reserve_key` raises with the type of its *last* error |
| `Answer`, `TransportFailure`, `DailyLimitAnswer` | the environment: what `invoke` came back with |
| `ReleaseKey`, `SelectSameKey`, `ReserveSameKey`, `ReserveSameKeyLimited` | the transport retries on the same key; a daily limit here leaves `_call` without trying other keys |
| `MarkKey` | 020: mark, go on with the untried keys, raise when there is none |
| `ClockTick` | time |

History variables say what no row keeps: `billed_*` (what OpenDART charged), `late_*` (which threads
released in another window than they reserved in), `issued` (the second a request really left),
`marked_020`, `reserved_after_020`, `released_after_020`.

### CollectJobs

`row[j]` is the `collect_job` row, with the error message reduced to the classes that the requeue
jobs tell apart; `bronze` is the set of files; `task[r][j]` says how far run `r` is with job `j`, and
carries the `retry_count` it read at the claim; `exhausted[r]` is the batch's `quota_exhausted` event.

| action | code |
|---|---|
| `Enqueue`, `DelayEnds` | `enqueue_collect_job`; `scheduled_at` comes |
| `ClaimPendingJobs` | `claim_pending_jobs` and the start of a batch |
| `StartJob`, `SkipJob` | `process` on a free thread: go on, or give the job back when the quota flag is set or the deadline passed |
| `CheckBronze`, `ApiAnswers`, `ApiLimited`, `JobFails`, `WriteBronze`, `LogRequest` | a collector's exists test, API call, write, and the transaction that registers and logs; `NextPart` goes on to OFS after CFS |
| `FinishJob`, `FinishFails` | the transaction that ends the job; when it raises, `pool.map` raises and the queued jobs of the batch are cancelled |
| `Crash` | the process dies |
| `RequeueTransportFailedJobs`, `RequeueQuotaFailedJobs` | the periodic requeues |
| `BeginRecollect`, `DeleteArtifact`, `LookupJob`, `ResetOrEnqueueJob`, `RecollectDies` | `run_bronze_recollect_targets`: files are deleted first, the status is read, then written, in separate steps |
| `ResyncFindsMissing`, `ResyncLooksUp`, `ResyncResets` | `_resync_detail_jobs_for_item` |

Two collector runs may overlap: the incremental pipeline allows one active run, but the stand-alone
`detail_collector` DAG is kept for manual runs (`dags/gold/dag_dart_incremental_pipeline.py:45-48`), and
the collector's own docstring (`workflows.py:550`) speaks of concurrent workers. History: `manual`
(operator resets), `lost` (RUNNING rows of a run that died), `stolen` (put back to PENDING under a
run, until its last run is through), `invalidated` (files deleted by an operator and neither fetched
again nor queued again free of a run).

### JobLifecycle, and how CollectJobs implements it

`JobLifecycle` knows the status of a job, who works on it, which jobs have all their files and which
were withdrawn by an operator, and says that a job is taken only when PENDING, ends only under a worker,
and becomes DONE only with its files or withdrawn. `CollectJobs` implements it under the mapping
`status` = the status column, `working` = the jobs some run holds, `complete` = the jobs whose files are
all in Bronze, `withdrawn` = `invalidated`. Threads, retries, quotas and batches disappear: most steps of
a run are stutters. The modules that read the queue (here `Silver`) build on the abstract one.

### Silver

`marker`, `report` and `done` are the three objects of a disclosure; `at[p]` is how far procedure `p` is,
with what it has read. A behaviour runs the procedures of one of `Schedules`, which are the domain of `at`. Jobs move
as `JobLifecycle` lets them, a failure and its retry being to these procedures the same as a job that is given back;
the module adds `finished_at` and the open transaction that stamps it. Time appears only by comparison with the watermark: `old`, `since`, `new`.

| action | code |
|---|---|
| `IncrementalStarts` ... `IncrementalEnds`, `IncrementalStopsEarly` | `run_silver_incremental`: start, select by watermark, evaluate, decide, write or delete; the watermark moves to the start, only when all rows were seen |
| `CompletionStarts` ... `CompletionEnds` | `run_bronze_completion`: rows, markers and `raw_file_reference` are read first, `last_run_at` is written last |
| `RawToSilverStarts`, `RebuildStarts`, `RebuildEvaluates`, `RebuildWritesMarker` | `run_raw_to_silver`, `run_silver_rebuild_targets` |
| `InvalidationStarts`, `RecollectWithdraws`, `RecollectRequeues` | `run_bronze_recollect_targets`, and the invalidation at the end of a replay |
| `ReadMarker`, `ReadBronze`, `WriteReport`, `WriteDone`, `DeleteMarker`, `DeleteDone`, `DeleteReport` | the single reads and writes that these share |
| `RowFails`, `Dies` | an exception with one disclosure, the end of the process |
| `Upsert` | what `Disclosures` does to the row that the marker copies |

The races that the code has are named by three history variables, and the properties hold for all
other disclosures: `disturbed` (a procedure deleted outputs or files while another was at the
disclosure, a structured file was deleted under another disclosure that shares it, or the completion
pass judged by a `raw_file_reference` row whose file is gone: `workflows.py:1107`, although the
docstring at `:1601` says that the files decide), `passed_over` (the disclosure failed or found no marker in an
incremental pass, its outputs were deleted, or its job committed after a pass that started later or without its files,
until a job that leads to it commits with everything there) and
`slipped` (its row changed without a later stamp or while a procedure held the older one).

### Disclosures

`row` and `group` are what is committed; `tx[t]` is a transaction with its next statement, what its
statements read and what it wrote. Each statement is a step, sees what is committed when it starts and
what its own transaction wrote, and waits for a row that another open transaction wrote:
`EnsureDisclosureGroup`, `UpsertDisclosure`, then `SelectLatest`, `MarkStarts`, `MarkRow` (row by row),
`CountVersions`, `UpdateGroup` of `_refresh_group_latest`, and `Commit` or `RollBack`, which also stands for
the victim of a deadlock. History: `tangled`, the groups that two transactions wrote at the same time, or
that a disclosure was taken from, until one transaction is alone there. In those the code really is wrong:
two transactions that insert versions of one group each set their own row to latest; and a group that
loses a version keeps its old `latest_rcept_no` and `version_count`, as only the new group is refreshed.
The branch of `_refresh_group_latest` for a group without versions (`disclosures.py:174-184`) is
unreachable, as the transaction has just put one there, and is not in the model.

### Backfill

Dates are a month and a day of a given calendar, and `AddMonth`, `SubtractMonths` and
`DateRangeWindows` compute with them as `dates.py` does. A night takes the windows before the frontier from
the latest on, discovers one (`ProcessWindow`), records its start (`SaveFrontier`), and stops at 23:50 or dies.

### Gold

`files` are the Parquet files with directory, name and rows; a name has the kind, the second its run
started in and its batch, and of two files of a directory with the same row the one whose name sorts
last counts (readers and compaction both do it so). `StartBuild`, `ReadChunk`, `WriteFile` (facts, then
embeddings, of which there is no file when nothing of the batch is embedded), `MarkDone` (one by one), `EndBuild` are a run of `run_gold_build`;
`StartCompaction`, `MergeDir`, `DeleteMerged` (in the order of the names), `EndCompaction` are
`run_gold_compaction`; both may be interrupted. History: `newest`, the content last written; `shared`,
reports that both DAGs had in hand, whose file was overwritten by a run of the same second, or that a run
took up when a run of the same second had already written them; `torn`,
those an interrupted run had in hand. Four things the model shows and the properties leave room for: a run id of
the same second overwrites the other DAG's facts; two runs of one second number their batches each for itself, so that a report
which the first wrote in its third batch and left unmarked, and which the second writes in its second, counts with the
older row, as the name of the first file sorts last; as many reports as `Limit` that always fail leave no room for
sound ones; a report that Silver rewrites is never built again, although comments at `gold/build.py:194-195`
and `218` speak of new *and changed* reports. The embeddings of the two modes are in different directories, so
their duplicates are never merged.

`GoldLayer` is what a reader of the layer sees, without files, names, batches and runs: per report a version in the facts and
one in the embeddings of each mode, which a report in `Textless` never has. Its steps are: Silver rewrites a report; the facts of some reports appear, of newer
versions than those before; the embeddings appear, of the versions of the facts; a report is marked, when both agree or it has facts and nothing to embed;
and two builders, if there are two, contend for reports, of which nothing is promised then. A marked report never changes. The
mapping (`Layer` in `Gold`) takes for a row what a reader finds in the directory: `Shown`, the row of the file whose
name sorts last. Beside Silver's, only the writes and the markers are steps of the
layer, and what makes reports contended; each step of a compaction and every interruption is a stutter.

### ReportPipeline

A report stands for its PDF, its row and its vector; one month is modelled, with `LastDay` dates.
`status`, `tries`: the Airflow tasks of the night; `silverRun`, `structuredRun`, `embeddingRun`: the
locals of the running jobs, per runner (`dag`, or `cli` for a run by hand); `maint`: the maintenance run.

| action | code |
|---|---|
| `Collect`, `CollectAgain`, `CollectCut`, `CollectNaver` | the collectors, by schedule, by hand, failing before the manifest. koreainvest writes an empty manifest, shinhaninvest does not. Naver's `download_all_pdfs` reads `cookie_jar`, which is not defined there (`dags/bronze/upload_naver.py:399`), so its task always fails |
| `MarkNaver` | external: the operator marks that task as succeeded and clears the blocked ones, without which no night goes past Bronze |
| `StartSilver`, `RerunSilver`, `ExtractOne`, `EndSilver`, `CrashSilver` | `dags/silver/silver.py` |
| `StartStructured`, `RerunStructured`, `ReadMonth`, `WriteMonth`, `EndStructured`, `CrashStructured` | `dags/gold/structured.py`, a read-modify-write of the month |
| `StartEmbedding`, `EmbedOne`, `AskLLM`, `StoreAnswer`, `UploadMonth`, `EndEmbedding`, `CrashEmbedding` | `dags/gold/embedding.py`: a stored answer is reused (`EmbedOne`); a missing one is asked for and then stored, in two steps (`embedding.py:794`, `809`), between which the run may end; the month is written, then the task fails when an answer is missing |
| `Trigger`, `DeltaMerge`, `LoadVectors`, `SaveFile`, `Restart`, `MaintFails` | `dag_maintenance_delta_faiss.py`, `gold_to_delta.py`, `build_index.py` |
| `ServerRestart`, `Block`, `NextDay` | a restart at any time; a sensor whose upstream failed; the next night |

History: `kept` (rows of scheduled runs that succeeded), `finished`, `bought` (the answers that the LLM gave, per report), `lost` (those of them that a run took along before it
stored them), `slips` (what the
pipeline does not repair: overlapping structured runs, a night on which one Gold task only succeeded, an
unreadable month, a maintenance run that gave up) and `cut` (an index build given up). The `unpaired` slip
matters: Datasets are paired by count, so after such a night the next night's *first* update starts the
maintenance run before the second Gold task is through, contrary to the comment at
`dags/maintenance/dag_maintenance_delta_faiss.py:54-55`, and from then on the pairing lags.

### TradingStore and DailyUpdate

Names in this section are of `AI_Trading_System/src/pipeline`, but for `run_pipeline`, which is in
`AI_Trading_System/scripts/run_daily_update_pipeline.py`. Of the rows of the files only the keys are kept: the day and the
ticker, for a macro row the date its values are really of, for a training row the day of its features and that of
its return. Business days are numbered. `run` is the run in progress with the locals that decide something;
`output`, `archive` and `latest` hold the number of the run that wrote each part, in an archive each file. The run of day `asOf` takes
the prices of the day before and predicts `asOf`.

| action | code |
|---|---|
| `StartRun` | the options, `daily_context.py` |
| `Download`, `WriteClean` | `market_data_update.py`: rows may be missing or invalid per ticker; without any, `FallBack` takes the latest clean day |
| `DownloadMacro`, `MacroFails` | `macro_download.py` |
| `CheckSources`, `SourcesFail`, `OnlyCheckSources` | `feature_source_completeness.py` and the decisions of `run_pipeline` |
| `UpdateFeatures`, `NoFeatures`; `UpdateTraining`, `TrainingRejected` | `feature_update.py`; `training_update.py` |
| `TrainModels`, `WindowTooShort`; `Predict`, `PriceMissing`; `Report` | `rolling_window.py`, `daily_model.py`; `daily_prediction.py`; `daily_report.py` |
| `ArchiveFile`, `ArchiveMetadata`, `ArchiveRefused` | `create_daily_archive`, over what an earlier run of the date left: one file per step, in the order of the code (`ArchiveOrder`), then the metadata with the hashes of the six files in `Hashed` as they are |
| `RemoveLatest`, `CopyLatest`, `FinalStatus` | the mirror is removed and copied after the archive and after each of the two final status writes |
| `Abort`, `Kill` | an exception or Ctrl-C anywhere, with the best-effort status; the end of the process |

The model shows four things that no property promises. A run stopped at the macro download or the
source check names its failure summary after the *target* date (`run_pipeline`, lines 432 and 600), which is the date that
the run of the day before predicted: its summary becomes "Top10: NOT GENERATED"
(`daily_report.py:206`) beside the Top10 that is there. `AI_Trading_System/reports/daily` holds such a pair
for 2026-06-15. A second run of a day writes over the first one's archive, whose `README.txt` says "immutable
audit artifacts" (`archive.py:332`). When the last refresh of the mirror fails, the process exits with 1 and
leaves code 0 in the status file, as the exit code was set before (line 823). And when a run with `--force` replaces
the prices of a day that was already trained on and gets invalid ones only, the clean file falls back behind the training
rows (`market_data_update.py:514-541`): a rerun with an earlier `--as-of-date` then passes the source check and
trains on rows whose target is the day it predicts. `NoTrainingOnPredictedDay` leaves out setups that allow both options.

## 3. What the runs check

| run | instance | properties | result |
|---|---|---|---|
| `quota` | two workers, two keys, a minute and day rollover | `TypeOK`, `CountersBounded`, `CountersCoverBilling`, `ReuseBoundedByReleases`, `LimitAnsweredByAllKeys` | hold; 157 thousand states |
| `window` | two workers, one key, a two-second window over four seconds | `SlidingWindowBounded` | holds; 914 thousand states |
| `reuse020` | two workers, two keys, one day of several minutes | `NoReuseAfter020` | **violated** |
| `queue` | a job with two files, two runs, all operators | `TypeOK`, `OneHolder`, `RunningIsHeld`, `DoneHasBronze`, `FetchedOnce`, `RetryBounded`, `FollowsLifecycle` | hold; 141 thousand states |
| `settles` | two jobs, two runs, no operators, fairness | `Settles` | holds; 168 thousand states |
| `duplicate` | as `queue`, `reset_running=False` only | `NoDuplicateWork` | **violated** |
| `outputs` | one disclosure, one job with one worker; two or three of completion, raw_to_silver, rebuild, recollection, replay; or incremental and completion pass, with two rows | `TypeOK`, `ReportIsWhole`, `NothingForgotten`, `MarkerFollowsRow` | hold; 600 thousand states |
| `groups` | two transactions, two receipts, two groups | `TypeOK`, `ExactUnlessTangled`, `ChangesAreSeen` | hold; 253 thousand states |
| `gold` | four reports, two of them with nothing to embed, both builds, the compaction, one fault | `TypeOK`, `NewestKept`, `OnceUnlessInterrupted`, `CleanRunBuilds`, `FollowsLayer` | hold; 1.5 million states |
| `nightly` | a calendar of short months | `NightlyResumes` | **violated** |
| `reports` | two nights, three reports, one run by hand, one fault | `TypeOK`, `GoldIsWhole`, `AnswersAreReused`, `DeltaCaughtUp`, `ServedTogether`, `RowsStay`, `ReportsBecomeSearchable` | hold; 1.0 million states |
| `daily` | two new days, two tickers, two or three runs, one fault; strict, strict with `--force`, or not strict | `TypeOK`, `NoTrainingOnPredictedDay`, `DerivedRowsHaveSources`, `FilesStayUsable`, `TradedArePredicted`, `MixedArchiveShows`, `SuccessIsWhole` | hold; 3.0 million states |

What they say:

- **`CountersBounded`**: no interleaving takes a counter past its limit. **`CountersCoverBilling`**:
  a counter may be *below* what OpenDART charged, because a late release undoes a call of another
  window; it is below by at most one per thread. Together: the real charge of a key is at most the
  safe limit plus the number of threads (`BilledWithinMargin`, proved).
- **`SlidingWindowBounded`**: the requests of all keys in any window are at most the global safe limit
  plus twice the threads minus one. The bound is tight: TLC refutes any smaller one. With the
  configured 900 safe against 1000 hard, the hard limit holds up to 50 threads. In production the
  pacing of one second (`max(1, 900 // 60) = 15`) makes the sum over the window nearly redundant; the run's
  constants make the sum the binding check.
- **`ReuseBoundedByReleases`** and **`NoReuseAfter020`**: the docstring says that a key that returned 020
  is not used any more that day. The mark raises the counter to the limit, but a release of another
  worker still decrements it, and the key is reserved again. The first property bounds the damage: one
  reservation per such release. A 020 of the list API only raises `daily_all`, which never blocks, so
  the properties speak of the counted APIs.
- **`LimitAnsweredByAllKeys`**: a caller gets 020 only when every key of the pool answered 020 in that
  call.
- **`OneHolder`**, **`RunningIsHeld`**, **`DoneHasBronze`**, **`FetchedOnce`**: SKIP LOCKED and RUNNING
  give exclusion; every way out of `process` leaves no row RUNNING but that of a dead run; DONE means that the
  files are there; a file is not fetched twice. The exceptions are exact: `stolen`, `lost`, `invalidated`.
- **`RetryBounded`**: reschedules and requeues stop at the limit; each operator reset allows two
  failures more, and the number of overlapping runs does not matter.
- **`NoDuplicateWork`**: the docstring says that SKIP LOCKED prevents two workers on one job. The
  recollection reads the status with a plain SELECT and then sets the row to PENDING with no condition on it, so
  a job claimed in between is put back under its worker and claimed again, even with
  `reset_running=False`.
- **`Settles`**: once no run dies, nobody resets and the quota lasts, every queued job ends DONE or
  FAILED: the delays, retries and requeues end.
- **`FollowsLifecycle`**: the queue implements `JobLifecycle`.
- **`ReportIsWhole`**: whichever of the five procedures meet, fail or die at a disclosure, its done marker
  means a report of the files that Bronze holds now, but for `disturbed` disclosures. Nothing repairs
  those later on: `run_raw_to_silver` skips whatever has a done marker.
- **`NothingForgotten`**: a complete disclosure with DONE jobs and no done marker is ahead of the
  watermark. Moving it to the *end* of the pass would lose jobs (the mutant does that). *Each* of its jobs must lead the
  pass to it: with one that does and one that does not, the latter may be the last to get its file, and the pass
  that came for the former found the disclosure incomplete.
- **`MarkerFollowsRow`**: a marker that copies an older row is looked at by the next completion pass. That
  pass rewrites the marker only; the report and its done marker stay as they are, with the old metadata.
- **`ExactUnlessTangled`**: one undisturbed upsert repairs a group, whatever happened to it before.
  **`ChangesAreSeen`**: whoever changes what a marker copies stamps the row or its group, but for the
  versions of a group that another version leaves: their original and sequence change with no stamp.
- **`FollowsLayer`**, **`NewestKept`**, **`OnceUnlessInterrupted`**: the order facts, embeddings, markers
  and the order of the deletions in the compaction are what makes interruptions harmless; the mutants
  that change these orders are found. To a reader facts appear, then embeddings of the same versions, then the
  marker, and never an older version again; it follows that what is marked is stored, its facts and, if it has any, its embeddings (`MarkedIsStored`, section 6). **`CleanRunBuilds`**: a run that nothing disturbs makes progress.
- **`NightlyResumes`**: stopped on one night and resumed on the next, the backfill compares the frontier with
  windows that have moved by a day: the window that ends *on* the frontier does not lie before it, is left out
  and is never returned to. It costs a month of disclosures per resumed night. An explicit range has
  fixed windows and does not show it.
- **`GoldIsWhole`**, **`AnswersAreReused`**, **`RowsStay`**: the retry of a Gold task puts everything into the month
  that it listed. The LLM answers for a report again only when its answer was lost between the call and the put (a kill,
  the hour of the task, a put that raises), never because another report failed, the task was retried or the month
  was not written. Such a loss is paid for again, and nothing in the code prevents it. Months only grow.
- **`DeltaCaughtUp`**, **`ServedTogether`**, **`ReportsBecomeSearchable`**: what both Gold tasks delivered is in Delta when
  no maintenance run is due; index and ids in memory are of one build; in the end, and from then on, all of it can
  be searched, unless `slips` says why not.
- **`NoTrainingOnPredictedDay`**: the training window is cut by the date of the features, and the row of the day
  before the prediction has the predicted day as its target. Only in strict mode, where the last clean day must be
  the target date *exactly*, no rerun for an earlier date trains on what it predicts; outside it, or after a forced
  run that lost the prices of its day, it does.
- **`DerivedRowsHaveSources`**, **`FilesStayUsable`**: in strict runs without `--force`, crashes, missed days, partial
  downloads and refused reruns that fill old gaps never leave a file that stops a later run. With `--force` the
  replaced prices may take the ground from under feature and training rows, and they stay; such a run then fails
  at the missing price. "No sox history" failures are allowed: they follow from a day without a macro row and pass.
- **`TradedArePredicted`**: forced or not, a strict run that succeeds predicts the tickers that have a price of the day before.
- **`MixedArchiveShows`**, **`SuccessIsWhole`**: the hashes are made of six files, neither of the two CSVs among them
  (`archive.py:99-104`, `243-249`). That an archive which a crash left mixed still shows it hangs on the order of the
  copies: the second file, the Top10 workbook, has a hash, which no longer matches. With both CSVs first
  (the mutant) two files could be new without a trace. One mixture does not show: a stop right after the Top10 CSV, which is copied first
  (`archive.py:68`), leaves it of a later run than all the rest, and every hash matches. The mirror is never mixed, not in that way either; a
  success leaves its own files everywhere.

## 4. Bounds

`quota`: `NumKeys = 2` (a key to move to and a "last" one), two threads, `DailyEmergencyLimit = 1` and
`MinuteSafeLimit = 2` (a counter that is full after one call, another after two),
`MinuteGlobalSafeLimit = 2`, `SecondsPerMinute = SecondsPerDay = MaxClock = 1` (each tick is a rollover of
minute and day, and there is one), `MaxAttempts = 2` (one retry), `MaxCalls = 1`. A minute and a day are
one second so that a release after the rollover is reached in few steps; the relation of the
lengths plays no part in these properties, and the proofs are for every value.

`window`: one key, limits per key out of the way (9), a global limit of 1, a window of 2 seconds over
the seconds 0..3 and 3 calls per thread, so that stamps before the window, at its edge and inside it
all occur, and the bound 1 + 2·2 − 1 = 4 is reached. `reuse020`: two minutes of a day are needed, since the
minute counter would otherwise close the key.

`queue`: one job with two files, `MaxTransportRetry = 2` (with 1 a transport failure is never left for the
requeue job), both values of `reset_running`, `MaxManual = 1` operator reset, `Concurrency = 1` and
`BatchSize = 2`. One job is enough for properties of one job; what jobs of a batch do to one another (the
quota flag, cancelled jobs, threads) needs two, and `settles` has them; the proofs cover every number.
`settles` leaves the operators out because its premise excludes them from some point on; what they could
leave behind before it and the run does not start from (higher retry counts, missing files of a DONE
job) only shortens the way to DONE or FAILED.

`outputs`: one disclosure and one job; the clash of two disclosures over a shared file is
history (`disturbed`) and needs no second one. `MaxActive = 2` procedures at a time: every race the
code has is between two, and both orders and every step of each are reached. `MCSchedules` has every pair of
procedures, but of the incremental pass only the one with the completion pass: the other four make the instance too
large, and its steps at a disclosure are the same as theirs. Only there the row changes, between two values (symmetric).
`OneWorker` cuts off the states in which an operator's reset has left a second worker at a job that is DONE: what that
worker can still do, `queue` shows. The proofs need neither bound and have every number of disclosures, jobs and procedures.

`groups`: two transactions of up to two upserts over two receipts and two groups, so that a version may be
inserted, touched again, and moved away while the other transaction is between any two of its statements.

`gold`: four reports, of which the third always fails (`Stuck = {3}`), the first may be rewritten once, before, while or after it is built, and the
second and fourth have nothing to embed (`Textless = {2, 4}`), so that a batch may write both kinds of files or, with
the fourth alone, facts only;
`Limit = 3` (the stuck one and two sound ones), `ChunkSize = 2` (two batches), two seconds in which each procedure
starts at most once, so that both builds may or may not share a second, and one fault. The case of the shifted batch
numbers (section 2) needs more faults and contents than this; the proof found it, and holds for any number.

`nightly`: months of two or three days, a first night on the first day of a month and three months back: the
violation needs two nights.

`reports`: two reports of one firm and date and a scan of the other firm on the next date, two nights, one run by hand,
one fault. Two reports on one date are needed for a partial run, and the second date for a month that
already has rows and for the pairing of the Datasets. The proofs are for every number of them.

`daily`: two days are in the files (`History`), two are new, so that one may be missed and filled later; two symmetric
tickers, so that one may have a row and the other none; a window of two days, so that it may be too short; macro data
at most one day old; three runs and one fault, in which a run is cut off, a second one works on what it left and a third
one on that. A setup of `MCSetups` says which options its runs may use, how many there are and how many faults:
three runs with earlier dates, with a fault, or with `--force`; two where several of these meet; two outside
the strict mode, for which the archive and the mirror are what is asked.

`MaxRuns`, `MaxActive`, `MaxItems`, `MaxContent`, `MaxFaults`, `MaxReruns`, `LastDay`, `MaxClock`, `MaxCalls`
and `MaxManual` are bounds of the models, not of the code. Every cfg of `KeyPool`
has `CHECK_DEADLOCK FALSE` because the clock stops at `MaxClock`; those of `CollectJobs` because the
system may really come to rest, all jobs DONE, or lost with no reset left;
those of `Silver`, `Gold`, `Backfill` and `DailyUpdate` because all work may be done, or the clock, the calendar or the
runs be used up.
`groups` and `reports` leave the check on, although an open transaction can always roll back and the server always
restart, so that it says little there. Threads, tickers, and runs in the
`queue` cfgs, are symmetric: no property names one. `settles` uses no symmetry.

## 5. Fairness

Only `Settles` and `ReportsBecomeSearchable` need it. In `CollectJobs`,
`FairSpec` assumes weak fairness of `DelayEnds` (time passes), of
`ClaimPendingJobs` per run (Airflow starts the collector again and again, and its loop claims until
nothing is left) and of `WorkerStep` per run and job (a thread goes on; the client has a timeout,
so an API call comes back). Nothing makes operators, replays or requeue jobs act. That a run claims at all ignores
the early return when the daily quota of all keys is used up; that is a disturbance which ends at midnight,
and the premise `<>[][Undisturbed]_vars` excludes disturbances from some point on only.

In `ReportPipeline`, `FairSpec` assumes weak fairness of `MaintStep`: Airflow triggers the DAG when both
Datasets are updated, and its tasks run on or are retried. Nothing makes a night begin, an operator mark
the Naver task, or a run succeed; `MaintFails` may occur while faults are left, and its last retry ends in `slips`.

## 6. What is proved

For every number of keys, threads, disclosures, groups, jobs, procedures, runs, reports, days, tickers and faults and
every limit, from the assumptions on the constants: `LimiterAssumption` and `PoolAssumption` (`KeyPool`), `JobsAssumption`
(`CollectJobs`), `SilverAssumption`, `DisclosuresAssumption`, `GoldAssumption`, `ReportAssumption` (`ReportPipeline`),
`TradingStoreAssumption` and `DailyAssumption` (`DailyUpdate`). They only say that the constants have their types, are
positive where the code needs it, that threads, jobs, runs and reports are finite, and that no value stands for "none".
TLC evaluates each of them on the instance that it checks.

| theorem | property | argument |
|---|---|---|
| `KeyPoolProofs!TypeCorrect` | `TypeOK` | inductive as it is |
| `KeyPoolProofs!BoundedCorrect` | `CountersBounded` | `Reserve` increments only below the limit, releases decrement, the mark raises to the limit exactly |
| `KeyPoolProofs!ReuseCorrect` | `ReuseBoundedByReleases` | `MarkAccounted`: of a marked key and day, count + releases after the mark ≥ limit + reservations after it |
| `KeyPoolProofs!CoverCorrect` | `CountersCoverBilling` | see below |
| `KeyPoolProofs!MarginCorrect` | `BilledWithinMargin` | from the two before, and a set of threads being no larger than `Threads` |
| `KeyPoolProofs!SlidingWindowCorrect` | `SlidingWindowBounded` | `WindowInv`, see below |
| `KeyPoolProofs!LimitAnswersCorrect` | `LimitAnsweredByAllKeys` | `LimitInv`: between two keys, the keys tried are those that answered 020; with a key at hand, those and that key |
| `CollectJobsProofs!TypeCorrect` | `TypeOK` | inductive; lemmas say once what a worker step leaves alone |
| `CollectJobsSafety!HolderCorrect`, `RunningCorrect` | `OneHolder`, `RunningIsHeld` | `HeldInv` = `Single` ∧ `RunningIsHeld`: neither is inductive alone, as the claim is exclusive only because held rows are RUNNING, and rows stay RUNNING only because a second run cannot end them |
| `CollectJobsSafety!FetchedCorrect` | `FetchedOnce` | inductive with `HeldInv`: nobody else writes the file between test and call |
| `CollectJobsSafety!DoneCorrect` | `DoneHasBronze` | `CollectInv` adds `Behind`: the files a run has passed are in Bronze, or the job was invalidated |
| `CollectJobsSafety!RetryCorrect` | `RetryBounded` | see below |
| `CollectJobsSafety!LifecycleCorrect` | `FollowsLifecycle` | see below |
| `SilverProofs!TypeCorrect` | `TypeOK` | inductive; a procedure has a disclosure at hand exactly between two picks |
| `SilverProofs!ReportCorrect` | `ReportIsWhole` | `ReportInv`, see below |
| `SilverProofs!MarkerCorrect` | `MarkerFollowsRow` | `MarkerInv` adds `RowsKnown` (a row that a procedure holds is the row, or has slipped) and `CompletionBehind` (what the running pass is through with is fresh) |
| `SilverProofs!WatermarkCorrect` | `NothingForgotten` | `ForgottenInv`, see below |
| `DisclosuresProofs!TypeCorrect` | `TypeOK` | inductive with `StepInv`: which statement has what at hand |
| `DisclosuresProofs!ChangesCorrect` | `ChangesAreSeen` | `TraceInv`: a row that a transaction wrote is in a group that it wrote, and one that it did not stamp stays where it is |
| `DisclosuresProofs!GroupsCorrect` | `ExactUnlessTangled` | `AtInv`, `ViewInv`, see below |
| `GoldProofs!TypeCorrect` | `TypeOK` | `SafeInv`: adds what the compaction has listed and merged, and what the builders have in hand |
| `GoldProofs!NewestCorrect` | `NewestKept` | `KeptInv`, see below |
| `GoldProofs!LayerCorrect` | `FollowsLayer` | `LayerInv`, see below |
| `GoldProofs!MarkedCorrect` | `MarkedIsStored` (no run: implied by `FollowsLayer`) | `MarkedAgree` holds of every `GoldLayer` (`AgreeStep`), and `Gold` is one |
| `GoldProofs!AloneCorrect` | with one builder `shared` stays empty | `SoloInv`, see below |
| `GoldProofs!OnceCorrect` | `OnceUnlessInterrupted` | `OnceInv`: the row of a file is marked, or its run has it in hand and has written it; nobody has in hand what is marked |
| `GoldProofs!CleanCorrect` | `CleanRunBuilds` | `CleanInv`: of what was due, a sound report is still to come, in hand, or done; by a count, as fewer stuck ones than `Limit` leave a place |
| `ReportPipelineProofs!TypeCorrect` | `TypeOK` | inductive; one lemma per group of steps |
| `ReportPipelineProofs!GoldWhole`, `RowsAreKept`, `ServedOfOneBuild` | `GoldIsWhole`, `RowsStay`, `ServedTogether` | `PipelineInv`, see below |
| `ReportPipelineProofs!AnswersPaidOnce` | `AnswersAreReused` | `PaidInv`, see below |
| `ReportPipelineProofs!DeltaCatchesUp` | `DeltaCaughtUp` | `DeltaInv`, see below |
| `DailyUpdateProofs!TypeCorrect` | `TypeOK` | inductive; lemmas say once what each write leaves alone |
| `DailyUpdateProofs!WindowCorrect` | `NoTrainingOnPredictedDay` | `SourceInv`, `FilesInv`, `TrainingBehind`, see below |
| `DailyUpdateProofs!SourcesCorrect`, `FilesCorrect` | `DerivedRowsHaveSources`, `FilesStayUsable` | `FilesInv`, see below |
| `DailyUpdateProofs!PredictionCorrect` | `TradedArePredicted` | `TradedInv`: past the features every price of the day has them, past the prediction every feature row has a price |
| `DailyUpdateProofs!ArchiveCorrect` | `MixedArchiveShows` | `ArchiveInv`: the files of an archive are, in the order of their copying, of runs that do not go up, none later than the last; the hashes are of the run of the metadata, whose files were all its own; the run in progress has written those behind it |
| `DailyUpdateProofs!SuccessCorrect` | `SuccessIsWhole` | `ResultInv`: what a run has published by its control point is its own |

*Billing.* That a counter covers the charge but for one call per late thread is inductive only with two
facts about threads: the stamp of a held reservation is never ahead of the clock, nor of a `now` read
later (`Times`), and a thread that is in `late_*[k][w]` cannot release in that window a second time for
another (`LateOnce`): to be late in a window it must reserve before it and release in it, and the
clock does not go back. `ReleaseCell` then does the arithmetic of one cell.

*The sliding window.* `SlidingWindowBounded` counts the requests of all keys by the second in which they leave, the quota
by the `now` that the thread read some time before. `WindowInv` relates the two through the threads that have read `now` and
still wait to reserve. `IssuedStamped`: what left since a second `a`, and the threads that wait with a `now` before `a`,
are together at most what the table counts since `a` and one per thread. `StampsBounded`: for each second `m` of the window that
has a count, the count since `a` and the threads that wait with a `now` before `m` are at most the limit and all
threads but one, since the last reservation stamped `m` or later saw the window below the limit, and its thread no longer waits. Nothing is counted
ahead of the clock (`NothingAhead`), and a second that `reserve` drops lies in no window that still matters. The sums
over the seconds of a window are folds, which the library's induction theorems do not reach here; the laws needed (a sum is a natural number,
looks only at its domain, grows by one with a summand, is monotonic) are shown first-order: a function that satisfies the fold's recursion exists, as
the number of pairs below the summands does, and it is unique, as a smallest set on which two differ has a smaller one.

*Retries.* Each job has claims under way and failures counted, and every claim costs one of them. The
invariant `RetryInv` bounds, per job, the runs that hold it by one plus the resets; and, when the stored count is
past the limit, the count plus the runs still able to raise it plus one if the row can be claimed again, by
`MaxTransportRetry + 1` plus two per reset. A reset adds one claim and may leave one run behind,
which is why two.

*Reports of Silver.* A procedure writes the done marker of what it evaluated and read some steps before. `ReportInv` says that
until the disclosure is disturbed all this still holds: the complete marker and the verdict vouch for the files, the files read are
current, and outputs that are about to be deleted are no longer announced. What makes it inductive is
`Sharing`: while someone deletes at a disclosure, whoever else is there makes it disturbed.

*The watermark.* `ForgottenInv` says, of a disclosure that is complete with its jobs DONE: it has its marker, or was given up in a
named way, or a job of it has a stamp that the next pass selects, or one that the running pass selects *and* that pass is
still to come to it. Two more facts are needed: a job that is DONE without its files excuses the disclosure, since they may come back
without a new stamp, and the pass that turns away from a disclosure at hand (`GivesUp`) does so only when it is safe.

*Groups.* `AtInv` says where a transaction is: at every group that it wrote or took a disclosure from, and, with it, that two
are not alone at one group. `ViewInv` then follows the statements of a transaction that is alone at a group: what it selected is the newest of what
it sees, the rows that it has marked so far are right, the count is the count, and where it has finished the group is exact *in its
eyes*. As it is alone, what it sees is what will be there when it commits.

*The newest row.* `NewestInv` (the row that counts is the one written last) needs three facts about names. `OrderInv`: a report that a
builder still has to write has older files only. `LaterInv`: a file that the running compaction has not listed sorts after the listed ones with the
same report. `MergedInv`: while the files that were merged are deleted in the order of their names, the last row of the rest is that of the merged file.
The attempt to prove `OrderInv` for two runs of one second failed, and showed the shifted batch numbers of section 2.

*The Gold layer.* Two invariants are needed beyond those of the files. `BuiltInv` says of a report that a builder has in hand
and that nobody contends for: the facts are of no newer version than the builder's row, and of that version once they are written,
as are the embeddings, where there are any; and no row is of a newer version than Silver's. So facts go forward, embeddings follow them, and a marker finds
both agreeing, or facts with nothing to embed. `SoloInv` says that a single builder never meets a file of its own second: a
run starts once in a second, and the parts of the running second are its own, of the batches behind it (`PartsPast`); so `shared` stays empty, and the
layer may demand two builders for contention. With `NewestInv` what a reader finds is `newest` (`ReadsNewest`), a history
variable that only the writes change; hence any step that writes and marks nothing is a stutter or, when `shared` grows, a
contention (`ContendStep`), and three lemmas are left, for the facts, the embeddings and the marker.
That the outputs of a marked report are of one version is then shown of the layer alone.

*Files of the trading system.* `FilesInv` is `DerivedRowsHaveSources` with what the writes rely on: a price is in raw before it is in
clean, and the training rows of a ticker make a chain, each from a day with features to the next one, so that no append doubles a key.
`FilesStayUsable` is a property of exits; `FilesInv` says why their guards never hold.

*The predicted day.* `SourceInv`: past the check, a strict run that has not fallen back works for the last day of the clean file. When nothing
is replaced, `FilesInv` puts the targets of the training rows into the clean file, hence before the predicted day; when
no earlier date is given, `TrainingBehind` keeps them behind today. With both options neither holds, and the property fails.

*Refinement.* Every action of `CollectJobs` is, under the mapping, an action of `JobLifecycle` or a
stutter. The one that needs an invariant is the end of a job: that a run about to write DONE has all
files, or the job was withdrawn, is `Behind` of `CollectInv`.

*Report pipeline.* `PipelineInv` is `TypeOK` with four parts, each about its own variables, so that frame
lemmas dispose of the other steps. `TableInv`: without an overlap one structured run is active and the rows it
read are still the month's. `ListedIsKept`: every listed report is still to do, a row of the run, a scan, or
the run knows of a failed answer. `FilesInv`: the two
files are of one build outside `Building`, and the server's copies agree outside a build unless one was cut.
None of `GoldIsWhole`, `RowsStay` and `ServedTogether` is inductive without its part.

*Answers.* `PaidInv` counts. Every answer that the LLM gave is stored, held by the run that asked for it, or
lost; at most one per report is not lost (`Accounted`), since only a report without a stored answer is asked for (`HeldIsMissing`),
and a run that starts finds none held, which follows from `Chain` (below): the task starts only when it does not run.

*Delta.* `DeltaInv` adds what orders a night. `Chain`: a Gold task runs or has succeeded only when Silver
has, and so on. `RowsOfDay`: the runs carry rows of the night's date. `Paired`: `events` are the Gold tasks that
succeeded tonight, or none after the trigger. `OwedOrDue`: what both tasks delivered is in the Delta
table, or the merge of that table is still ahead in the running maintenance run, or one is due. The step that
matters is the second delivery of a night, which makes the run due; `Chain` and `Paired` say that the first one
did not.

The proofs use SMT for arithmetic and data, Zenon for first-order steps and the temporal prover for
the last step of each theorem. Each step lemma has a step per action.

## 7. What is only model-checked, and what is not modelled

Only checked by TLC: the two liveness properties `Settles` and `ReportsBecomeSearchable`, as
liveness is out of TLAPS's reach. `NoReuseAfter020`, `NoDuplicateWork` and `NightlyResumes`
do not hold.

Abstractions inside the modelled part:
- The order of the queue (priority, `scheduled_at`): a claim takes any ready rows. Fewer orders are possible in
  the code, so safety carries over; `Settles` then holds for every order.
- The kinds of detail job are two: one file, or the two of a financial statement. The contents of
  answers are left out; "no data" (013) writes a file like any answer.
- `raw_file` and `api_log` rows are logs that no decision reads, and appear only as the transaction that may fail.
- The deadline is a choice: any job not started may find it passed. The pauses between two
  batches are left out; a batch starts when the last one is over.
- Keys of the pool are its indexes; the APIs are one per quota policy: `list` (no daily quota) and `detail`.
- Statements inside a transaction are one step. PostgreSQL's default isolation and the row locks justify
  this where stated in the modules' comments; where the code uses a plain SELECT and a later UPDATE
  (`_reset_or_enqueue_job`, the resync), the model has two steps; `Disclosures` goes statement by statement.
- `Silver`: a report is what was read of each job's files, not its text or metadata; the two passes that write markers
  compare the row, not the version constants; ownership files are left out.
- `Disclosures`: the group of a receipt is an input; classification and normalisation of names are not modelled.
- `Backfill`: the docstring of the nightly run names the remaining quota as a stop condition, the code has none, and
  so has the model.
- `Gold`: the rows of a report stand for one row; whether anything of a report is embedded (`Textless`) is fixed, and does not
  change when Silver rewrites it; a build without an embedder is left out; reading a batch is one step, and so are the reads and the write of
  a merge, between which only a build of the same second could change the files; the delta manifest is left out.
- `ReportPipeline`: the OCR list, the LLM's text and the embedding values are left out; the index holds DART chunks too,
  so that an index without reports is still built; the read and write of the embeddings month are one step, as the
  scheduled task is its only writer; the up to three attempts of one LLM call that give no usable answer are not counted as
  answers, though they cost as well; a night ends before the next begins; the month boundary (`daily_merge`
  reads only the month of its date) is not modelled, nor is the in-process rebuild of `server/opik_server.py`,
  whose text breaks off at its last line and uses a name (`new_report_texts`) that is not defined.
- `DailyUpdate`: the six macro sources are one, with one date; business days are numbered and the calendar age
  counts them; the archive is made file by file, while the copy of a whole directory (the mirror) is one step, before which
  the mirror is missing, and so are the writes of the output directories of a stage; a status is written and copied into the
  archive in one step. Left out: `--dry-run`, `--diagnose-download`, the daily snapshots, and two runs at a time,
  which nothing in the code excludes and which lose rows, as every append reads and rewrites a whole file.

Not modelled: listed companies (a single run compares two lists in memory); the extraction and transformation of
contents (report names, fact extraction in `gold/processor.py`, `silver/transform.py`, regular expressions over PDFs);
the research and the numerics of the trading system and the embedding, extraction and other Spark jobs (batch transformations and numerical
computations); the chat server (a language model decides its steps); the DAG definitions of DART (they say
which procedures may overlap, and the modules let exactly those); deployment and scripts.

## 8. Plan

The order was: the shared quota, since exceeding it stops the whole collection; the queue that
everything passes through; the data built from it; the second pipeline. What is left:

1. `ListedCompanies`: the roster diff and its guards.
2. The month boundary of the report pipeline.
3. The frontier of `Backfill` with windows of a fixed range, of which `NightlyResumes` should hold.

## 9. Running it

```
tlc -workers 2 -config MCKeyPool_quota.cfg MCKeyPool.tla
tlc -workers 2 -config MCCollectJobs_queue.cfg MCCollectJobs.tla
tlapm KeyPoolProofs.tla
tlapm CollectJobsSafety.tla
tlapm GoldProofs.tla
```

The run of each cfg takes from a few seconds to some two minutes, a proof module from one to some
minutes. `PROJECT.json` maps every definition to the lines it translates, and names for each property
a mutated definition (`ClaimPendingJobs_AnyActive`, `RateLimitExceeded_OffByOne`, `Advanced_ToTheEnd`,
`ToDelete_Last`, `EmbeddingRaises_Lenient`, ...) under which TLC
finds the property violated.
