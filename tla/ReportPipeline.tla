--------------------------- MODULE ReportPipeline ---------------------------
(***************************************************************************)
(* The securities-report pipeline: every night three Bronze tasks fetch    *)
(* the day's PDFs and write one manifest per firm and date, Silver         *)
(* extracts their text, two Gold tasks put the rows into monthly Parquet   *)
(* files, and a maintenance DAG that Airflow triggers by two Datasets      *)
(* merges Gold into Delta tables, rebuilds the FAISS index and restarts    *)
(* the search server.                                                      *)
(*                                                                         *)
(* One month is modelled.  A report stands for its row and its vector.     *)
(* The index and the id list hold the DART chunks too; only their reports  *)
(* are written down, so an empty set is an index of DART chunks.           *)
(***************************************************************************)
EXTENDS Integers, FiniteSets

CONSTANTS
    Reports,    \* reports published, positive integers in the order of their keys
    LastDay,    \* the target dates are 1 .. LastDay, all of one month
    DayOf,      \* [Reports -> 1 .. LastDay]
    FirmOf,     \* [Reports -> Collectors]
    Scans,      \* reports whose PDF gives no text
    MaxReruns,  \* bound: command line runs
    MaxFaults   \* bound: crashes, timeouts, reads that fail

Days == 1 .. LastDay
Collectors == {"koreainvest", "shinhaninvest"}
Bronze == Collectors \cup {"naver"}
GoldTasks == {"structured", "embedding"}
Tasks == Bronze \cup {"silver"} \cup GoldTasks
Runners == {"dag", "cli"}

ASSUME ReportAssumption ==
    /\ Reports \subseteq Nat \ {0}
    /\ IsFiniteSet(Reports)
    /\ LastDay \in Nat \ {0}
    /\ DayOf \in [Reports -> Days]
    /\ FirmOf \in [Reports -> Collectors]
    /\ Scans \subseteq Reports
    /\ MaxReruns \in Nat
    /\ MaxFaults \in Nat

VARIABLES
    pdf,            \* bronze/{firm}/{date}/{report_id}.pdf
    manifest,       \* entries of each _manifest.json that name a stored PDF
    silver,         \* silver/{firm}/{date}/{report_id}.json
    input,          \* llm_status of the embedding input of each report
    structured,     \* rows of the month in gold/structured
    embeddings,     \* rows of the month in gold/embeddings
    day,            \* target date of the night's scheduled runs
    status,         \* state of each task of the night
    tries,          \* retries each task has used
    silverRun,      \* local state of a Silver run, per runner
    structuredRun,  \* local state of a structured run, per runner
    embeddingRun,   \* local state of the embedding run
    events,         \* Datasets updated since the maintenance DAG was last triggered
    maint,          \* what the maintenance run does next
    built,          \* what build_index.py holds in memory
    delta,          \* the two Delta tables
    files,          \* faiss_index.bin and report_ids.json
    server,         \* the same two in the memory of the search server
    reruns, faults, \* counters of the bounds
    kept,           \* history: rows of the scheduled Gold runs that succeeded
    finished,       \* history: days each Gold task succeeded for
    bought,         \* history: answers the LLM gave for each report
    lost,           \* history: those of them that were lost before they were stored
    slips,          \* history: what happened that the pipeline does not repair
    cut             \* history: the last index build gave up

bronzeVars == <<pdf, manifest>>
silverVars == <<silver, silverRun>>
structuredVars == <<structured, structuredRun>>
embeddingVars == <<input, embeddings, embeddingRun, bought, lost>>
taskVars == <<day, status, tries>>
maintVars == <<maint, built, delta, files, server, cut>>
goldHistory == <<kept, finished>>

vars == <<bronzeVars, silverVars, structuredVars, embeddingVars, taskVars, maintVars,
          goldHistory, events, reruns, faults, slips>>

----------------------------------------------------------------------------
(* Tasks of the night.                                                      *)

Succeed(t) ==
    /\ status' = [status EXCEPT ![t] = "success"]
    /\ UNCHANGED <<day, tries>>

(* Mutant of FailTask: every failure is retried.                            *)
FailTask_AlwaysRetries(t) ==
    /\ UNCHANGED day
    /\ tries' = [tries EXCEPT ![t] = @ + 1]
    /\ status' = [status EXCEPT ![t] = "none"]

\* retries=1: the second failure of a task is final.
FailTask(t) ==
    /\ UNCHANGED day
    /\ IF tries[t] = 0
         THEN /\ tries' = [tries EXCEPT ![t] = 1]
              /\ status' = [status EXCEPT ![t] = "none"]
         ELSE /\ status' = [status EXCEPT ![t] = "failed"]
              /\ UNCHANGED tries

EndedBy(runner, t, outcome) ==
    IF runner = "cli"
      THEN UNCHANGED taskVars
      ELSE IF outcome = "success" THEN Succeed(t) ELSE FailTask(t)

Fault ==
    /\ faults < MaxFaults
    /\ faults' = faults + 1

Rerun ==
    /\ reruns < MaxReruns
    /\ reruns' = reruns + 1

Upstream(t) == IF t = "silver" THEN Bronze ELSE {"silver"}

\* Allowed and failed states of the ExternalTaskSensors.
Ready(t) == status[t] = "none" /\ \A u \in Upstream(t) : status[u] = "success"
Block(t) ==
    /\ status[t] = "none"
    /\ \E u \in Upstream(t) : status[u] = "failed"
    /\ status' = [status EXCEPT ![t] = "failed"]
    /\ UNCHANGED <<day, tries, bronzeVars, silverVars, structuredVars, embeddingVars, maintVars,
                   goldHistory, events, reruns, faults, slips>>

----------------------------------------------------------------------------
(* Bronze.                                                                  *)

Published(f, d) == {r \in Reports : FirmOf[r] = f /\ DayOf[r] = d}

\* A listing that lost pages gives some of the reports.  PDFs are stored one
\* by one, then the manifest of the firm and date is replaced as a whole.
\* koreainvest writes it even when nothing was listed.
WriteManifest(f, d, listed, got) ==
    /\ pdf' = pdf \cup got
    /\ manifest' = IF listed = {} /\ f # "koreainvest"
                     THEN manifest
                     ELSE [manifest EXCEPT ![f][d] = listed \cap (pdf \cup got)]

Collect(f) ==
    /\ status[f] = "none"
    /\ \E listed \in SUBSET Published(f, day) :
         \E got \in SUBSET listed : WriteManifest(f, day, listed, got)
    /\ Succeed(f)
    /\ UNCHANGED <<silverVars, structuredVars, embeddingVars, maintVars, goldHistory, events,
                   reruns, faults, slips>>

CollectAgain(f) ==
    /\ Rerun
    /\ \E d \in 1 .. day : \E listed \in SUBSET Published(f, d) :
         \E got \in SUBSET listed : WriteManifest(f, d, listed, got)
    /\ UNCHANGED <<taskVars, silverVars, structuredVars, embeddingVars, maintVars, goldHistory,
                   events, faults, slips>>

\* Storage fails before the manifest is written.
CollectCut(f) ==
    /\ status[f] = "none"
    /\ Fault
    /\ \E got \in SUBSET Published(f, day) : pdf' = pdf \cup got
    /\ FailTask(f)
    /\ UNCHANGED <<manifest, silverVars, structuredVars, embeddingVars, maintVars, goldHistory,
                   events, reruns, slips>>

\* download_all_pdfs of the Naver collector reads a name that is not defined
\* there, so both attempts of the task raise before anything is stored.
CollectNaver ==
    /\ status["naver"] = "none"
    /\ status' = [status EXCEPT !["naver"] = "failed"]
    /\ tries' = [tries EXCEPT !["naver"] = 1]
    /\ UNCHANGED <<day, bronzeVars, silverVars, structuredVars, embeddingVars, maintVars,
                   goldHistory, events, reruns, faults, slips>>

\* Outside the code: the operator marks the failed Naver task as succeeded
\* and clears the tasks that failed because they wait for it.
MarkNaver ==
    /\ status["naver"] = "failed"
    /\ status' = [t \in Tasks |-> IF t = "naver" THEN "success"
                                  ELSE IF t \notin Bronze THEN "none" ELSE status[t]]
    /\ UNCHANGED <<day, tries, bronzeVars, silverVars, structuredVars, embeddingVars, maintVars,
                   goldHistory, events, reruns, faults, slips>>

----------------------------------------------------------------------------
(* Silver.                                                                  *)

NoExtraction == [on |-> FALSE, todo |-> {}]

\* The manifests of the date are read when the run starts.
Entries(d) == UNION {manifest[f][d] : f \in Collectors}
Extraction(d) == [on |-> TRUE, todo |-> Entries(d)]

StartSilver ==
    /\ Ready("silver")
    /\ status' = [status EXCEPT !["silver"] = "running"]
    /\ silverRun' = [silverRun EXCEPT !["dag"] = Extraction(day)]
    /\ UNCHANGED <<day, tries, bronzeVars, silver, structuredVars, embeddingVars, maintVars,
                   goldHistory, events, reruns, faults, slips>>

RerunSilver ==
    /\ ~silverRun["cli"].on
    /\ Rerun
    /\ \E d \in 1 .. day : silverRun' = [silverRun EXCEPT !["cli"] = Extraction(d)]
    /\ UNCHANGED <<taskVars, bronzeVars, silver, structuredVars, embeddingVars, maintVars,
                   goldHistory, events, faults, slips>>

\* process_one: an existing report is skipped; a PDF that cannot be read or
\* parsed is only counted.
ExtractOne(runner) ==
    /\ silverRun[runner].on
    /\ \E r \in silverRun[runner].todo :
         /\ silverRun' = [silverRun EXCEPT ![runner].todo = @ \ {r}]
         /\ \/ UNCHANGED silver
            \/ r \in pdf /\ silver' = silver \cup {r}
    /\ UNCHANGED <<taskVars, bronzeVars, structuredVars, embeddingVars, maintVars,
                   goldHistory, events, reruns, faults, slips>>

\* A report that failed does not fail the run.
EndSilver(runner) ==
    /\ silverRun[runner].on /\ silverRun[runner].todo = {}
    /\ silverRun' = [silverRun EXCEPT ![runner] = NoExtraction]
    /\ EndedBy(runner, "silver", "success")
    /\ UNCHANGED <<bronzeVars, silver, structuredVars, embeddingVars, maintVars, goldHistory,
                   events, reruns, faults, slips>>

CrashSilver(runner) ==
    /\ silverRun[runner].on
    /\ Fault
    /\ silverRun' = [silverRun EXCEPT ![runner] = NoExtraction]
    /\ EndedBy(runner, "silver", "crash")
    /\ UNCHANGED <<bronzeVars, silver, structuredVars, embeddingVars, maintVars, goldHistory,
                   events, reruns, slips>>

----------------------------------------------------------------------------
(* Gold structured.                                                         *)

NoTable == [at |-> "idle", rows |-> {}, existing |-> {}]

SilverOf(d) == {r \in silver : DayOf[r] = d}
Other(runner) == IF runner = "dag" THEN "cli" ELSE "dag"

BeginTable(runner, d) ==
    /\ structuredRun' = [structuredRun EXCEPT ![runner] =
                            [at |-> "read", rows |-> SilverOf(d), existing |-> {}]]
    /\ slips' = IF structuredRun[Other(runner)].at = "idle" THEN slips
                ELSE slips \cup {"overlap"}

StartStructured ==
    /\ Ready("structured")
    /\ status' = [status EXCEPT !["structured"] = "running"]
    /\ BeginTable("dag", day)
    /\ UNCHANGED <<day, tries, bronzeVars, silverVars, structured, embeddingVars, maintVars,
                   goldHistory, events, reruns, faults>>

RerunStructured ==
    /\ structuredRun["cli"].at = "idle"
    /\ Rerun
    /\ \E d \in 1 .. day : BeginTable("cli", d)
    /\ UNCHANGED <<taskVars, bronzeVars, silverVars, structured, embeddingVars, maintVars,
                   goldHistory, events, faults>>

ReadMonth(runner) ==
    LET run == structuredRun[runner] IN
    /\ run.at = "read"
    /\ structuredRun' = [structuredRun EXCEPT
                            ![runner].at = IF run.rows = {} THEN "end" ELSE "write",
                            ![runner].existing = structured]
    /\ UNCHANGED <<taskVars, bronzeVars, silverVars, structured, embeddingVars, maintVars,
                   goldHistory, events, reruns, faults, slips>>

(* Mutant of MergeRows: the month holds the rows of the run only.           *)
MergeRows_NewOnly(existing, new) == new

\* merge_rows: the day's rows replace those with their report_id.
MergeRows(existing, new) == existing \cup new

\* The month's file is replaced by the rows read before and the day's rows.
WriteMonth(runner) ==
    LET run == structuredRun[runner] IN
    /\ run.at = "write"
    /\ structured' = MergeRows(run.existing, run.rows)
    /\ structuredRun' = [structuredRun EXCEPT ![runner].at = "end"]
    /\ UNCHANGED <<taskVars, bronzeVars, silverVars, embeddingVars, maintVars, goldHistory,
                   events, reruns, faults, slips>>

(* Mutant of Deliver: the Dataset is updated only by a run that has rows.   *)
Deliver_IfRows(t, rows) ==
    /\ events' = IF rows = {} THEN events ELSE events \cup {t}
    /\ finished' = [finished EXCEPT ![t] = @ \cup {day}]
    /\ kept' = [kept EXCEPT ![t] = @ \cup rows]

\* The outlet of a successful task updates its Dataset, rows or no rows.
Deliver(t, rows) ==
    /\ events' = events \cup {t}
    /\ finished' = [finished EXCEPT ![t] = @ \cup {day}]
    /\ kept' = [kept EXCEPT ![t] = @ \cup rows]

EndStructured(runner) ==
    /\ structuredRun[runner].at = "end"
    /\ structuredRun' = [structuredRun EXCEPT ![runner] = NoTable]
    /\ EndedBy(runner, "structured", "success")
    /\ IF runner = "dag" THEN Deliver("structured", structuredRun[runner].rows)
                         ELSE UNCHANGED <<events, goldHistory>>
    /\ UNCHANGED <<bronzeVars, silverVars, structured, embeddingVars, maintVars, reruns, faults,
                   slips>>

CrashStructured(runner) ==
    /\ structuredRun[runner].at # "idle"
    /\ Fault
    /\ structuredRun' = [structuredRun EXCEPT ![runner] = NoTable]
    /\ EndedBy(runner, "structured", "crash")
    /\ UNCHANGED <<bronzeVars, silverVars, structured, embeddingVars, maintVars, goldHistory,
                   events, reruns, slips>>

----------------------------------------------------------------------------
(* Gold embeddings.                                                         *)

NoEncoding == [at |-> "idle", keys |-> {}, todo |-> {}, answer |-> "none", rows |-> {},
               llmFailed |-> FALSE]

StartEmbedding ==
    /\ Ready("embedding")
    /\ status' = [status EXCEPT !["embedding"] = "running"]
    /\ embeddingRun' = [NoEncoding EXCEPT !.at = "inputs", !.keys = SilverOf(day),
                                          !.todo = SilverOf(day)]
    /\ UNCHANGED <<day, tries, bronzeVars, silverVars, structuredVars, input, embeddings, bought,
                   lost, maintVars, goldHistory, events, reruns, faults, slips>>

(* Mutant of HasAnswer: an answer is reused once its row is in Gold.        *)
HasAnswer_InGold(r) == r \in embeddings

\* An answer is reused from silver/embedding_input unless it failed.
HasAnswer(r) == input[r] = "ok"

\* One key after the other, in the order of the listing.
FirstOf(S) == {r \in S : \A other \in S : r <= other}
Handles(r) ==
    /\ embeddingRun.at = "inputs" /\ embeddingRun.answer = "none"
    /\ r \in FirstOf(embeddingRun.todo)

\* A report without text is skipped, a stored answer is reused.
EmbedOne ==
    /\ \E r \in Reports :
         /\ Handles(r)
         /\ r \in Scans \/ HasAnswer(r)
         /\ embeddingRun' = [embeddingRun EXCEPT !.todo = @ \ {r},
                                                !.rows = @ \cup ({r} \ Scans)]
    /\ UNCHANGED <<taskVars, bronzeVars, silverVars, structuredVars, input, embeddings, bought,
                   lost, maintVars, goldHistory, events, reruns, faults, slips>>

\* A missing answer, or one that failed, is asked for: call_haiku returns an
\* answer, or raises after three attempts.
AskLLM ==
    /\ \E r \in Reports, answer \in {"ok", "failed"} :
         /\ Handles(r)
         /\ r \notin Scans /\ ~HasAnswer(r)
         /\ embeddingRun' = [embeddingRun EXCEPT !.answer = answer]
         /\ bought' = IF answer = "ok" THEN [bought EXCEPT ![r] = @ + 1] ELSE bought
    /\ UNCHANGED <<taskVars, bronzeVars, silverVars, structuredVars, input, embeddings, lost,
                   maintVars, goldHistory, events, reruns, faults, slips>>

\* put_json_to_s3 stores what came of it; only an answer becomes a row.
StoreAnswer ==
    /\ embeddingRun.at = "inputs" /\ embeddingRun.answer # "none"
    /\ \E r \in FirstOf(embeddingRun.todo) :
         /\ input' = [input EXCEPT ![r] = embeddingRun.answer]
         /\ embeddingRun' =
              [embeddingRun EXCEPT
                 !.todo = @ \ {r}, !.answer = "none",
                 !.rows = IF embeddingRun.answer = "ok" THEN @ \cup {r} ELSE @,
                 !.llmFailed = @ \/ embeddingRun.answer = "failed"]
    /\ UNCHANGED <<taskVars, bronzeVars, silverVars, structuredVars, embeddings, bought, lost,
                   maintVars, goldHistory, events, reruns, faults, slips>>

\* The scheduled run is the only writer of the month, so its read and its
\* write are one step.
UploadMonth ==
    /\ embeddingRun.at = "inputs" /\ embeddingRun.todo = {}
    /\ embeddings' = MergeRows(embeddings, embeddingRun.rows)
    /\ embeddingRun' = [embeddingRun EXCEPT !.at = "end"]
    /\ UNCHANGED <<taskVars, bronzeVars, silverVars, structuredVars, input, bought, lost,
                   maintVars, goldHistory, events, reruns, faults, slips>>

(* Mutant of EmbeddingRaises: failed LLM calls do not fail the task.        *)
EmbeddingRaises_Lenient == embeddingRun.keys # {} /\ embeddingRun.rows = {}

EmbeddingRaises ==
    \/ embeddingRun.llmFailed
    \/ embeddingRun.keys # {} /\ embeddingRun.rows = {}

EndEmbedding ==
    /\ embeddingRun.at = "end"
    /\ embeddingRun' = NoEncoding
    /\ IF EmbeddingRaises
         THEN FailTask("embedding") /\ UNCHANGED <<events, goldHistory>>
         ELSE Succeed("embedding") /\ Deliver("embedding", embeddingRun.keys \ Scans)
    /\ UNCHANGED <<bronzeVars, silverVars, structuredVars, input, embeddings, bought, lost,
                   maintVars, reruns, faults, slips>>

\* A crash, the hour of execution_timeout or a call of S3 that raises.  An answer
\* that is not stored by then is lost.
CrashEmbedding ==
    /\ embeddingRun.at # "idle"
    /\ Fault
    /\ embeddingRun' = NoEncoding
    /\ lost' = [r \in Reports |->
                  IF embeddingRun.answer = "ok" /\ r \in FirstOf(embeddingRun.todo)
                    THEN lost[r] + 1 ELSE lost[r]]
    /\ FailTask("embedding")
    /\ UNCHANGED <<bronzeVars, silverVars, structuredVars, input, embeddings, bought, maintVars,
                   goldHistory, events, reruns, slips>>

----------------------------------------------------------------------------
(* The next night starts when the runs of this one have ended, a            *)
(* maintenance run it triggered among them: a day is longer than they take. *)

\* Airflow triggers the DAG when both Datasets were updated since it last did.
Triggered(updated) == updated = GoldTasks

NextDay ==
    /\ day < LastDay
    /\ \A t \in Tasks : status[t] \in {"success", "failed"}
    /\ \A p \in Runners : ~silverRun[p].on /\ structuredRun[p].at = "idle"
    /\ maint = "idle" /\ ~Triggered(events)
    /\ day' = day + 1
    /\ status' = [t \in Tasks |-> "none"]
    /\ tries' = [t \in Tasks |-> 0]
    /\ slips' = IF status["structured"] = status["embedding"] THEN slips
                ELSE slips \cup {"unpaired"}
    /\ UNCHANGED <<bronzeVars, silverVars, structuredVars, embeddingVars, maintVars, goldHistory,
                   events, reruns, faults>>

----------------------------------------------------------------------------
(* Maintenance: Delta merge, index build, server restart.                   *)

Trigger ==
    /\ maint = "idle"
    /\ Triggered(events)
    /\ events' = {}
    /\ maint' = "structured"
    /\ UNCHANGED <<taskVars, bronzeVars, silverVars, structuredVars, embeddingVars, built, delta,
                   files, server, cut, goldHistory, reruns, faults, slips>>

\* A month that cannot be read counts as a month without rows: the job goes
\* on and ends well.
Unread == Fault /\ slips' = slips \cup {"unread"}

MergeTable(t, rows, next) ==
    /\ maint = t
    /\ maint' = next
    /\ \/ delta' = [delta EXCEPT ![t] = @ \cup rows] /\ UNCHANGED <<faults, slips>>
       \/ UNCHANGED delta /\ Unread
    /\ UNCHANGED <<taskVars, bronzeVars, silverVars, structuredVars, embeddingVars, built, files,
                   server, cut, goldHistory, events, reruns>>

DeltaMerge ==
    \/ MergeTable("structured", structured, "embedding")
    \/ MergeTable("embedding", embeddings, "load")

\* A Parquet file that cannot be read is left out of the index.
LoadVectors ==
    /\ maint = "load"
    /\ maint' = "index"
    /\ \/ built' = embeddings /\ UNCHANGED <<faults, slips>>
       \/ built' = {} /\ Unread
    /\ UNCHANGED <<taskVars, bronzeVars, silverVars, structuredVars, embeddingVars, delta, files,
                   server, cut, goldHistory, events, reruns>>

\* The files are written one after the other, then the process ends.
SaveFile(f) ==
    /\ maint = f
    /\ files' = [files EXCEPT ![f] = built]
    /\ IF f = "index"
         THEN maint' = "ids" /\ UNCHANGED built
         ELSE maint' = "restart" /\ built' = {}
    /\ UNCHANGED <<taskVars, bronzeVars, silverVars, structuredVars, embeddingVars, delta,
                   server, cut, goldHistory, events, reruns, faults, slips>>

(* Mutants of LoadedFiles: the id list stays in memory; nothing is loaded.  *)
LoadedFiles_KeepsIds == [files EXCEPT !["ids"] = server["ids"]]
LoadedFiles_KeepsAll == server

LoadedFiles == files

Restart ==
    /\ maint = "restart"
    /\ server' = LoadedFiles
    /\ maint' = "idle"
    /\ cut' = FALSE
    /\ UNCHANGED <<taskVars, bronzeVars, silverVars, structuredVars, embeddingVars, built, delta,
                   files, goldHistory, events, reruns, faults, slips>>

\* A task of the run fails: it is retried from its start, or the run ends.
Building == {"load", "index", "ids"}
Retried == IF maint \in Building THEN "load"
           ELSE IF maint \in GoldTasks THEN "structured" ELSE maint
MaintFails ==
    /\ maint # "idle"
    /\ Fault
    /\ built' = {}
    /\ \/ maint' = Retried /\ UNCHANGED <<slips, cut>>
       \/ /\ maint' = "idle"
          /\ slips' = slips \cup {"gaveUp"}
          /\ cut' = (cut \/ maint \notin GoldTasks)
    /\ UNCHANGED <<taskVars, bronzeVars, silverVars, structuredVars, embeddingVars, delta,
                   files, server, goldHistory, events, reruns>>

\* The server may be restarted at any time, by a deployment or after a crash.
ServerRestart ==
    /\ server' = LoadedFiles
    /\ UNCHANGED <<taskVars, bronzeVars, silverVars, structuredVars, embeddingVars, maint, built,
                   delta, files, cut, goldHistory, events, reruns, faults, slips>>

----------------------------------------------------------------------------

Init ==
    /\ pdf = {} /\ manifest = [f \in Collectors |-> [d \in Days |-> {}]]
    /\ silver = {}
    /\ input = [r \in Reports |-> "none"]
    /\ structured = {} /\ embeddings = {}
    /\ day = 1
    /\ status = [t \in Tasks |-> "none"]
    /\ tries = [t \in Tasks |-> 0]
    /\ silverRun = [p \in Runners |-> NoExtraction]
    /\ structuredRun = [p \in Runners |-> NoTable]
    /\ embeddingRun = NoEncoding
    /\ events = {} /\ maint = "idle" /\ built = {}
    /\ delta = [t \in GoldTasks |-> {}]
    /\ files = [f \in {"index", "ids"} |-> {}]
    /\ server = files
    /\ reruns = 0 /\ faults = 0
    /\ kept = [t \in GoldTasks |-> {}]
    /\ finished = [t \in GoldTasks |-> {}]
    /\ bought = [r \in Reports |-> 0] /\ lost = [r \in Reports |-> 0]
    /\ slips = {} /\ cut = FALSE

MaintStep ==
    \/ Trigger
    \/ DeltaMerge
    \/ LoadVectors
    \/ \E f \in {"index", "ids"} : SaveFile(f)
    \/ Restart

Next ==
    \/ \E f \in Collectors : Collect(f) \/ CollectAgain(f) \/ CollectCut(f)
    \/ CollectNaver
    \/ MarkNaver
    \/ \E t \in Tasks \ Bronze : Block(t)
    \/ StartSilver
    \/ RerunSilver
    \/ StartStructured
    \/ RerunStructured
    \/ \E p \in Runners :
         \/ ExtractOne(p) \/ EndSilver(p) \/ CrashSilver(p)
         \/ ReadMonth(p) \/ WriteMonth(p) \/ EndStructured(p) \/ CrashStructured(p)
    \/ StartEmbedding
    \/ EmbedOne
    \/ AskLLM
    \/ StoreAnswer
    \/ UploadMonth
    \/ EndEmbedding
    \/ CrashEmbedding
    \/ NextDay
    \/ MaintStep
    \/ MaintFails
    \/ ServerRestart

Spec == Init /\ [][Next]_vars

\* The scheduler triggers the maintenance run and its tasks run on.
FairSpec == Spec /\ WF_vars(MaintStep)

----------------------------------------------------------------------------
(* Properties.                                                              *)

TaskType ==
    /\ day \in Days
    /\ status \in [Tasks -> {"none", "running", "success", "failed"}]
    /\ tries \in [Tasks -> 0 .. 1]

BronzeType ==
    /\ pdf \subseteq Reports
    /\ manifest \in [Collectors -> [Days -> SUBSET Reports]]

SilverType ==
    /\ silver \subseteq Reports
    /\ silverRun \in [Runners -> [on : BOOLEAN, todo : SUBSET Reports]]

StructuredType ==
    /\ structured \subseteq Reports
    /\ structuredRun \in [Runners -> [at : {"idle", "read", "write", "end"},
                                      rows : SUBSET Reports, existing : SUBSET Reports]]

EmbeddingType ==
    /\ input \in [Reports -> {"none", "failed", "ok"}]
    /\ embeddings \subseteq Reports
    /\ embeddingRun \in [at : {"idle", "inputs", "end"}, keys : SUBSET Reports,
                         todo : SUBSET Reports, answer : {"none", "ok", "failed"},
                         rows : SUBSET Reports, llmFailed : BOOLEAN]
    /\ bought \in [Reports -> Nat] /\ lost \in [Reports -> Nat]

MaintType ==
    /\ maint \in {"idle", "restart"} \cup GoldTasks \cup Building
    /\ built \subseteq Reports
    /\ delta \in [GoldTasks -> SUBSET Reports]
    /\ files \in [{"index", "ids"} -> SUBSET Reports]
    /\ server \in [{"index", "ids"} -> SUBSET Reports]
    /\ cut \in BOOLEAN

HistoryType ==
    /\ events \subseteq GoldTasks
    /\ kept \in [GoldTasks -> SUBSET Reports]
    /\ finished \in [GoldTasks -> SUBSET Days]
    /\ slips \subseteq {"overlap", "unpaired", "unread", "gaveUp"}
    /\ reruns \in 0 .. MaxReruns /\ faults \in 0 .. MaxFaults

\* The values every variable may take.
TypeOK ==
    /\ TaskType /\ BronzeType /\ SilverType /\ StructuredType /\ EmbeddingType
    /\ MaintType /\ HistoryType

\* A row of a monthly file is never lost (merge_rows: "idempotent append"),
\* however runs crash, are retried and are started by hand, unless two runs of
\* the structured job overlapped.
RowsStay ==
    [][ /\ embeddings \subseteq embeddings'
        /\ "overlap" \in slips \/ structured \subseteq structured' ]_vars

\* A Gold task that succeeded has put every report it listed into the month,
\* those of an earlier attempt and of LLM calls that failed at first included.
GoldIsWhole ==
    /\ kept["embedding"] \subseteq embeddings
    /\ "overlap" \in slips \/ kept["structured"] \subseteq structured

\* The LLM answers again for a report only when an earlier answer was lost
\* between the call and the put: never because a later report failed, the
\* task was retried or its month was not written.
AnswersAreReused == \A r \in Reports : bought[r] <= 1 + lost[r]

\* With no maintenance run going on or due, the Delta tables hold every report
\* of the days for which both Gold tasks succeeded, unless on some night only
\* one of them did, a month was not readable or a maintenance run gave up.
DeltaCaughtUp ==
    maint = "idle" /\ ~Triggered(events) /\ slips = {}
    => \A t \in GoldTasks : \A r \in kept[t] :
         DayOf[r] \in finished["structured"] \cap finished["embedding"] => r \in delta[t]

\* The server pairs the vectors of its index with the ids of the same build,
\* unless it was restarted while a build was going on or had been cut short.
ServedTogether ==
    server["index"] # server["ids"] => maint \in Building \cup {"restart"} \/ cut

\* What both Gold tasks delivered becomes searchable and stays so.
ReportsBecomeSearchable ==
    <>[](\A r \in kept["embedding"] :
           DayOf[r] \in finished["structured"] \cap finished["embedding"]
           => r \in server["index"] \cap server["ids"] \/ slips # {})
=============================================================================
