------------------------ MODULE ReportPipelineProofs ------------------------
(***************************************************************************)
(* Type correctness of ReportPipeline and the safety theorems of its Gold   *)
(* tasks, of its server and of its Delta tables.  The steps are grouped by   *)
(* the part of the pipeline that takes them; a frame lemma says what a group *)
(* leaves alone.                                                             *)
(***************************************************************************)
EXTENDS ReportPipeline, TLAPS

BronzeStep ==
    \/ \E f \in Collectors : Collect(f) \/ CollectAgain(f) \/ CollectCut(f)
    \/ CollectNaver

SilverStep ==
    \/ StartSilver \/ RerunSilver
    \/ \E p \in Runners : ExtractOne(p) \/ EndSilver(p) \/ CrashSilver(p)

StructuredStep ==
    \/ StartStructured \/ RerunStructured
    \/ \E p \in Runners :
         ReadMonth(p) \/ WriteMonth(p) \/ EndStructured(p) \/ CrashStructured(p)

(* One report of the embedding run: skipped or reused, or asked for and stored. *)
HandleStep == EmbedOne \/ AskLLM \/ StoreAnswer

EmbeddingStep ==
    StartEmbedding \/ HandleStep \/ UploadMonth \/ EndEmbedding \/ CrashEmbedding

ServerStep == MaintStep \/ MaintFails \/ ServerRestart

NightStep == NextDay \/ MarkNaver \/ \E t \in Tasks \ Bronze : Block(t)

LEMMA StepGroups ==
  ASSUME Next
  PROVE  \/ BronzeStep \/ SilverStep \/ StructuredStep \/ EmbeddingStep
         \/ ServerStep \/ NightStep
BY DEF Next, BronzeStep, SilverStep, StructuredStep, HandleStep, EmbeddingStep, ServerStep, NightStep

(* Frames ------------------------------------------------------------------- *)

LEMMA BronzeFrame ==
  ASSUME BronzeStep
  PROVE  UNCHANGED <<silverVars, structuredVars, embeddingVars, maintVars, goldHistory, events, slips>>
BY DEF BronzeStep, Collect, CollectAgain, CollectCut, CollectNaver

LEMMA SilverFrame ==
  ASSUME SilverStep
  PROVE  UNCHANGED <<bronzeVars, structuredVars, embeddingVars, maintVars, goldHistory, events, slips>>
BY DEF SilverStep, StartSilver, RerunSilver, ExtractOne, EndSilver, CrashSilver

LEMMA StructuredFrame ==
  ASSUME StructuredStep
  PROVE  UNCHANGED <<bronzeVars, silverVars, embeddingVars, maintVars>>
BY DEF StructuredStep, StartStructured, RerunStructured, ReadMonth, WriteMonth,
       EndStructured, CrashStructured

LEMMA EmbeddingFrame ==
  ASSUME EmbeddingStep
  PROVE  UNCHANGED <<bronzeVars, silverVars, structuredVars, maintVars, reruns, slips>>
BY DEF EmbeddingStep, StartEmbedding, HandleStep, EmbedOne, AskLLM, StoreAnswer, UploadMonth,
       EndEmbedding, CrashEmbedding

LEMMA ServerFrame ==
  ASSUME ServerStep
  PROVE  UNCHANGED <<taskVars, bronzeVars, silverVars, structuredVars, embeddingVars, goldHistory, reruns>>
BY DEF ServerStep, MaintStep, Trigger, DeltaMerge, MergeTable, LoadVectors, SaveFile, Restart,
       MaintFails, ServerRestart

LEMMA NightFrame ==
  ASSUME NightStep
  PROVE  UNCHANGED <<bronzeVars, silverVars, structuredVars, embeddingVars, maintVars, goldHistory, events, reruns, faults>>
BY DEF NightStep, NextDay, MarkNaver, Block

LEMMA SlipsStay ==
  ASSUME Next
  PROVE  slips \subseteq slips'
<1>1. CASE StructuredStep
  BY <1>1 DEF StructuredStep, StartStructured, RerunStructured, BeginTable, ReadMonth, WriteMonth,
              EndStructured, CrashStructured
<1>2. CASE ServerStep
  BY <1>2 DEF ServerStep, MaintStep, Trigger, DeltaMerge, MergeTable, LoadVectors, Unread, SaveFile,
              Restart, MaintFails, ServerRestart
<1>3. CASE NightStep
  BY <1>3 DEF NightStep, NextDay, MarkNaver, Block
<1>. QED
  BY <1>1, <1>2, <1>3, StepGroups, BronzeFrame, SilverFrame, EmbeddingFrame

(* Type correctness --------------------------------------------------------- *)

LEMMA TaskMoves ==
  ASSUME TaskType, NEW t \in Tasks,
         \/ Succeed(t) \/ FailTask(t)
         \/ \E s \in {"running", "failed"} :
              /\ status' = [status EXCEPT ![t] = s]
              /\ UNCHANGED <<day, tries>>
  PROVE  TaskType'
BY DEF TaskType, Succeed, FailTask

LEMMA EndedType ==
  ASSUME TaskType, NEW t \in Tasks, NEW p \in Runners, NEW o, EndedBy(p, t, o)
  PROVE  TaskType'
BY TaskMoves DEF EndedBy, TaskType, taskVars

LEMMA Counted ==
  ASSUME HistoryType, UNCHANGED <<events, goldHistory, slips>>,
         Fault \/ UNCHANGED faults,
         Rerun \/ UNCHANGED reruns
  PROVE  HistoryType'
BY ReportAssumption DEF HistoryType, goldHistory, Fault, Rerun

LEMMA Delivered ==
  ASSUME HistoryType, TaskType, NEW t \in GoldTasks, NEW rows \in SUBSET Reports, Deliver(t, rows),
         UNCHANGED <<slips, reruns, faults>>
  PROVE  HistoryType'
BY DEF HistoryType, TaskType, Deliver

LEMMA TaskNames ==
  /\ Collectors \subseteq Tasks /\ "naver" \in Tasks /\ "silver" \in Tasks
  /\ "structured" \in Tasks /\ "embedding" \in Tasks
  /\ "dag" \in Runners /\ "cli" \in Runners
  /\ "structured" \in GoldTasks /\ "embedding" \in GoldTasks
BY DEF Collectors, Bronze, GoldTasks, Tasks, Runners

LEMMA BronzeTypes ==
  ASSUME TypeOK, BronzeStep
  PROVE  TypeOK'
<1>1. BronzeType'
  <2>1. ASSUME NEW f \in Collectors, NEW d \in Days, NEW listed \in SUBSET Published(f, d),
               NEW got \in SUBSET listed, WriteManifest(f, d, listed, got)
        PROVE  BronzeType'
    <3>1. listed \in SUBSET Reports /\ got \in SUBSET Reports
      BY DEF Published
    <3>2. pdf' = pdf \cup got
      BY <2>1 DEF WriteManifest
    <3>3. manifest' = manifest \/ manifest' = [manifest EXCEPT ![f][d] = listed \cap (pdf \cup got)]
      BY <2>1 DEF WriteManifest
    <3>4. [manifest[f] EXCEPT ![d] = listed \cap (pdf \cup got)] \in [Days -> SUBSET Reports]
      BY <3>1 DEF TypeOK, BronzeType
    <3>. QED
      BY <3>1, <3>2, <3>3, <3>4 DEF TypeOK, BronzeType
  <2>2. day \in Days /\ 1 .. day \subseteq Days
    BY ReportAssumption DEF TypeOK, TaskType, Days
  <2>3. ASSUME NEW f \in Collectors, CollectCut(f)
        PROVE  BronzeType'
    BY <2>3 DEF CollectCut, Published, TypeOK, BronzeType
  <2>4. CASE CollectNaver
    BY <2>4 DEF CollectNaver, bronzeVars, TypeOK, BronzeType
  <2>. QED
    BY <2>1, <2>2, <2>3, <2>4 DEF BronzeStep, Collect, CollectAgain
<1>2. TaskType'
  <2>1. ASSUME NEW f \in Collectors, Collect(f) \/ CollectCut(f)
        PROVE  TaskType'
    BY <2>1, TaskMoves, TaskNames DEF Collect, CollectCut, TypeOK
  <2>2. ASSUME NEW f \in Collectors, CollectAgain(f)
        PROVE  TaskType'
    BY <2>2 DEF CollectAgain, taskVars, TypeOK, TaskType
  <2>3. CASE CollectNaver
    <3>1. /\ status' = [status EXCEPT !["naver"] = "failed"]
          /\ tries' = [tries EXCEPT !["naver"] = 1]
          /\ day' = day
      BY <2>3 DEF CollectNaver
    <3>2. status' \in [Tasks -> {"none", "running", "success", "failed"}]
      BY <3>1 DEF TypeOK, TaskType
    <3>3. tries' \in [Tasks -> 0 .. 1]
      <4>1. 1 \in 0 .. 1 /\ tries \in [Tasks -> 0 .. 1]
        BY DEF TypeOK, TaskType
      <4>. QED
        BY <3>1, <4>1
    <3>. QED
      BY <3>1, <3>2, <3>3 DEF TypeOK, TaskType
  <2>. QED
    BY <2>1, <2>2, <2>3 DEF BronzeStep
<1>3. HistoryType'
  BY BronzeFrame, Counted DEF TypeOK, BronzeStep, Collect, CollectAgain, CollectCut, CollectNaver
<1>. QED
  BY <1>1, <1>2, <1>3, BronzeFrame
     DEF TypeOK, SilverType, StructuredType, EmbeddingType, MaintType, silverVars, structuredVars,
         embeddingVars, maintVars

LEMMA SilverTypes ==
  ASSUME TypeOK, SilverStep
  PROVE  TypeOK'
<1>1. SilverType'
  <2>1. \A d \in Days : Extraction(d) \in [on : BOOLEAN, todo : SUBSET Reports]
    BY DEF Extraction, Entries, TypeOK, BronzeType
  <2>2. day \in Days /\ 1 .. day \subseteq Days
    BY ReportAssumption DEF TypeOK, TaskType, Days
  <2>3. CASE StartSilver
    BY <2>1, <2>2, <2>3 DEF StartSilver, TypeOK, SilverType
  <2>4. CASE RerunSilver
    <3>1. PICK d \in 1 .. day : silverRun' = [silverRun EXCEPT !["cli"] = Extraction(d)]
      BY <2>4 DEF RerunSilver
    <3>2. silver' = silver
      BY <2>4 DEF RerunSilver
    <3>. QED
      BY <2>1, <2>2, <3>1, <3>2 DEF TypeOK, SilverType
  <2>5. ASSUME NEW p \in Runners, ExtractOne(p)
        PROVE  SilverType'
    <3>1. PICK r \in silverRun[p].todo :
            /\ silverRun' = [silverRun EXCEPT ![p].todo = @ \ {r}]
            /\ \/ UNCHANGED silver
               \/ r \in pdf /\ silver' = silver \cup {r}
      BY <2>5 DEF ExtractOne
    <3>2. silver' \subseteq Reports
      BY <3>1 DEF TypeOK, SilverType, BronzeType
    <3>. QED
      BY <3>1, <3>2 DEF TypeOK, SilverType
  <2>6. ASSUME NEW p \in Runners, EndSilver(p) \/ CrashSilver(p)
        PROVE  SilverType'
    <3>1. NoExtraction \in [on : BOOLEAN, todo : SUBSET Reports]
      BY DEF NoExtraction
    <3>2. silverRun' = [silverRun EXCEPT ![p] = NoExtraction] /\ silver' = silver
      BY <2>6 DEF EndSilver, CrashSilver
    <3>. QED
      BY <3>1, <3>2 DEF TypeOK, SilverType
  <2>. QED
    BY <2>3, <2>4, <2>5, <2>6 DEF SilverStep
<1>2. TaskType'
  <2>1. CASE StartSilver
    BY <2>1, TaskMoves, TaskNames DEF StartSilver, TypeOK
  <2>2. CASE RerunSilver
    BY <2>2 DEF RerunSilver, taskVars, TypeOK, TaskType
  <2>3. ASSUME NEW p \in Runners, ExtractOne(p)
        PROVE  TaskType'
    BY <2>3 DEF ExtractOne, taskVars, TypeOK, TaskType
  <2>4. ASSUME NEW p \in Runners, EndSilver(p) \/ CrashSilver(p)
        PROVE  TaskType'
    BY <2>4, EndedType, TaskNames DEF EndSilver, CrashSilver, TypeOK
  <2>. QED
    BY <2>1, <2>2, <2>3, <2>4 DEF SilverStep
<1>3. HistoryType'
  BY SilverFrame, Counted
     DEF TypeOK, SilverStep, StartSilver, RerunSilver, ExtractOne, EndSilver, CrashSilver
<1>. QED
  BY <1>1, <1>2, <1>3, SilverFrame
     DEF TypeOK, BronzeType, StructuredType, EmbeddingType, MaintType, bronzeVars, structuredVars,
         embeddingVars, maintVars

Table == [at : {"idle", "read", "write", "end"}, rows : SUBSET Reports, existing : SUBSET Reports]

LEMMA StructuredTypes ==
  ASSUME TypeOK, StructuredStep
  PROVE  TypeOK'
<1>. structured \subseteq Reports /\ structuredRun \in [Runners -> Table]
  BY DEF TypeOK, StructuredType, Table
<1>1. StructuredType'
  <2>1. ASSUME NEW p \in Runners, NEW d, BeginTable(p, d), structured' = structured
        PROVE  StructuredType'
    <3>1. [at |-> "read", rows |-> SilverOf(d), existing |-> {}] \in Table
      BY DEF SilverOf, TypeOK, SilverType, Table
    <3>2. structuredRun' = [structuredRun EXCEPT ![p] =
                              [at |-> "read", rows |-> SilverOf(d), existing |-> {}]]
      BY <2>1 DEF BeginTable
    <3>3. structuredRun' \in [Runners -> Table]
      BY <3>1, <3>2
    <3>. QED
      BY <2>1, <3>3 DEF StructuredType, Table
  <2>2. ASSUME NEW p \in Runners, ReadMonth(p)
        PROVE  StructuredType'
    <3>1. PICK a \in {"end", "write"} :
            structuredRun' = [structuredRun EXCEPT ![p].at = a, ![p].existing = structured]
      BY <2>2 DEF ReadMonth
    <3>2. structuredRun' \in [Runners -> Table]
      BY <3>1 DEF Table
    <3>. QED
      BY <2>2, <3>2 DEF ReadMonth, StructuredType, Table
  <2>3. ASSUME NEW p \in Runners, WriteMonth(p)
        PROVE  StructuredType'
    <3>1. structuredRun' = [structuredRun EXCEPT ![p].at = "end"]
      BY <2>3 DEF WriteMonth
    <3>2. structured' = structuredRun[p].existing \cup structuredRun[p].rows
      BY <2>3 DEF WriteMonth, MergeRows
    <3>3. structuredRun' \in [Runners -> Table]
      BY <3>1 DEF Table
    <3>4. structured' \subseteq Reports
      BY <3>2 DEF Table
    <3>. QED
      BY <3>3, <3>4 DEF StructuredType, Table
  <2>4. ASSUME NEW p \in Runners, EndStructured(p) \/ CrashStructured(p)
        PROVE  StructuredType'
    <3>1. NoTable \in Table
      BY DEF NoTable, Table
    <3>2. structuredRun' = [structuredRun EXCEPT ![p] = NoTable] /\ structured' = structured
      BY <2>4 DEF EndStructured, CrashStructured
    <3>. QED
      BY <3>1, <3>2 DEF StructuredType, Table
  <2>. QED
    BY <2>1, <2>2, <2>3, <2>4, TaskNames DEF StructuredStep, StartStructured, RerunStructured
<1>2. TaskType'
  <2>1. CASE StartStructured
    BY <2>1, TaskMoves, TaskNames DEF StartStructured, TypeOK
  <2>2. CASE RerunStructured
    BY <2>2 DEF RerunStructured, taskVars, TypeOK, TaskType
  <2>3. ASSUME NEW p \in Runners, ReadMonth(p) \/ WriteMonth(p)
        PROVE  TaskType'
    BY <2>3 DEF ReadMonth, WriteMonth, taskVars, TypeOK, TaskType
  <2>4. ASSUME NEW p \in Runners, EndStructured(p) \/ CrashStructured(p)
        PROVE  TaskType'
    BY <2>4, EndedType, TaskNames DEF EndStructured, CrashStructured, TypeOK
  <2>. QED
    BY <2>1, <2>2, <2>3, <2>4 DEF StructuredStep
<1>3. HistoryType'
  <2>1. ASSUME NEW p \in Runners, NEW d, BeginTable(p, d), UNCHANGED <<events, goldHistory, faults>>,
               Rerun \/ UNCHANGED reruns
        PROVE  HistoryType'
    <3>1. slips' = slips \/ slips' = slips \cup {"overlap"}
      BY <2>1 DEF BeginTable
    <3>2. reruns' \in 0 .. MaxReruns
      BY <2>1, ReportAssumption DEF Rerun, TypeOK, HistoryType
    <3>. QED
      BY <2>1, <3>1, <3>2 DEF TypeOK, HistoryType, goldHistory
  <2>2. CASE StartStructured \/ RerunStructured
    BY <2>1, <2>2, TaskNames DEF StartStructured, RerunStructured
  <2>3. ASSUME NEW p \in Runners, ReadMonth(p) \/ WriteMonth(p) \/ CrashStructured(p)
        PROVE  HistoryType'
    BY <2>3, Counted DEF ReadMonth, WriteMonth, CrashStructured, TypeOK
  <2>4. ASSUME NEW p \in Runners, EndStructured(p)
        PROVE  HistoryType'
    <3>1. structuredRun[p].rows \in SUBSET Reports
      BY DEF Table
    <3>2. CASE p = "dag"
      BY <2>4, <3>1, <3>2, Delivered, TaskNames DEF EndStructured, TypeOK
    <3>3. CASE p # "dag"
      BY <2>4, <3>3, Counted DEF EndStructured, TypeOK
    <3>. QED
      BY <3>2, <3>3
  <2>. QED
    BY <2>2, <2>3, <2>4 DEF StructuredStep
<1>. QED
  BY <1>1, <1>2, <1>3, StructuredFrame
     DEF TypeOK, BronzeType, SilverType, EmbeddingType, MaintType, bronzeVars, silverVars,
         embeddingVars, maintVars

Encoding == [at : {"idle", "inputs", "end"}, keys : SUBSET Reports, todo : SUBSET Reports,
             answer : {"none", "ok", "failed"}, rows : SUBSET Reports, llmFailed : BOOLEAN]

(* What the handling of one report leaves alone.                             *)
LEMMA HandleFrame ==
  ASSUME TypeOK, HandleStep
  PROVE  /\ UNCHANGED <<taskVars, embeddings, lost, events, goldHistory, reruns, faults, slips>>
         /\ embeddingRun.at = "inputs" /\ embeddingRun'.at = "inputs"
         /\ embeddingRun'.keys = embeddingRun.keys
<1>. embeddingRun \in Encoding
  BY DEF TypeOK, EmbeddingType, Encoding
<1>1. CASE EmbedOne
  BY <1>1 DEF EmbedOne, Handles, Encoding
<1>2. CASE AskLLM
  BY <1>2 DEF AskLLM, Handles, Encoding
<1>3. CASE StoreAnswer
  BY <1>3 DEF StoreAnswer, Encoding
<1>. QED
  BY <1>1, <1>2, <1>3 DEF HandleStep

LEMMA EmbeddingTypes ==
  ASSUME TypeOK, EmbeddingStep
  PROVE  TypeOK'
<1>. /\ input \in [Reports -> {"none", "failed", "ok"}]
     /\ embeddings \subseteq Reports
     /\ embeddingRun \in Encoding
     /\ bought \in [Reports -> Nat] /\ lost \in [Reports -> Nat]
  BY DEF TypeOK, EmbeddingType, Encoding
<1>a. NoEncoding \in Encoding
  BY DEF NoEncoding, Encoding
<1>1. EmbeddingType'
  <2>1. CASE StartEmbedding
    <3>1. SilverOf(day) \in SUBSET Reports
      BY DEF SilverOf, TypeOK, SilverType
    <3>2. embeddingRun' \in Encoding
      BY <2>1, <3>1, <1>a DEF StartEmbedding, Encoding
    <3>. QED
      BY <2>1, <3>2 DEF StartEmbedding, EmbeddingType, Encoding
  <2>2. CASE EmbedOne
    <3>1. PICK r \in Reports :
            embeddingRun' = [embeddingRun EXCEPT !.todo = @ \ {r}, !.rows = @ \cup ({r} \ Scans)]
      BY <2>2 DEF EmbedOne
    <3>2. embeddingRun' \in Encoding
      BY <3>1 DEF Encoding
    <3>. QED
      BY <2>2, <3>2 DEF EmbedOne, EmbeddingType, Encoding
  <2>a. CASE AskLLM
    <3>1. PICK r \in Reports, answer \in {"ok", "failed"} :
            /\ embeddingRun' = [embeddingRun EXCEPT !.answer = answer]
            /\ bought' = IF answer = "ok" THEN [bought EXCEPT ![r] = @ + 1] ELSE bought
      BY <2>a DEF AskLLM
    <3>2. embeddingRun' \in Encoding
      BY <3>1 DEF Encoding
    <3>3. bought' \in [Reports -> Nat]
      BY <3>1
    <3>. QED
      BY <2>a, <3>2, <3>3 DEF AskLLM, EmbeddingType, Encoding
  <2>b. CASE StoreAnswer
    <3>1. PICK r \in FirstOf(embeddingRun.todo) :
            /\ input' = [input EXCEPT ![r] = embeddingRun.answer]
            /\ embeddingRun' =
                 [embeddingRun EXCEPT
                    !.todo = @ \ {r}, !.answer = "none",
                    !.rows = IF embeddingRun.answer = "ok" THEN @ \cup {r} ELSE @,
                    !.llmFailed = @ \/ embeddingRun.answer = "failed"]
      BY <2>b DEF StoreAnswer
    <3>2. r \in Reports /\ embeddingRun.answer \in {"ok", "failed"}
      BY <2>b DEF StoreAnswer, FirstOf, Encoding
    <3>3. embeddingRun' \in Encoding
      BY <3>1, <3>2 DEF Encoding
    <3>4. input' \in [Reports -> {"none", "failed", "ok"}]
      BY <3>1, <3>2
    <3>. QED
      BY <2>b, <3>3, <3>4 DEF StoreAnswer, EmbeddingType, Encoding
  <2>3. CASE UploadMonth
    <3>1. embeddingRun' \in Encoding
      BY <2>3 DEF UploadMonth, Encoding
    <3>2. embeddings' \subseteq Reports
      BY <2>3 DEF UploadMonth, MergeRows, Encoding
    <3>. QED
      BY <2>3, <3>1, <3>2 DEF UploadMonth, EmbeddingType, Encoding
  <2>4. CASE EndEmbedding \/ CrashEmbedding
    BY <2>4, <1>a DEF EndEmbedding, CrashEmbedding, EmbeddingType, Encoding
  <2>. QED
    BY <2>1, <2>2, <2>a, <2>b, <2>3, <2>4 DEF EmbeddingStep, HandleStep
<1>2. TaskType'
  <2>1. CASE StartEmbedding
    BY <2>1, TaskMoves, TaskNames DEF StartEmbedding, TypeOK
  <2>2. CASE HandleStep \/ UploadMonth
    BY <2>2, HandleFrame DEF UploadMonth, taskVars, TypeOK, TaskType
  <2>3. CASE EndEmbedding \/ CrashEmbedding
    BY <2>3, TaskMoves, TaskNames DEF EndEmbedding, CrashEmbedding, TypeOK
  <2>. QED
    BY <2>1, <2>2, <2>3 DEF EmbeddingStep
<1>3. HistoryType'
  <2>1. CASE StartEmbedding \/ HandleStep \/ UploadMonth \/ CrashEmbedding
    BY <2>1, HandleFrame, Counted DEF StartEmbedding, UploadMonth, CrashEmbedding, TypeOK
  <2>2. CASE EndEmbedding
    <3>1. embeddingRun.keys \ Scans \in SUBSET Reports
      BY DEF Encoding
    <3>2. CASE EmbeddingRaises
      BY <2>2, <3>2, Counted DEF EndEmbedding, TypeOK
    <3>3. CASE ~EmbeddingRaises
      BY <2>2, <3>1, <3>3, Delivered, TaskNames DEF EndEmbedding, TypeOK
    <3>. QED
      BY <3>2, <3>3
  <2>. QED
    BY <2>1, <2>2 DEF EmbeddingStep
<1>. QED
  BY <1>1, <1>2, <1>3, EmbeddingFrame
     DEF TypeOK, BronzeType, SilverType, StructuredType, MaintType, bronzeVars, silverVars,
         structuredVars, maintVars

LEMMA ServerTypes ==
  ASSUME TypeOK, ServerStep
  PROVE  TypeOK'
<1>a. /\ structured \subseteq Reports /\ embeddings \subseteq Reports
      /\ maint \in {"idle", "restart"} \cup GoldTasks \cup Building
      /\ built \subseteq Reports
      /\ delta \in [GoldTasks -> SUBSET Reports]
      /\ files \in [{"index", "ids"} -> SUBSET Reports]
      /\ server \in [{"index", "ids"} -> SUBSET Reports]
      /\ cut \in BOOLEAN
  BY DEF TypeOK, StructuredType, EmbeddingType, MaintType
<1>b. /\ GoldTasks \subseteq {"idle", "restart"} \cup GoldTasks \cup Building
      /\ "structured" \in GoldTasks /\ "embedding" \in GoldTasks
      /\ "load" \in Building /\ "index" \in Building /\ "ids" \in Building
  BY DEF GoldTasks, Building
<1>c. ASSUME UNCHANGED <<goldHistory, reruns>>,
             events' \subseteq events,
             \/ UNCHANGED <<faults, slips>>
             \/ Fault /\ (slips' = slips \/ slips' = slips \cup {"unread"}
                                         \/ slips' = slips \cup {"gaveUp"})
      PROVE  HistoryType'
  <2>1. faults' \in 0 .. MaxFaults
    BY <1>c, ReportAssumption DEF Fault, TypeOK, HistoryType
  <2>2. slips' \subseteq {"overlap", "unpaired", "unread", "gaveUp"}
    BY <1>c DEF TypeOK, HistoryType
  <2>. QED
    BY <1>c, <2>1, <2>2 DEF goldHistory, TypeOK, HistoryType
<1>1. CASE Trigger
  <2>1. MaintType'
    BY <1>1, <1>a, <1>b DEF Trigger, MaintType
  <2>2. HistoryType'
    BY <1>1, <1>c DEF Trigger
  <2>. QED
    BY <1>1, <2>1, <2>2, ServerFrame
       DEF TypeOK, TaskType, BronzeType, SilverType, StructuredType, EmbeddingType, taskVars,
           bronzeVars, silverVars, structuredVars, embeddingVars
<1>2. MaintType' /\ HistoryType'
  <2>1. ASSUME NEW t \in GoldTasks, NEW rows \in SUBSET Reports, NEW next \in GoldTasks \cup Building,
               MergeTable(t, rows, next)
        PROVE  MaintType' /\ HistoryType'
    <3>1. delta' \in [GoldTasks -> SUBSET Reports]
      BY <2>1, <1>a DEF MergeTable
    <3>2. MaintType'
      BY <2>1, <3>1, <1>a, <1>b DEF MergeTable, MaintType
    <3>3. HistoryType'
      BY <2>1, <1>c DEF MergeTable, Unread
    <3>. QED
      BY <3>2, <3>3
  <2>2. CASE DeltaMerge
    BY <2>1, <2>2, <1>a, <1>b DEF DeltaMerge
  <2>3. CASE LoadVectors
    <3>1. MaintType'
      BY <2>3, <1>a, <1>b DEF LoadVectors, MaintType
    <3>2. HistoryType'
      BY <2>3, <1>c DEF LoadVectors, Unread
    <3>. QED
      BY <3>1, <3>2
  <2>4. ASSUME NEW f \in {"index", "ids"}, SaveFile(f)
        PROVE  MaintType' /\ HistoryType'
    <3>1. files' \in [{"index", "ids"} -> SUBSET Reports]
      BY <2>4, <1>a DEF SaveFile
    <3>2. MaintType'
      BY <2>4, <3>1, <1>a, <1>b DEF SaveFile, MaintType
    <3>3. HistoryType'
      BY <2>4, <1>c DEF SaveFile
    <3>. QED
      BY <3>2, <3>3
  <2>5. CASE Restart \/ ServerRestart
    <3>1. MaintType'
      BY <2>5, <1>a, <1>b DEF Restart, ServerRestart, LoadedFiles, MaintType
    <3>2. HistoryType'
      BY <2>5, <1>c DEF Restart, ServerRestart
    <3>. QED
      BY <3>1, <3>2
  <2>6. CASE MaintFails
    <3>1. Retried \in {"idle", "restart"} \cup GoldTasks \cup Building
      BY <1>a, <1>b DEF Retried
    <3>2. MaintType'
      BY <2>6, <3>1, <1>a, <1>b DEF MaintFails, MaintType
    <3>3. HistoryType'
      BY <2>6, <1>c DEF MaintFails
    <3>. QED
      BY <3>2, <3>3
  <2>7. CASE Trigger
    BY <1>1, <2>7 DEF TypeOK
  <2>. QED
    BY <2>2, <2>3, <2>4, <2>5, <2>6, <2>7 DEF ServerStep, MaintStep
<1>. QED
  BY <1>2, ServerFrame
     DEF TypeOK, TaskType, BronzeType, SilverType, StructuredType, EmbeddingType, taskVars,
         bronzeVars, silverVars, structuredVars, embeddingVars

LEMMA NightTypes ==
  ASSUME TypeOK, NightStep
  PROVE  TypeOK'
<1>1. TaskType'
  <2>1. CASE NextDay
    BY <2>1, ReportAssumption DEF NextDay, TypeOK, TaskType, Days
  <2>2. CASE MarkNaver
    BY <2>2 DEF MarkNaver, TypeOK, TaskType
  <2>3. ASSUME NEW t \in Tasks \ Bronze, Block(t)
        PROVE  TaskType'
    BY <2>3, TaskMoves DEF Block, TypeOK
  <2>. QED
    BY <2>1, <2>2, <2>3 DEF NightStep
<1>2. HistoryType'
  <2>1. slips' = slips \/ slips' = slips \cup {"unpaired"}
    BY DEF NightStep, NextDay, MarkNaver, Block
  <2>. QED
    BY <2>1, NightFrame DEF TypeOK, HistoryType, goldHistory
<1>. QED
  BY <1>1, <1>2, NightFrame
     DEF TypeOK, BronzeType, SilverType, StructuredType, EmbeddingType, MaintType, bronzeVars,
         silverVars, structuredVars, embeddingVars, maintVars

LEMMA InitTypes ==
  ASSUME Init
  PROVE  TypeOK
<1>1. TaskType /\ BronzeType
  BY ReportAssumption DEF Init, TaskType, BronzeType, Days
<1>2. SilverType /\ StructuredType /\ EmbeddingType
  BY DEF Init, SilverType, StructuredType, EmbeddingType, NoExtraction, NoTable, NoEncoding
<1>3. MaintType
  BY DEF Init, MaintType
<1>4. HistoryType
  BY ReportAssumption DEF Init, HistoryType
<1>. QED
  BY <1>1, <1>2, <1>3, <1>4 DEF TypeOK

LEMMA TypeStep ==
  ASSUME TypeOK, [Next]_vars
  PROVE  TypeOK'
<1>1. CASE UNCHANGED vars
  BY <1>1 DEF vars, bronzeVars, silverVars, structuredVars, embeddingVars, taskVars, maintVars,
              goldHistory, TypeOK, TaskType, BronzeType, SilverType, StructuredType, EmbeddingType,
              MaintType, HistoryType
<1>2. CASE Next
  BY <1>2, StepGroups, BronzeTypes, SilverTypes, StructuredTypes, EmbeddingTypes, ServerTypes,
     NightTypes
<1>. QED
  BY <1>1, <1>2

(* Every variable keeps its type.                                            *)
THEOREM TypeCorrect == Spec => []TypeOK
BY InitTypes, TypeStep, PTL DEF Spec

(* The structured file ------------------------------------------------------ *)

Apart == "overlap" \notin slips

OneAtATime ==
    Apart => structuredRun["dag"].at = "idle" \/ structuredRun["cli"].at = "idle"

(* A run that is about to write has read the month as it is, and one that has *)
(* written left its rows in it.                                              *)
ReadIsCurrent ==
    Apart => \A p \in Runners :
        /\ structuredRun[p].at = "write" => structuredRun[p].existing = structured
        /\ structuredRun[p].at = "end" => structuredRun[p].rows \subseteq structured

TableInv == OneAtATime /\ ReadIsCurrent

LEMMA TableKept ==
  ASSUME TableInv, UNCHANGED structuredVars, slips \subseteq slips'
  PROVE  TableInv'
BY DEF TableInv, OneAtATime, ReadIsCurrent, Apart, structuredVars

LEMMA OtherIdle ==
  ASSUME OneAtATime, Apart, NEW p \in Runners, structuredRun[p].at # "idle", NEW q \in Runners, q # p
  PROVE  structuredRun[q].at = "idle"
BY DEF OneAtATime, Runners

LEMMA BeginInv ==
  ASSUME TypeOK, TableInv, NEW p \in Runners, NEW d, BeginTable(p, d), structured' = structured
  PROVE  TableInv'
<1>1. /\ structuredRun' \in [Runners -> Table]
      /\ structuredRun'[p] = [at |-> "read", rows |-> SilverOf(d), existing |-> {}]
      /\ \A q \in Runners \ {p} : structuredRun'[q] = structuredRun[q]
  BY DEF BeginTable, TypeOK, StructuredType, SilverType, SilverOf, Table
<1>2. Apart' => Apart /\ structuredRun[Other(p)].at = "idle"
  BY DEF BeginTable, Apart
<1>3. Other(p) \in Runners \ {p} /\ Runners = {p, Other(p)}
  BY DEF Other, Runners
<1>4. OneAtATime'
  BY <1>1, <1>2, <1>3, TaskNames DEF OneAtATime, Runners
<1>5. ReadIsCurrent'
  BY <1>1, <1>2, <1>3 DEF TableInv, ReadIsCurrent
<1>. QED
  BY <1>4, <1>5 DEF TableInv

LEMMA RunInv ==
  ASSUME TypeOK, TableInv, NEW p \in Runners, slips' = slips,
         ReadMonth(p) \/ WriteMonth(p) \/ EndStructured(p) \/ CrashStructured(p)
  PROVE  TableInv'
<1>. structuredRun \in [Runners -> Table]
  BY DEF TypeOK, StructuredType, Table
<1>1. structuredRun[p].at # "idle"
  BY DEF ReadMonth, WriteMonth, EndStructured, CrashStructured
<1>2. \A q \in Runners \ {p} : structuredRun'[q] = structuredRun[q]
  BY DEF ReadMonth, WriteMonth, EndStructured, CrashStructured
<1>3. OneAtATime'
  BY <1>1, <1>2, TaskNames DEF TableInv, OneAtATime, Apart, Runners
<1>4. ReadIsCurrent'
  <2>. SUFFICES ASSUME Apart
       PROVE  \A q \in Runners :
                /\ structuredRun'[q].at = "write" => structuredRun'[q].existing = structured'
                /\ structuredRun'[q].at = "end" => structuredRun'[q].rows \subseteq structured'
    BY DEF ReadIsCurrent, Apart
  <2>1. \A q \in Runners \ {p} : structuredRun'[q].at = "idle"
    BY <1>1, <1>2, OtherIdle DEF TableInv
  <2>2. /\ structuredRun'[p].at = "write" => structuredRun'[p].existing = structured'
        /\ structuredRun'[p].at = "end" => structuredRun'[p].rows \subseteq structured'
    <3>1. CASE ReadMonth(p)
      BY <3>1 DEF ReadMonth, Table
    <3>2. CASE WriteMonth(p)
      BY <3>2 DEF WriteMonth, MergeRows, Table
    <3>3. CASE EndStructured(p) \/ CrashStructured(p)
      BY <3>3 DEF EndStructured, CrashStructured, NoTable
    <3>. QED
      BY <3>1, <3>2, <3>3
  <2>. QED
    BY <2>1, <2>2
<1>. QED
  BY <1>3, <1>4 DEF TableInv

LEMMA TableStep ==
  ASSUME TypeOK, TableInv, Next
  PROVE  TableInv'
<1>1. CASE StructuredStep
  <2>1. CASE StartStructured \/ RerunStructured
    BY <2>1, BeginInv, TaskNames DEF StartStructured, RerunStructured
  <2>2. ASSUME NEW p \in Runners,
               ReadMonth(p) \/ WriteMonth(p) \/ EndStructured(p) \/ CrashStructured(p)
        PROVE  TableInv'
    <3>1. slips' = slips
      BY <2>2 DEF ReadMonth, WriteMonth, EndStructured, CrashStructured
    <3>. QED
      BY <2>2, <3>1, RunInv
  <2>. QED
    BY <1>1, <2>1, <2>2 DEF StructuredStep
<1>2. CASE ~StructuredStep
  BY <1>2, StepGroups, SlipsStay, BronzeFrame, SilverFrame, EmbeddingFrame, ServerFrame, NightFrame,
     TableKept
<1>. QED
  BY <1>1, <1>2

(* The month's two files only grow.                                          *)
LEMMA RowsGrow ==
  ASSUME TypeOK, TableInv, Next
  PROVE  /\ embeddings \subseteq embeddings'
         /\ Apart => structured \subseteq structured'
<1>1. embeddings \subseteq embeddings'
  <2>1. CASE EmbeddingStep
    BY <2>1, HandleFrame
       DEF EmbeddingStep, StartEmbedding, UploadMonth, MergeRows, EndEmbedding, CrashEmbedding
  <2>2. CASE ~EmbeddingStep
    BY <2>2, StepGroups, BronzeFrame, SilverFrame, StructuredFrame, ServerFrame, NightFrame
       DEF embeddingVars
  <2>. QED
    BY <2>1, <2>2
<1>2. ASSUME Apart PROVE structured \subseteq structured'
  <2>1. CASE StructuredStep
    <3>1. ASSUME NEW p \in Runners, WriteMonth(p)
          PROVE  structured \subseteq structured'
      BY <1>2, <3>1 DEF WriteMonth, MergeRows, TableInv, ReadIsCurrent
    <3>. QED
      BY <2>1, <3>1 DEF StructuredStep, StartStructured, RerunStructured, ReadMonth, EndStructured,
                        CrashStructured
  <2>2. CASE ~StructuredStep
    BY <2>2, StepGroups, BronzeFrame, SilverFrame, EmbeddingFrame, ServerFrame, NightFrame
       DEF structuredVars
  <2>. QED
    BY <2>1, <2>2
<1>. QED
  BY <1>1, <1>2

(* The embedding task ------------------------------------------------------- *)

(* Every report with text that the run listed is still to do or has its row,  *)
(* and after the upload it is in the month, unless an LLM call failed.        *)
ListedIsKept ==
    ~embeddingRun.llmFailed =>
        /\ embeddingRun.at = "inputs" =>
             embeddingRun.keys \ Scans \subseteq embeddingRun.rows \cup embeddingRun.todo
        /\ embeddingRun.at = "end" => embeddingRun.keys \ Scans \subseteq embeddings

LEMMA ListedStep ==
  ASSUME TypeOK, ListedIsKept, Next
  PROVE  ListedIsKept'
<1>. embeddingRun \in Encoding
  BY DEF TypeOK, EmbeddingType, Encoding
<1>1. CASE StartEmbedding
  <2>1. embeddingRun' = [NoEncoding EXCEPT !.at = "inputs", !.keys = SilverOf(day),
                                           !.todo = SilverOf(day)]
    BY <1>1 DEF StartEmbedding
  <2>. QED
    BY <2>1 DEF ListedIsKept, NoEncoding
<1>2. CASE HandleStep
  <2>. SUFFICES ASSUME ~embeddingRun'.llmFailed
       PROVE  embeddingRun.keys \ Scans \subseteq embeddingRun'.rows \cup embeddingRun'.todo
    BY <1>2, HandleFrame DEF ListedIsKept
  <2>1. ASSUME ~embeddingRun.llmFailed
        PROVE  embeddingRun.keys \ Scans \subseteq embeddingRun.rows \cup embeddingRun.todo
    BY <1>2, <2>1, HandleFrame DEF ListedIsKept
  <2>2. CASE EmbedOne
    BY <2>1, <2>2 DEF EmbedOne, Encoding
  <2>3. CASE AskLLM
    BY <2>1, <2>3 DEF AskLLM, Encoding
  <2>4. CASE StoreAnswer
    <3>1. PICK r \in FirstOf(embeddingRun.todo) :
            embeddingRun' =
              [embeddingRun EXCEPT
                 !.todo = @ \ {r}, !.answer = "none",
                 !.rows = IF embeddingRun.answer = "ok" THEN @ \cup {r} ELSE @,
                 !.llmFailed = @ \/ embeddingRun.answer = "failed"]
      BY <2>4 DEF StoreAnswer
    <3>2. ~embeddingRun.llmFailed /\ embeddingRun.answer = "ok"
      BY <2>4, <3>1 DEF StoreAnswer, Encoding
    <3>3. embeddingRun'.rows = embeddingRun.rows \cup {r} /\ embeddingRun'.todo = embeddingRun.todo \ {r}
      BY <3>1, <3>2 DEF Encoding
    <3>. QED
      BY <2>1, <3>2, <3>3
  <2>. QED
    BY <1>2, <2>2, <2>3, <2>4 DEF HandleStep
<1>3. CASE UploadMonth
  <2>1. /\ embeddingRun.at = "inputs" /\ embeddingRun.todo = {}
        /\ embeddings' = embeddings \cup embeddingRun.rows
        /\ embeddingRun' = [embeddingRun EXCEPT !.at = "end"]
    BY <1>3 DEF UploadMonth, MergeRows
  <2>. QED
    BY <2>1 DEF ListedIsKept, Encoding
<1>4. CASE EndEmbedding \/ CrashEmbedding
  BY <1>4 DEF EndEmbedding, CrashEmbedding, NoEncoding, ListedIsKept
<1>5. CASE ~EmbeddingStep
  <2>1. UNCHANGED embeddingVars
    BY <1>5, StepGroups, BronzeFrame, SilverFrame, StructuredFrame, ServerFrame, NightFrame
  <2>. QED
    BY <2>1 DEF embeddingVars, ListedIsKept
<1>. QED
  BY <1>1, <1>2, <1>3, <1>4, <1>5 DEF EmbeddingStep

(* What the Gold tasks delivered -------------------------------------------- *)

LEMMA WholeStep ==
  ASSUME TypeOK, TableInv, ListedIsKept, GoldIsWhole, Next
  PROVE  GoldIsWhole'
<1>. kept \in [GoldTasks -> SUBSET Reports]
  BY DEF TypeOK, HistoryType
<1>1. /\ embeddings \subseteq embeddings'
      /\ Apart' => Apart /\ structured \subseteq structured'
  BY RowsGrow, SlipsStay DEF Apart
<1>2. ASSUME UNCHANGED kept PROVE GoldIsWhole'
  BY <1>1, <1>2 DEF GoldIsWhole, Apart
<1>3. ASSUME NEW p \in Runners, EndStructured(p)
      PROVE  GoldIsWhole'
  <2>1. CASE p = "dag"
    <3>1. /\ kept' = [kept EXCEPT !["structured"] = @ \cup structuredRun[p].rows]
          /\ structuredRun[p].at = "end"
          /\ UNCHANGED <<structured, slips>>
      BY <1>3, <2>1 DEF EndStructured, Deliver
    <3>2. Apart => structuredRun[p].rows \subseteq structured
      BY <3>1 DEF TableInv, ReadIsCurrent
    <3>3. /\ kept'["embedding"] = kept["embedding"]
          /\ kept'["structured"] = kept["structured"] \cup structuredRun[p].rows
      BY <3>1, TaskNames
    <3>. QED
      BY <1>1, <3>1, <3>2, <3>3 DEF GoldIsWhole, Apart
  <2>2. CASE p # "dag"
    BY <1>2, <1>3, <2>2 DEF EndStructured, goldHistory
  <2>. QED
    BY <2>1, <2>2
<1>4. CASE EndEmbedding
  <2>1. CASE EmbeddingRaises
    BY <1>2, <1>4, <2>1 DEF EndEmbedding, goldHistory
  <2>2. CASE ~EmbeddingRaises
    <3>1. /\ kept' = [kept EXCEPT !["embedding"] = @ \cup (embeddingRun.keys \ Scans)]
          /\ embeddingRun.at = "end" /\ ~embeddingRun.llmFailed
          /\ UNCHANGED <<embeddings, structured, slips>>
      BY <1>4, <2>2 DEF EndEmbedding, EmbeddingRaises, Deliver, structuredVars
    <3>2. embeddingRun.keys \ Scans \subseteq embeddings
      BY <3>1 DEF ListedIsKept
    <3>3. /\ kept'["structured"] = kept["structured"]
          /\ kept'["embedding"] = kept["embedding"] \cup (embeddingRun.keys \ Scans)
      BY <3>1, TaskNames
    <3>. QED
      BY <3>1, <3>2, <3>3 DEF GoldIsWhole
  <2>. QED
    BY <2>1, <2>2
<1>5. CASE StructuredStep
  <2>1. ASSUME NEW p \in Runners, ReadMonth(p) \/ WriteMonth(p) \/ CrashStructured(p)
        PROVE  UNCHANGED kept
    BY <2>1 DEF ReadMonth, WriteMonth, CrashStructured, goldHistory
  <2>2. CASE StartStructured \/ RerunStructured
    BY <1>2, <2>2 DEF StartStructured, RerunStructured, goldHistory
  <2>. QED
    BY <1>2, <1>3, <1>5, <2>1, <2>2 DEF StructuredStep
<1>6. CASE EmbeddingStep
  BY <1>2, <1>4, <1>6, HandleFrame
     DEF EmbeddingStep, StartEmbedding, UploadMonth, CrashEmbedding, goldHistory
<1>7. CASE ~StructuredStep /\ ~EmbeddingStep
  BY <1>2, <1>7, StepGroups, BronzeFrame, SilverFrame, ServerFrame, NightFrame DEF goldHistory
<1>. QED
  BY <1>5, <1>6, <1>7

(* The files of the server -------------------------------------------------- *)

(* The two files differ only inside a build or after one was cut short; from  *)
(* the second write on they are those of one build.                          *)
FilesMatch ==
    /\ files["index"] # files["ids"] => maint \in Building \/ cut
    /\ maint = "ids" => files["index"] = built
    /\ maint = "restart" => files["index"] = files["ids"]

FilesInv == FilesMatch /\ ServedTogether

LEMMA FilesStep ==
  ASSUME TypeOK, FilesInv, Next
  PROVE  FilesInv'
<1>. files \in [{"index", "ids"} -> SUBSET Reports]
  BY DEF TypeOK, MaintType
<1>1. CASE Trigger
  BY <1>1 DEF Trigger, Building, FilesInv, FilesMatch, ServedTogether
<1>2. CASE DeltaMerge
  BY <1>2 DEF DeltaMerge, MergeTable, Building, FilesInv, FilesMatch, ServedTogether
<1>3. CASE LoadVectors
  BY <1>3 DEF LoadVectors, Building, FilesInv, FilesMatch, ServedTogether
<1>4. ASSUME NEW f \in {"index", "ids"}, SaveFile(f)
      PROVE  FilesInv'
  <2>1. CASE f = "index"
    BY <1>4, <2>1 DEF SaveFile, Building, FilesInv, FilesMatch, ServedTogether
  <2>2. CASE f = "ids"
    BY <1>4, <2>2 DEF SaveFile, Building, FilesInv, FilesMatch, ServedTogether
  <2>. QED
    BY <2>1, <2>2
<1>5. CASE Restart
  BY <1>5 DEF Restart, LoadedFiles, Building, FilesInv, FilesMatch, ServedTogether
<1>6. CASE MaintFails
  <2>1. UNCHANGED <<files, server>> /\ maint # "idle"
    BY <1>6 DEF MaintFails
  <2>2. CASE maint' = Retried /\ cut' = cut
    <3>1. CASE maint \in Building
      BY <2>1, <2>2, <3>1 DEF Retried, Building, FilesInv, FilesMatch, ServedTogether
    <3>2. CASE maint \notin Building
      BY <2>1, <2>2, <3>2 DEF Retried, Building, GoldTasks, FilesInv, FilesMatch, ServedTogether
    <3>. QED
      BY <3>1, <3>2
  <2>3. CASE maint' = "idle" /\ cut' = (cut \/ maint \notin GoldTasks)
    BY <2>1, <2>3 DEF Building, GoldTasks, FilesInv, FilesMatch, ServedTogether
  <2>. QED
    BY <1>6, <2>2, <2>3 DEF MaintFails
<1>7. CASE ServerRestart
  BY <1>7 DEF ServerRestart, LoadedFiles, Building, FilesInv, FilesMatch, ServedTogether
<1>8. CASE ~ServerStep
  <2>1. UNCHANGED maintVars
    BY <1>8, StepGroups, BronzeFrame, SilverFrame, StructuredFrame, EmbeddingFrame, NightFrame
  <2>. QED
    BY <2>1 DEF maintVars, FilesInv, FilesMatch, ServedTogether
<1>. QED
  BY <1>1, <1>2, <1>3, <1>4, <1>5, <1>6, <1>7, <1>8 DEF ServerStep, MaintStep

(* Theorems ----------------------------------------------------------------- *)

PipelineInv == TypeOK /\ TableInv /\ ListedIsKept /\ GoldIsWhole /\ FilesInv

LEMMA PipelineInit ==
  ASSUME Init
  PROVE  PipelineInv
<1>1. TableInv
  BY DEF Init, NoTable, TableInv, OneAtATime, ReadIsCurrent, Runners
<1>2. ListedIsKept
  BY DEF Init, NoEncoding, ListedIsKept
<1>3. GoldIsWhole
  BY TaskNames DEF Init, GoldIsWhole
<1>4. FilesInv
  BY DEF Init, FilesInv, FilesMatch, ServedTogether
<1>. QED
  BY <1>1, <1>2, <1>3, <1>4, InitTypes DEF PipelineInv

LEMMA PipelineNext ==
  ASSUME PipelineInv, [Next]_vars
  PROVE  PipelineInv'
<1>1. CASE UNCHANGED vars
  <2>1. TypeOK'
    BY TypeStep DEF PipelineInv
  <2>2. UNCHANGED <<structuredVars, embeddingVars, maintVars, kept, slips>>
    BY <1>1 DEF vars, goldHistory
  <2>. QED
    BY <2>1, <2>2, TableKept
       DEF PipelineInv, structuredVars, embeddingVars, maintVars, ListedIsKept,
           GoldIsWhole, FilesInv, FilesMatch, ServedTogether
<1>2. CASE Next
  BY <1>2, TypeStep, TableStep, ListedStep, WholeStep, FilesStep DEF PipelineInv
<1>. QED
  BY <1>1, <1>2

LEMMA Pipeline == Spec => []PipelineInv
BY PipelineInit, PipelineNext, PTL DEF Spec

(* What a Gold task that succeeded had listed is in the month's file.        *)
THEOREM GoldWhole == Spec => []GoldIsWhole
<1>1. PipelineInv => GoldIsWhole
  BY DEF PipelineInv
<1>. QED
  BY <1>1, Pipeline, PTL

(* The server's index and id list are of one build, but for the named ways.   *)
THEOREM ServedOfOneBuild == Spec => []ServedTogether
<1>1. PipelineInv => ServedTogether
  BY DEF PipelineInv, FilesInv
<1>. QED
  BY <1>1, Pipeline, PTL

(* No step takes a row out of a monthly file, unless two runs overlapped.     *)
THEOREM RowsAreKept == Spec => RowsStay
<1>1. ASSUME PipelineInv, [Next]_vars
      PROVE  [/\ embeddings \subseteq embeddings'
              /\ "overlap" \in slips \/ structured \subseteq structured']_vars
  BY <1>1, RowsGrow DEF PipelineInv, Apart
<1>. QED
  BY <1>1, Pipeline, PTL DEF Spec, RowsStay

(***************************************************************************)
(* The Delta tables catch up: with no maintenance run going on or due, they  *)
(* hold what both Gold tasks delivered.  The argument follows a night: the   *)
(* sensors order its tasks (Chain), the runs of a task carry rows of the     *)
(* night's date (RowsOfDay), the Datasets tell which Gold tasks succeeded    *)
(* (Paired), and what is owed to a table is either in it or ahead of the     *)
(* merge (OwedOrDue).                                                        *)
(***************************************************************************)
Started == {"running", "success"}

Chain ==
    /\ status["silver"] \in Started => \A b \in Bronze : status[b] = "success"
    /\ \A t \in GoldTasks : status[t] \in Started => status["silver"] = "success"
    /\ silverRun["dag"].on => status["silver"] = "running"
    /\ structuredRun["dag"].at # "idle" => status["structured"] = "running"
    /\ embeddingRun.at # "idle" => status["embedding"] = "running"

(* At most one task of the night changes its state.                          *)
Moves(t) == day' = day /\ \A u \in Tasks \ {t} : status'[u] = status[u]

LEMMA Outcomes ==
  ASSUME TypeOK, NEW t \in Tasks
  PROVE  /\ Succeed(t) => Moves(t) /\ status'[t] = "success"
         /\ FailTask(t) => Moves(t) /\ status'[t] \in {"none", "failed"}
         /\ \A s : status' = [status EXCEPT ![t] = s] /\ day' = day
                   => Moves(t) /\ status'[t] = s
BY DEF Succeed, FailTask, Moves, TypeOK, TaskType

LEMMA EndedOutcomes ==
  ASSUME TypeOK, NEW t \in Tasks, NEW p \in Runners, NEW o, EndedBy(p, t, o)
  PROVE  /\ p = "cli" => UNCHANGED taskVars
         /\ p = "dag" => Moves(t) /\ status'[t] \in {"none", "failed", "success"}
         /\ p = "dag" /\ o = "success" => status'[t] = "success"
         /\ p = "dag" /\ o # "success" => status'[t] # "success"
BY Outcomes DEF EndedBy

LEMMA ChainSame ==
  ASSUME Chain, UNCHANGED <<taskVars, silverVars, structuredVars, embeddingVars>>
  PROVE  Chain'
BY DEF Chain, taskVars, silverVars, structuredVars, embeddingVars

LEMMA ChainBronze ==
  ASSUME TypeOK, Chain, BronzeStep
  PROVE  Chain'
<1>1. ASSUME NEW b \in Bronze, status[b] = "none", Moves(b)
      PROVE  Chain'
  <2>1. UNCHANGED <<silverVars, structuredVars, embeddingVars>>
    BY BronzeFrame
  <2>2. \A u \in {"silver"} \cup GoldTasks : status'[u] = status[u] /\ status[u] \notin Started
    BY <1>1 DEF Moves, Chain, Started, Tasks, Bronze, Collectors, GoldTasks
  <2>3. \A u \in {"silver"} \cup GoldTasks : status'[u] \notin Started
    BY <2>2
  <2>4. ~silverRun["dag"].on /\ structuredRun["dag"].at = "idle" /\ embeddingRun.at = "idle"
    BY <2>2, TaskNames DEF Chain, Started
  <2>. QED
    BY <2>1, <2>3, <2>4 DEF Chain, silverVars, structuredVars, embeddingVars
<1>2. ASSUME NEW f \in Collectors, Collect(f) \/ CollectCut(f)
      PROVE  Chain'
  BY <1>1, <1>2, Outcomes, TaskNames DEF Collect, CollectCut, Bronze
<1>3. CASE CollectNaver
  <2>1. status["naver"] = "none" /\ Moves("naver")
    BY <1>3, Outcomes, TaskNames DEF CollectNaver
  <2>. QED
    BY <1>1, <2>1 DEF Bronze
<1>4. ASSUME NEW f \in Collectors, CollectAgain(f)
      PROVE  Chain'
  BY <1>4, BronzeFrame, ChainSame DEF CollectAgain
<1>. QED
  BY <1>2, <1>3, <1>4 DEF BronzeStep

LEMMA ChainSilver ==
  ASSUME TypeOK, Chain, SilverStep
  PROVE  Chain'
<1>. UNCHANGED <<structuredVars, embeddingVars>>
  BY SilverFrame
<1>. silverRun \in [Runners -> [on : BOOLEAN, todo : SUBSET Reports]]
  BY DEF TypeOK, SilverType
<1>t. GoldTasks \subseteq Tasks \ {"silver"} /\ Bronze \subseteq Tasks \ {"silver"} /\ "silver" \in Tasks
  BY DEF GoldTasks, Bronze, Collectors, Tasks
<1>1. ASSUME UNCHANGED taskVars, silverRun'["dag"].on => silverRun["dag"].on
      PROVE  Chain'
  BY <1>1 DEF Chain, taskVars, structuredVars, embeddingVars
<1>2. CASE StartSilver
  <2>1. Moves("silver") /\ status'["silver"] = "running" /\ status["silver"] = "none"
    BY <1>2, Outcomes, TaskNames DEF StartSilver, Ready
  <2>2. \A b \in Bronze : status[b] = "success"
    BY <1>2 DEF StartSilver, Ready, Upstream
  <2>3. \A t \in GoldTasks : status[t] \notin Started
    BY <2>1 DEF Chain
  <2>4. structuredRun["dag"].at = "idle" /\ embeddingRun.at = "idle"
    BY <2>3, TaskNames DEF Chain, Started
  <2>5. \A u \in GoldTasks \cup Bronze : status'[u] = status[u]
    BY <2>1, <1>t DEF Moves
  <2>. QED
    BY <2>1, <2>2, <2>3, <2>4, <2>5 DEF Chain, structuredVars, embeddingVars
<1>3. ASSUME NEW p \in Runners, EndSilver(p) \/ CrashSilver(p)
      PROVE  Chain'
  <2>1. silverRun' = [silverRun EXCEPT ![p] = NoExtraction] /\ silverRun[p].on
    BY <1>3 DEF EndSilver, CrashSilver
  <2>2. CASE p = "cli"
    <3>1. UNCHANGED taskVars
      BY <1>3, <2>2, EndedOutcomes, TaskNames DEF EndSilver, CrashSilver
    <3>. QED
      BY <1>1, <2>1, <2>2, <3>1
  <2>3. CASE p = "dag"
    <3>1. Moves("silver") /\ status'["silver"] \in {"none", "failed", "success"}
      BY <1>3, <2>3, EndedOutcomes, TaskNames DEF EndSilver, CrashSilver
    <3>2. status["silver"] = "running" /\ ~silverRun'["dag"].on
      BY <2>1, <2>3, TaskNames DEF Chain, NoExtraction
    <3>3. /\ \A t \in GoldTasks : status[t] \notin Started
          /\ \A b \in Bronze : status[b] = "success"
      BY <3>2 DEF Chain, Started
    <3>4. structuredRun["dag"].at = "idle" /\ embeddingRun.at = "idle"
      BY <3>3, TaskNames DEF Chain, Started
    <3>5. \A u \in GoldTasks \cup Bronze : status'[u] = status[u]
      BY <3>1, <1>t DEF Moves
    <3>. QED
      BY <3>2, <3>3, <3>4, <3>5 DEF Chain, structuredVars, embeddingVars
  <2>. QED
    BY <2>2, <2>3 DEF Runners
<1>4. CASE RerunSilver
  <2>1. UNCHANGED taskVars /\ silverRun'["dag"] = silverRun["dag"]
    BY <1>4 DEF RerunSilver
  <2>. QED
    BY <1>1, <2>1
<1>5. ASSUME NEW p \in Runners, ExtractOne(p)
      PROVE  Chain'
  <2>1. UNCHANGED taskVars /\ silverRun'["dag"].on = silverRun["dag"].on
    BY <1>5, TaskNames DEF ExtractOne
  <2>. QED
    BY <1>1, <2>1
<1>. QED
  BY <1>2, <1>3, <1>4, <1>5 DEF SilverStep

(* A Gold task moves: none to running once Silver succeeded, running to an    *)
(* end.                                                                      *)
LEMMA ChainGold ==
  ASSUME TypeOK, Chain, NEW t \in GoldTasks, Moves(t), UNCHANGED silverVars,
         status["silver"] = "success",
         \A u \in GoldTasks \ {t} : status[u] # "running" =>
             /\ u = "structured" => structuredRun'["dag"].at = "idle"
             /\ u = "embedding" => embeddingRun'.at = "idle",
         status'[t] # "running" =>
             /\ t = "structured" => structuredRun'["dag"].at = "idle"
             /\ t = "embedding" => embeddingRun'.at = "idle"
  PROVE  Chain'
<1>1. \A u \in Tasks \ {t} : status'[u] = status[u]
  BY DEF Moves
<1>2. {"silver"} \cup Bronze \subseteq Tasks \ {t}
  BY DEF GoldTasks, Bronze, Collectors, Tasks
<1>3. /\ status'["silver"] = "success"
      /\ \A b \in Bronze : status'[b] = status[b]
  BY <1>1, <1>2
<1>4. /\ structuredRun'["dag"].at # "idle" => status'["structured"] = "running"
      /\ embeddingRun'.at # "idle" => status'["embedding"] = "running"
  BY <1>1 DEF GoldTasks, Tasks
<1>5. ~silverRun'["dag"].on
  BY DEF Chain, silverVars
<1>6. \A b \in Bronze : status'[b] = "success"
  BY <1>3 DEF Chain, Started
<1>. QED
  BY <1>3, <1>4, <1>5, <1>6 DEF Chain

LEMMA ChainStructured ==
  ASSUME TypeOK, Chain, StructuredStep
  PROVE  Chain'
<1>. UNCHANGED <<silverVars, embeddingVars>>
  BY StructuredFrame
<1>. structuredRun \in [Runners -> Table]
  BY DEF TypeOK, StructuredType, Table
<1>1. ASSUME UNCHANGED taskVars, structuredRun'["dag"].at # "idle" => structuredRun["dag"].at # "idle"
      PROVE  Chain'
  BY <1>1 DEF Chain, taskVars, silverVars, embeddingVars
<1>2. CASE StartStructured
  <2>1. Moves("structured") /\ status'["structured"] = "running"
    BY <1>2, Outcomes, TaskNames DEF StartStructured
  <2>2. status["silver"] = "success"
    BY <1>2 DEF StartStructured, Ready, Upstream
  <2>. QED
    BY <2>1, <2>2, ChainGold, TaskNames DEF Chain, embeddingVars
<1>3. CASE RerunStructured
  <2>1. UNCHANGED taskVars /\ structuredRun'["dag"] = structuredRun["dag"]
    BY <1>3 DEF RerunStructured, BeginTable
  <2>. QED
    BY <1>1, <2>1
<1>4. ASSUME NEW p \in Runners, ReadMonth(p) \/ WriteMonth(p)
      PROVE  Chain'
  <2>1. /\ UNCHANGED taskVars
        /\ structuredRun[p].at # "idle"
        /\ \E a, e : \/ structuredRun' = [structuredRun EXCEPT ![p].at = a, ![p].existing = e]
                    \/ structuredRun' = [structuredRun EXCEPT ![p].at = a]
    BY <1>4 DEF ReadMonth, WriteMonth
  <2>2. p = "cli" => structuredRun'["dag"] = structuredRun["dag"]
    BY <2>1, TaskNames
  <2>. QED
    BY <1>1, <2>1, <2>2 DEF Runners
<1>5. ASSUME NEW p \in Runners, EndStructured(p) \/ CrashStructured(p)
      PROVE  Chain'
  <2>1. structuredRun' = [structuredRun EXCEPT ![p] = NoTable] /\ structuredRun[p].at # "idle"
    BY <1>5 DEF EndStructured, CrashStructured
  <2>2. CASE p = "cli"
    <3>1. UNCHANGED taskVars
      BY <1>5, <2>2, EndedOutcomes, TaskNames DEF EndStructured, CrashStructured
    <3>. QED
      BY <1>1, <2>1, <2>2, <3>1
  <2>3. CASE p = "dag"
    <3>1. Moves("structured")
      BY <1>5, <2>3, EndedOutcomes, TaskNames DEF EndStructured, CrashStructured
    <3>2. status["silver"] = "success" /\ structuredRun'["dag"].at = "idle"
      BY <2>1, <2>3, TaskNames DEF Chain, Started, NoTable
    <3>. QED
      BY <3>1, <3>2, ChainGold, TaskNames DEF Chain, embeddingVars
  <2>. QED
    BY <2>2, <2>3 DEF Runners
<1>. QED
  BY <1>2, <1>3, <1>4, <1>5 DEF StructuredStep

LEMMA ChainEmbedding ==
  ASSUME TypeOK, Chain, EmbeddingStep
  PROVE  Chain'
<1>. UNCHANGED <<silverVars, structuredVars>>
  BY EmbeddingFrame
<1>. embeddingRun \in Encoding
  BY DEF TypeOK, EmbeddingType, Encoding
<1>1. CASE StartEmbedding
  <2>1. Moves("embedding") /\ status'["embedding"] = "running"
    BY <1>1, Outcomes, TaskNames DEF StartEmbedding
  <2>2. status["silver"] = "success"
    BY <1>1 DEF StartEmbedding, Ready, Upstream
  <2>. QED
    BY <2>1, <2>2, ChainGold, TaskNames DEF Chain, structuredVars
<1>2. CASE HandleStep \/ UploadMonth
  <2>1. UNCHANGED taskVars /\ embeddingRun.at # "idle"
    BY <1>2, HandleFrame DEF UploadMonth
  <2>. QED
    BY <2>1 DEF Chain, taskVars, silverVars, structuredVars
<1>3. CASE EndEmbedding \/ CrashEmbedding
  <2>1. embeddingRun'.at = "idle" /\ embeddingRun.at # "idle"
    BY <1>3 DEF EndEmbedding, CrashEmbedding, NoEncoding
  <2>2. Moves("embedding")
    BY <1>3, Outcomes, TaskNames DEF EndEmbedding, CrashEmbedding
  <2>3. status["silver"] = "success"
    BY <2>1, TaskNames DEF Chain, Started
  <2>. QED
    BY <2>1, <2>2, <2>3, ChainGold, TaskNames DEF Chain, structuredVars
<1>. QED
  BY <1>1, <1>2, <1>3 DEF EmbeddingStep

LEMMA ChainNight ==
  ASSUME TypeOK, Chain, NightStep
  PROVE  Chain'
<1>. UNCHANGED <<silverVars, structuredVars, embeddingVars>>
  BY NightFrame
<1>1. ASSUME \A u \in {"silver"} \cup GoldTasks : status[u] # "running" /\ status'[u] = "none"
      PROVE  Chain'
  <2>1. ~silverRun["dag"].on /\ structuredRun["dag"].at = "idle" /\ embeddingRun.at = "idle"
    BY <1>1, TaskNames DEF Chain
  <2>. QED
    BY <1>1, <2>1 DEF Chain, Started, silverVars, structuredVars, embeddingVars
<1>2. CASE NextDay
  <2>1. \A u \in Tasks : status[u] # "running" /\ status'[u] = "none"
    BY <1>2 DEF NextDay
  <2>. QED
    BY <1>1, <2>1 DEF Tasks
<1>3. CASE MarkNaver
  <2>1. status["silver"] \notin Started
    BY <1>3 DEF MarkNaver, Chain, Bronze
  <2>2. \A t \in GoldTasks : status[t] \notin Started
    BY <2>1 DEF Chain, Started
  <2>3. \A u \in {"silver"} \cup GoldTasks : status'[u] = "none"
    BY <1>3 DEF MarkNaver, Tasks, GoldTasks, Bronze, Collectors
  <2>. QED
    BY <1>1, <2>1, <2>2, <2>3 DEF Started
<1>4. ASSUME NEW t \in Tasks \ Bronze, Block(t)
      PROVE  Chain'
  <2>1. status[t] = "none" /\ Moves(t) /\ status'[t] = "failed"
    BY <1>4, Outcomes DEF Block
  <2>2. t \in {"silver"} \cup GoldTasks /\ \A b \in Bronze : b \in Tasks /\ b # t
    BY DEF Tasks, Bronze
  <2>3. \A b \in Bronze : status'[b] = status[b]
    BY <2>1, <2>2 DEF Moves
  <2>4. \A u \in {"silver"} \cup GoldTasks : status'[u] = status[u] \/ (u = t /\ status'[u] = "failed")
    BY <2>1 DEF Moves, Tasks
  <2>5. CASE t = "silver"
    <3>1. \A u \in GoldTasks : status[u] \notin Started
      BY <2>1, <2>5 DEF Chain
    <3>2. ~silverRun["dag"].on /\ structuredRun["dag"].at = "idle" /\ embeddingRun.at = "idle"
      BY <2>1, <2>5, <3>1, TaskNames DEF Chain, Started
    <3>3. \A u \in GoldTasks : status'[u] \notin Started
      BY <2>4, <3>1 DEF Started
    <3>. QED
      BY <2>1, <2>5, <3>2, <3>3 DEF Chain, Started, silverVars, structuredVars, embeddingVars
  <2>6. CASE t \in GoldTasks
    <3>1. status'["silver"] = status["silver"]
      BY <2>1, <2>6 DEF Moves, GoldTasks, Tasks
    <3>. QED
      BY <2>1, <2>3, <2>4, <2>6, <3>1, TaskNames
         DEF Chain, Started, silverVars, structuredVars, embeddingVars
  <2>. QED
    BY <2>2, <2>5, <2>6
<1>. QED
  BY <1>2, <1>3, <1>4 DEF NightStep

LEMMA ChainStep ==
  ASSUME TypeOK, Chain, Next
  PROVE  Chain'
<1>1. CASE ServerStep
  BY <1>1, ServerFrame, ChainSame
<1>. QED
  BY <1>1, StepGroups, ChainBronze, ChainSilver, ChainStructured, ChainEmbedding, ChainNight

LEMMA ChainInit ==
  ASSUME Init
  PROVE  Chain
BY DEF Init, Chain, Started, NoExtraction, NoTable, NoEncoding, GoldTasks, Bronze, Collectors,
       Tasks, Runners

(* What the LLM answers ------------------------------------------------------ *)

(* An answer came and is not stored yet.                                     *)
Held(r) == embeddingRun.answer = "ok" /\ r \in FirstOf(embeddingRun.todo)

(* An answer is held by a run at its inputs, for a report that has none.      *)
HeldIsMissing ==
    embeddingRun.answer # "none" =>
        embeddingRun.at = "inputs" /\ \E r \in FirstOf(embeddingRun.todo) : input[r] # "ok"

(* Every answer is stored, held or lost, and at most one is not lost.         *)
Accounted == \A r \in Reports :
    /\ input[r] = "ok" \/ Held(r) => bought[r] <= lost[r] + 1
    /\ ~(input[r] = "ok" \/ Held(r)) => bought[r] <= lost[r]

PaidInv == TypeOK /\ Chain /\ HeldIsMissing /\ Accounted

LEMMA OneFirst ==
  ASSUME NEW S \in SUBSET Reports, NEW r \in FirstOf(S), NEW s \in FirstOf(S)
  PROVE  r = s
<1>1. r \in Nat /\ s \in Nat /\ r <= s /\ s <= r
  BY ReportAssumption DEF FirstOf
<1>. QED
  BY <1>1

LEMMA PaidStep ==
  ASSUME PaidInv, Next
  PROVE  HeldIsMissing' /\ Accounted'
<1>. /\ input \in [Reports -> {"none", "failed", "ok"}]
     /\ embeddingRun \in Encoding
     /\ bought \in [Reports -> Nat] /\ lost \in [Reports -> Nat]
  BY DEF PaidInv, TypeOK, EmbeddingType, Encoding
<1>1. CASE StartEmbedding
  <2>1. embeddingRun.answer = "none"
    BY <1>1 DEF StartEmbedding, Ready, PaidInv, Chain, HeldIsMissing
  <2>2. embeddingRun'.answer = "none" /\ UNCHANGED <<input, bought, lost>>
    BY <1>1 DEF StartEmbedding, NoEncoding
  <2>. QED
    BY <2>1, <2>2 DEF PaidInv, HeldIsMissing, Accounted, Held
<1>2. CASE EmbedOne
  <2>1. PICK r \in Reports :
          /\ embeddingRun.answer = "none"
          /\ embeddingRun' = [embeddingRun EXCEPT !.todo = @ \ {r}, !.rows = @ \cup ({r} \ Scans)]
    BY <1>2 DEF EmbedOne, Handles
  <2>2. embeddingRun'.answer = "none" /\ UNCHANGED <<input, bought, lost>>
    BY <1>2, <2>1 DEF EmbedOne, Encoding
  <2>. QED
    BY <2>1, <2>2 DEF PaidInv, HeldIsMissing, Accounted, Held
<1>3. CASE AskLLM
  <2>1. PICK r \in Reports, answer \in {"ok", "failed"} :
          /\ Handles(r) /\ ~HasAnswer(r)
          /\ embeddingRun' = [embeddingRun EXCEPT !.answer = answer]
          /\ bought' = IF answer = "ok" THEN [bought EXCEPT ![r] = @ + 1] ELSE bought
          /\ UNCHANGED <<input, lost>>
    BY <1>3 DEF AskLLM
  <2>2. /\ embeddingRun.at = "inputs" /\ embeddingRun.answer = "none"
        /\ r \in FirstOf(embeddingRun.todo) /\ input[r] # "ok"
    BY <2>1 DEF Handles, HasAnswer
  <2>3. /\ embeddingRun'.at = "inputs" /\ embeddingRun'.answer = answer
        /\ embeddingRun'.todo = embeddingRun.todo
    BY <2>1, <2>2 DEF Encoding
  <2>4. \A s \in FirstOf(embeddingRun.todo) : s = r
    BY <2>2, OneFirst DEF Encoding
  <2>5. HeldIsMissing'
    BY <2>1, <2>2, <2>3, <2>4 DEF HeldIsMissing
  <2>6. ASSUME NEW s \in Reports
        PROVE  /\ input'[s] = "ok" \/ Held(s)' => bought'[s] <= lost'[s] + 1
               /\ ~(input'[s] = "ok" \/ Held(s)') => bought'[s] <= lost'[s]
    <3>1. /\ input[s] = "ok" => bought[s] <= lost[s] + 1
          /\ input[s] # "ok" => bought[s] <= lost[s]
      BY <2>2 DEF PaidInv, Accounted, Held
    <3>2. Held(s)' <=> answer = "ok" /\ s = r
      BY <2>2, <2>3, <2>4 DEF Held
    <3>3. bought'[s] = IF answer = "ok" /\ s = r THEN bought[s] + 1 ELSE bought[s]
      BY <2>1
    <3>4. bought[s] \in Nat /\ lost[s] \in Nat /\ lost'[s] = lost[s] /\ input'[s] = input[s]
      BY <2>1
    <3>. QED
      BY <2>2, <3>1, <3>2, <3>3, <3>4
  <2>. QED
    BY <2>5, <2>6 DEF Accounted
<1>4. CASE StoreAnswer
  <2>1. PICK r \in FirstOf(embeddingRun.todo) :
          /\ embeddingRun.answer # "none"
          /\ input' = [input EXCEPT ![r] = embeddingRun.answer]
          /\ embeddingRun' =
               [embeddingRun EXCEPT
                  !.todo = @ \ {r}, !.answer = "none",
                  !.rows = IF embeddingRun.answer = "ok" THEN @ \cup {r} ELSE @,
                  !.llmFailed = @ \/ embeddingRun.answer = "failed"]
          /\ UNCHANGED <<bought, lost>>
    BY <1>4 DEF StoreAnswer
  <2>2. embeddingRun'.answer = "none" /\ r \in Reports
    BY <2>1 DEF Encoding, FirstOf
  <2>3. \A s \in FirstOf(embeddingRun.todo) : s = r
    BY <2>1, OneFirst DEF Encoding
  <2>4. input[r] # "ok"
    BY <2>1, <2>3 DEF PaidInv, HeldIsMissing
  <2>5. ASSUME NEW s \in Reports
        PROVE  /\ input'[s] = "ok" => bought'[s] <= lost'[s] + 1
               /\ input'[s] # "ok" => bought'[s] <= lost'[s]
    <3>1. Held(s) <=> embeddingRun.answer = "ok" /\ s = r
      BY <2>1, <2>3 DEF Held
    <3>2. input'[s] = IF s = r THEN embeddingRun.answer ELSE input[s]
      BY <2>1, <2>2
    <3>3. /\ input[s] = "ok" \/ Held(s) => bought[s] <= lost[s] + 1
          /\ ~(input[s] = "ok" \/ Held(s)) => bought[s] <= lost[s]
      BY DEF PaidInv, Accounted
    <3>. QED
      BY <2>1, <2>4, <3>1, <3>2, <3>3
  <2>. QED
    BY <2>2, <2>5 DEF HeldIsMissing, Accounted, Held
<1>5. CASE UploadMonth
  <2>1. /\ embeddingRun.at = "inputs" /\ embeddingRun.todo = {}
        /\ embeddingRun' = [embeddingRun EXCEPT !.at = "end"]
        /\ UNCHANGED <<input, bought, lost>>
    BY <1>5 DEF UploadMonth
  <2>2. embeddingRun.answer = "none"
    BY <2>1 DEF PaidInv, HeldIsMissing, FirstOf
  <2>3. embeddingRun'.answer = "none"
    BY <2>1, <2>2 DEF Encoding
  <2>. QED
    BY <2>1, <2>2, <2>3 DEF PaidInv, HeldIsMissing, Accounted, Held
<1>6. CASE EndEmbedding
  <2>1. embeddingRun.answer = "none"
    BY <1>6 DEF EndEmbedding, PaidInv, HeldIsMissing
  <2>2. embeddingRun'.answer = "none" /\ UNCHANGED <<input, bought, lost>>
    BY <1>6 DEF EndEmbedding, NoEncoding
  <2>. QED
    BY <2>1, <2>2 DEF PaidInv, HeldIsMissing, Accounted, Held
<1>7. CASE CrashEmbedding
  <2>1. /\ embeddingRun'.answer = "none" /\ UNCHANGED <<input, bought>>
        /\ lost' = [r \in Reports |-> IF Held(r) THEN lost[r] + 1 ELSE lost[r]]
    BY <1>7 DEF CrashEmbedding, NoEncoding, Held
  <2>2. ASSUME NEW s \in Reports
        PROVE  /\ input'[s] = "ok" => bought'[s] <= lost'[s] + 1
               /\ input'[s] # "ok" => bought'[s] <= lost'[s]
    <3>1. /\ input[s] = "ok" \/ Held(s) => bought[s] <= lost[s] + 1
          /\ ~(input[s] = "ok" \/ Held(s)) => bought[s] <= lost[s]
      BY DEF PaidInv, Accounted
    <3>2. lost'[s] = IF Held(s) THEN lost[s] + 1 ELSE lost[s]
      BY <2>1
    <3>3. bought[s] \in Nat /\ lost[s] \in Nat /\ bought'[s] = bought[s] /\ input'[s] = input[s]
      BY <2>1
    <3>. QED
      BY <3>1, <3>2, <3>3
  <2>. QED
    BY <2>1, <2>2 DEF HeldIsMissing, Accounted, Held
<1>8. CASE ~EmbeddingStep
  <2>1. UNCHANGED embeddingVars
    BY <1>8, StepGroups, BronzeFrame, SilverFrame, StructuredFrame, ServerFrame, NightFrame
  <2>. QED
    BY <2>1 DEF embeddingVars, PaidInv, HeldIsMissing, Accounted, Held
<1>. QED
  BY <1>1, <1>2, <1>3, <1>4, <1>5, <1>6, <1>7, <1>8 DEF EmbeddingStep, HandleStep

LEMMA PaidInvariant == Spec => []PaidInv
<1>1. Init => PaidInv
  <2>1. ASSUME Init
        PROVE  HeldIsMissing /\ Accounted
    BY <2>1 DEF Init, NoEncoding, HeldIsMissing, Accounted, Held
  <2>. QED
    BY <2>1, ChainInit, InitTypes DEF PaidInv
<1>2. PaidInv /\ [Next]_vars => PaidInv'
  <2>. SUFFICES ASSUME PaidInv, [Next]_vars
       PROVE  PaidInv'
    OBVIOUS
  <2>1. TypeOK'
    BY TypeStep DEF PaidInv
  <2>2. CASE UNCHANGED vars
    <3>1. UNCHANGED <<taskVars, silverVars, structuredVars, embeddingVars>>
      BY <2>2 DEF vars
    <3>2. Chain'
      BY <3>1, ChainSame DEF PaidInv
    <3>. QED
      BY <2>1, <3>1, <3>2 DEF embeddingVars, PaidInv, HeldIsMissing, Accounted, Held
  <2>3. CASE Next
    BY <2>1, <2>3, PaidStep, ChainStep DEF PaidInv
  <2>. QED
    BY <2>2, <2>3
<1>. QED
  BY <1>1, <1>2, PTL DEF Spec

(* The LLM answers again for a report only when an answer was lost between    *)
(* the call and the put that stores it.                                      *)
THEOREM AnswersPaidOnce == Spec => []AnswersAreReused
<1>1. PaidInv => AnswersAreReused
  BY DEF PaidInv, TypeOK, EmbeddingType, Accounted, AnswersAreReused
<1>. QED
  BY <1>1, PaidInvariant, PTL

(* Rows of the night --------------------------------------------------------- *)

RowsOfDay ==
    /\ structuredRun["dag"].at # "idle" => \A r \in structuredRun["dag"].rows : DayOf[r] = day
    /\ embeddingRun.at # "idle" => \A r \in embeddingRun.keys : DayOf[r] = day

LEMMA RowsOfDayStep ==
  ASSUME TypeOK, Chain, RowsOfDay, Next
  PROVE  RowsOfDay'
<1>. structuredRun \in [Runners -> Table] /\ embeddingRun \in Encoding
  BY DEF TypeOK, StructuredType, EmbeddingType, Table, Encoding
<1>1. CASE StructuredStep
  <2>1. day' = day
    BY <1>1 DEF StructuredStep, StartStructured, RerunStructured, ReadMonth, WriteMonth,
                EndStructured, CrashStructured, EndedBy, Succeed, FailTask, taskVars
  <2>2. ASSUME structuredRun'["dag"].at # "idle"
        PROVE  \A r \in structuredRun'["dag"].rows : DayOf[r] = day
    <3>1. CASE StartStructured
      BY <3>1, TaskNames DEF StartStructured, BeginTable, SilverOf
    <3>2. CASE RerunStructured
      BY <2>2, <3>2, TaskNames DEF RerunStructured, BeginTable, RowsOfDay
    <3>3. ASSUME NEW p \in Runners, ReadMonth(p) \/ WriteMonth(p)
          PROVE  structuredRun'["dag"].rows = structuredRun["dag"].rows
                 /\ structuredRun["dag"].at # "idle"
      <4>1. structuredRun[p].at # "idle" /\
            \E a, e : \/ structuredRun' = [structuredRun EXCEPT ![p].at = a, ![p].existing = e]
                      \/ structuredRun' = [structuredRun EXCEPT ![p].at = a]
        BY <3>3 DEF ReadMonth, WriteMonth
      <4>. QED
        BY <2>2, <4>1, TaskNames DEF Table
    <3>4. ASSUME NEW p \in Runners, EndStructured(p) \/ CrashStructured(p)
          PROVE  structuredRun'["dag"] = structuredRun["dag"]
      BY <2>2, <3>4, TaskNames DEF EndStructured, CrashStructured, NoTable
    <3>. QED
      BY <1>1, <2>2, <3>1, <3>2, <3>3, <3>4 DEF StructuredStep, RowsOfDay
  <2>. QED
    BY <1>1, <2>1, <2>2, StructuredFrame DEF RowsOfDay, embeddingVars
<1>2. CASE EmbeddingStep
  <2>1. day' = day
    BY <1>2, HandleFrame
       DEF EmbeddingStep, StartEmbedding, UploadMonth, EndEmbedding, CrashEmbedding, Succeed,
           FailTask, taskVars
  <2>2. ASSUME embeddingRun'.at # "idle"
        PROVE  \A r \in embeddingRun'.keys : DayOf[r] = day
    <3>1. CASE StartEmbedding
      BY <3>1 DEF StartEmbedding, NoEncoding, SilverOf
    <3>2. CASE HandleStep
      BY <3>2, HandleFrame DEF RowsOfDay
    <3>3. CASE UploadMonth
      <4>1. embeddingRun'.keys = embeddingRun.keys /\ embeddingRun.at # "idle"
        BY <3>3 DEF UploadMonth, Encoding
      <4>. QED
        BY <4>1 DEF RowsOfDay
    <3>4. ~EndEmbedding /\ ~CrashEmbedding
      BY <2>2 DEF EndEmbedding, CrashEmbedding, NoEncoding
    <3>. QED
      BY <1>2, <3>1, <3>2, <3>3, <3>4 DEF EmbeddingStep
  <2>. QED
    BY <1>2, <2>1, <2>2, EmbeddingFrame DEF RowsOfDay, structuredVars
<1>3. CASE BronzeStep \/ SilverStep \/ ServerStep
  <2>1. day' = day
    BY <1>3, ServerFrame
       DEF BronzeStep, Collect, CollectAgain, CollectCut, CollectNaver, SilverStep, StartSilver,
           RerunSilver, ExtractOne, EndSilver, CrashSilver, EndedBy, Succeed, FailTask, taskVars
  <2>2. UNCHANGED <<structuredVars, embeddingVars>>
    BY <1>3, BronzeFrame, SilverFrame, ServerFrame
  <2>. QED
    BY <2>1, <2>2 DEF RowsOfDay, structuredVars, embeddingVars
<1>4. CASE NightStep
  <2>1. UNCHANGED <<structuredVars, embeddingVars>>
    BY <1>4, NightFrame
  <2>2. CASE NextDay
    <3>1. structuredRun["dag"].at = "idle" /\ embeddingRun.at = "idle"
      BY <2>2, TaskNames DEF NextDay, Chain
    <3>. QED
      BY <2>1, <3>1 DEF RowsOfDay, structuredVars, embeddingVars
  <2>3. CASE ~NextDay
    <3>1. day' = day
      BY <1>4, <2>3 DEF NightStep, MarkNaver, Block
    <3>. QED
      BY <2>1, <3>1 DEF RowsOfDay, structuredVars, embeddingVars
  <2>. QED
    BY <2>2, <2>3
<1>. QED
  BY <1>1, <1>2, <1>3, <1>4, StepGroups

(* Datasets ------------------------------------------------------------------ *)

Done == {t \in GoldTasks : status[t] = "success"}

(* The Datasets are those of the Gold tasks that succeeded this night, unless *)
(* they have triggered the maintenance run.                                  *)
Paired ==
    /\ \A t \in GoldTasks : finished[t] \subseteq 1 .. day
    /\ \A t \in GoldTasks : day \in finished[t] <=> status[t] = "success"
    /\ "unpaired" \in slips \/ events = Done \/ (events = {} /\ Done = GoldTasks)

LEMMA PairedSame ==
  ASSUME Paired, Done' = Done, UNCHANGED <<day, finished, events>>, slips \subseteq slips'
  PROVE  Paired'
<1>1. \A t \in GoldTasks : status'[t] = "success" <=> status[t] = "success"
  BY DEF Done
<1>. QED
  BY <1>1 DEF Paired

LEMMA PairedDeliver ==
  ASSUME TypeOK, Paired, NEW t \in GoldTasks, NEW rows, status[t] # "success", Succeed(t),
         Deliver(t, rows), slips' = slips
  PROVE  Paired'
<1>1. /\ day' = day /\ day \in Nat /\ day >= 1
      /\ t \in Tasks /\ GoldTasks \subseteq Tasks
      /\ finished \in [GoldTasks -> SUBSET Days]
  BY ReportAssumption DEF TypeOK, TaskType, HistoryType, Days, Tasks, Succeed
<1>2. /\ status'[t] = "success"
      /\ \A u \in GoldTasks \ {t} : status'[u] = status[u]
  BY <1>1, Outcomes DEF Moves
<1>3. /\ finished'[t] = finished[t] \cup {day}
      /\ \A u \in GoldTasks \ {t} : finished'[u] = finished[u]
      /\ events' = events \cup {t}
  BY <1>1 DEF Deliver
<1>4. Done' = Done \cup {t}
  BY <1>2 DEF Done
<1>5. Done # GoldTasks
  BY DEF Done
<1>6. "unpaired" \in slips' \/ events' = Done'
  BY <1>3, <1>4, <1>5 DEF Paired
<1>7. day \in 1 .. day
  BY <1>1
<1>. QED
  BY <1>1, <1>2, <1>3, <1>6, <1>7 DEF Paired

LEMMA PairedStep ==
  ASSUME TypeOK, Chain, Paired, Next
  PROVE  Paired'
<1>. slips \subseteq slips'
  BY SlipsStay
<1>t. GoldTasks \subseteq Tasks \ ({"silver"} \cup Bronze)
  BY DEF GoldTasks, Tasks, Bronze, Collectors
<1>1. ASSUME NEW t \in Tasks, Moves(t), t \in GoldTasks => status[t] # "success" /\ status'[t] # "success"
      PROVE  Done' = Done
  BY <1>1, <1>t DEF Moves, Done
<1>2. CASE BronzeStep
  <2>1. UNCHANGED <<finished, events>>
    BY <1>2, BronzeFrame DEF goldHistory
  <2>2. ASSUME NEW b \in Bronze, Moves(b)
        PROVE  Paired'
    <3>1. b \in Tasks /\ b \notin GoldTasks
      BY <1>t DEF Tasks
    <3>2. day' = day
      BY <2>2 DEF Moves
    <3>. QED
      BY <1>1, <2>1, <2>2, <3>1, <3>2, PairedSame
  <2>3. ASSUME NEW f \in Collectors, Collect(f) \/ CollectCut(f)
        PROVE  Paired'
    BY <2>2, <2>3, Outcomes, TaskNames DEF Collect, CollectCut, Bronze
  <2>4. CASE CollectNaver
    <3>1. Moves("naver")
      BY <2>4, Outcomes, TaskNames DEF CollectNaver
    <3>. QED
      BY <2>2, <3>1 DEF Bronze
  <2>5. ASSUME NEW f \in Collectors, CollectAgain(f)
        PROVE  Paired'
    BY <2>1, <2>5, PairedSame DEF CollectAgain, taskVars, Done
  <2>. QED
    BY <1>2, <2>3, <2>4, <2>5 DEF BronzeStep
<1>3. CASE SilverStep
  <2>1. UNCHANGED <<finished, events>>
    BY <1>3, SilverFrame DEF goldHistory
  <2>2. CASE UNCHANGED taskVars
    BY <2>1, <2>2, PairedSame DEF taskVars, Done
  <2>3. CASE Moves("silver")
    <3>1. "silver" \notin GoldTasks /\ day' = day
      BY <2>3 DEF GoldTasks, Moves
    <3>. QED
      BY <1>1, <2>1, <2>3, <3>1, PairedSame, TaskNames
  <2>4. ASSUME NEW p \in Runners, EndSilver(p) \/ CrashSilver(p)
        PROVE  UNCHANGED taskVars \/ Moves("silver")
    BY <2>4, EndedOutcomes, TaskNames DEF EndSilver, CrashSilver, Runners
  <2>5. CASE StartSilver
    BY <2>3, <2>5, Outcomes, TaskNames DEF StartSilver
  <2>. QED
    BY <1>3, <2>2, <2>3, <2>4, <2>5 DEF SilverStep, RerunSilver, ExtractOne
<1>4. CASE StructuredStep
  <2>1. ASSUME UNCHANGED <<events, goldHistory, taskVars>> PROVE Paired'
    BY <2>1, PairedSame DEF goldHistory, taskVars, Done
  <2>2. CASE StartStructured
    <3>1. Moves("structured") /\ status["structured"] # "success" /\ status'["structured"] # "success"
      BY <2>2, Outcomes, TaskNames DEF StartStructured, Ready
    <3>2. UNCHANGED <<day, finished, events>>
      BY <2>2 DEF StartStructured, goldHistory
    <3>. QED
      BY <1>1, <3>1, <3>2, PairedSame, TaskNames
  <2>3. ASSUME NEW p \in Runners, EndStructured(p)
        PROVE  Paired'
    <3>1. CASE p = "dag"
      <4>1. status["structured"] # "success"
        BY <2>3, <3>1 DEF EndStructured, Chain
      <4>. QED
        BY <2>3, <3>1, <4>1, PairedDeliver, TaskNames DEF EndStructured, EndedBy
    <3>2. CASE p = "cli"
      BY <2>1, <2>3, <3>2 DEF EndStructured, EndedBy
    <3>. QED
      BY <3>1, <3>2 DEF Runners
  <2>4. ASSUME NEW p \in Runners, CrashStructured(p)
        PROVE  Paired'
    <3>1. CASE p = "dag"
      <4>1. /\ Moves("structured") /\ status["structured"] # "success"
            /\ status'["structured"] # "success"
        BY <2>4, <3>1, EndedOutcomes, TaskNames DEF CrashStructured, Chain
      <4>2. UNCHANGED <<day, finished, events>>
        BY <2>4, <4>1 DEF CrashStructured, goldHistory, Moves
      <4>. QED
        BY <1>1, <4>1, <4>2, PairedSame, TaskNames
    <3>2. CASE p = "cli"
      BY <2>1, <2>4, <3>2 DEF CrashStructured, EndedBy
    <3>. QED
      BY <3>1, <3>2 DEF Runners
  <2>5. CASE RerunStructured
    BY <2>1, <2>5 DEF RerunStructured
  <2>6. ASSUME NEW p \in Runners, ReadMonth(p) \/ WriteMonth(p)
        PROVE  Paired'
    BY <2>1, <2>6 DEF ReadMonth, WriteMonth
  <2>. QED
    BY <1>4, <2>2, <2>3, <2>4, <2>5, <2>6 DEF StructuredStep
<1>5. CASE EmbeddingStep
  <2>1. ASSUME UNCHANGED <<events, goldHistory>>,
               \/ UNCHANGED taskVars
               \/ /\ Moves("embedding")
                  /\ status["embedding"] # "success" /\ status'["embedding"] # "success"
        PROVE Paired'
    <3>1. CASE UNCHANGED taskVars
      BY <2>1, <3>1, PairedSame DEF goldHistory, taskVars, Done
    <3>2. CASE ~UNCHANGED taskVars
      <4>1. Done' = Done
        BY <1>1, <2>1, <3>2, TaskNames
      <4>. QED
        BY <2>1, <3>2, <4>1, PairedSame DEF goldHistory, Moves
    <3>. QED
      BY <3>1, <3>2
  <2>2. CASE StartEmbedding
    BY <2>1, <2>2, Outcomes, TaskNames DEF StartEmbedding, Ready
  <2>3. CASE HandleStep \/ UploadMonth
    BY <2>1, <2>3, HandleFrame DEF UploadMonth
  <2>4. EndEmbedding \/ CrashEmbedding => status["embedding"] # "success"
    BY DEF EndEmbedding, CrashEmbedding, Chain
  <2>5. CASE CrashEmbedding
    BY <2>1, <2>4, <2>5, Outcomes, TaskNames DEF CrashEmbedding
  <2>6. CASE EndEmbedding
    <3>1. CASE EmbeddingRaises
      BY <2>1, <2>4, <2>6, <3>1, Outcomes, TaskNames DEF EndEmbedding
    <3>2. CASE ~EmbeddingRaises
      BY <2>4, <2>6, <3>2, PairedDeliver, TaskNames DEF EndEmbedding
    <3>. QED
      BY <3>1, <3>2
  <2>. QED
    BY <1>5, <2>2, <2>3, <2>5, <2>6 DEF EmbeddingStep
<1>6. CASE ServerStep
  <2>1. UNCHANGED <<taskVars, finished>>
    BY <1>6, ServerFrame DEF goldHistory
  <2>2. CASE Trigger
    <3>1. events = GoldTasks /\ events' = {}
      BY <2>2 DEF Trigger, Triggered
    <3>2. GoldTasks # {} /\ Done \subseteq GoldTasks /\ Done' = Done
      BY <2>1, TaskNames DEF Done, taskVars
    <3>3. "unpaired" \in slips' \/ Done = GoldTasks
      BY <3>1, <3>2 DEF Paired
    <3>. QED
      BY <2>1, <3>1, <3>2, <3>3 DEF Paired, taskVars, Done
  <2>3. CASE ~Trigger
    <3>1. events' = events
      BY <1>6, <2>3 DEF ServerStep, MaintStep, DeltaMerge, MergeTable, LoadVectors, SaveFile, Restart,
                        MaintFails, ServerRestart
    <3>. QED
      BY <2>1, <3>1, PairedSame DEF taskVars, Done
  <2>. QED
    BY <2>2, <2>3
<1>7. CASE NightStep
  <2>1. UNCHANGED <<finished, events>>
    BY <1>7, NightFrame DEF goldHistory
  <2>2. CASE NextDay
    <3>1. /\ day' = day + 1 /\ day \in Nat /\ day >= 1
          /\ \A t \in GoldTasks : status'[t] = "none"
      BY <2>2, <1>t, ReportAssumption DEF NextDay, TypeOK, TaskType, Days
    <3>2. Done' = {}
      BY <3>1 DEF Done
    <3>3. \A t \in GoldTasks : finished'[t] \subseteq 1 .. day' /\ day' \notin finished'[t]
      BY <2>1, <3>1 DEF Paired
    <3>4. ASSUME "unpaired" \notin slips'
          PROVE  events' = {}
      <4>1. status["structured"] = status["embedding"] /\ "unpaired" \notin slips
        BY <2>2, <3>4 DEF NextDay
      <4>2. Done = {} \/ Done = GoldTasks
        BY <4>1 DEF Done, GoldTasks
      <4>3. events # GoldTasks
        BY <2>2 DEF NextDay, Triggered
      <4>. QED
        BY <2>1, <4>1, <4>2, <4>3 DEF Paired
    <3>. QED
      BY <3>1, <3>2, <3>3, <3>4 DEF Paired
  <2>3. CASE MarkNaver
    <3>1. \A t \in GoldTasks : status[t] # "success"
      BY <2>3 DEF MarkNaver, Chain, Started, Bronze
    <3>2. \A t \in GoldTasks : status'[t] # "success"
      BY <2>3, <1>t DEF MarkNaver, Bronze
    <3>3. Done' = Done
      BY <3>1, <3>2 DEF Done
    <3>. QED
      BY <2>1, <2>3, <3>3, PairedSame DEF MarkNaver
  <2>4. ASSUME NEW t \in Tasks \ Bronze, Block(t)
        PROVE  Paired'
    <3>1. Moves(t) /\ status[t] # "success" /\ status'[t] # "success"
      BY <2>4, Outcomes DEF Block
    <3>2. Done' = Done /\ day' = day
      BY <1>1, <3>1 DEF Moves
    <3>. QED
      BY <2>1, <3>2, PairedSame
  <2>. QED
    BY <1>7, <2>2, <2>3, <2>4 DEF NightStep
<1>. QED
  BY <1>2, <1>3, <1>4, <1>5, <1>6, <1>7, StepGroups

(* What is owed to the Delta tables ------------------------------------------ *)

Both == finished["structured"] \cap finished["embedding"]

(* Ahead: the merge of the table is still to come in a run going on or due.   *)
Ahead(t) ==
    \/ Triggered(events)
    \/ maint = "structured"
    \/ maint = "embedding" /\ t = "embedding"

OwedOrDue ==
    slips = {} => \A t \in GoldTasks : \A r \in kept[t] :
                     DayOf[r] \in Both => r \in delta[t] \/ Ahead(t)

DeltaInv == PipelineInv /\ Chain /\ RowsOfDay /\ Paired /\ OwedOrDue

LEMMA OwedSame ==
  ASSUME OwedOrDue, UNCHANGED <<kept, finished, delta, maint, events>>, slips \subseteq slips'
  PROVE  OwedOrDue'
BY DEF OwedOrDue, Both, Ahead

LEMMA OwedDeliver ==
  ASSUME TypeOK, Chain, Paired, OwedOrDue, NEW t \in GoldTasks, NEW rows \in SUBSET Reports,
         \A r \in rows : DayOf[r] = day,
         status[t] # "success", Succeed(t), Deliver(t, rows), UNCHANGED <<delta, maint, slips>>
  PROVE  OwedOrDue'
<1>. SUFFICES ASSUME slips = {}, NEW u \in GoldTasks, NEW r \in kept'[u], DayOf[r] \in Both'
     PROVE  r \in delta[u] \/ Ahead(u)'
  BY DEF OwedOrDue
<1>1. /\ kept \in [GoldTasks -> SUBSET Reports]
      /\ finished \in [GoldTasks -> SUBSET Days]
      /\ t \in Tasks /\ GoldTasks \subseteq Tasks
  BY DEF TypeOK, HistoryType, Tasks
<1>2. /\ kept'[t] = kept[t] \cup rows /\ finished'[t] = finished[t] \cup {day}
      /\ \A v \in GoldTasks \ {t} : kept'[v] = kept[v] /\ finished'[v] = finished[v]
      /\ events' = events \cup {t}
  BY <1>1 DEF Deliver
<1>3. CASE DayOf[r] = day
  <2>1. \A v \in GoldTasks \ {t} : day \in finished[v]
    BY <1>2, <1>3 DEF Both, GoldTasks
  <2>2. \A v \in GoldTasks \ {t} : status[v] = "success"
    BY <2>1 DEF Paired
  <2>3. events = Done
    BY DEF Paired, Done
  <2>4. events' = GoldTasks
    BY <1>2, <2>2, <2>3 DEF Done
  <2>. QED
    BY <2>4 DEF Ahead, Triggered
<1>4. CASE DayOf[r] # day
  <2>1. DayOf[r] \in Both
    BY <1>2, <1>4, TaskNames DEF Both, GoldTasks
  <2>2. r \in kept[u]
    BY <1>2, <1>4
  <2>3. r \in delta[u] \/ Ahead(u)
    BY <2>1, <2>2 DEF OwedOrDue
  <2>4. Triggered(events) => Triggered(events')
    BY <1>2 DEF Triggered
  <2>. QED
    BY <2>3, <2>4 DEF Ahead
<1>. QED
  BY <1>3, <1>4

LEMMA OwedStep ==
  ASSUME DeltaInv, Next
  PROVE  OwedOrDue'
<1>. TypeOK /\ Chain /\ RowsOfDay /\ Paired /\ OwedOrDue /\ GoldIsWhole
  BY DEF DeltaInv, PipelineInv
<1>. slips \subseteq slips'
  BY SlipsStay
<1>1. CASE BronzeStep \/ SilverStep \/ NightStep
  BY <1>1, BronzeFrame, SilverFrame, NightFrame, OwedSame DEF maintVars, goldHistory
<1>2. CASE StructuredStep
  <2>1. UNCHANGED <<delta, maint>>
    BY <1>2, StructuredFrame DEF maintVars
  <2>2. ASSUME UNCHANGED <<events, goldHistory>> PROVE OwedOrDue'
    BY <2>1, <2>2, OwedSame DEF goldHistory
  <2>3. ASSUME NEW p \in Runners, EndStructured(p)
        PROVE  OwedOrDue'
    <3>1. CASE p = "dag"
      <4>1. /\ Succeed("structured") /\ Deliver("structured", structuredRun["dag"].rows)
            /\ structuredRun["dag"].at = "end" /\ slips' = slips
        BY <2>3, <3>1 DEF EndStructured, EndedBy
      <4>2. status["structured"] # "success"
        BY <4>1 DEF Chain
      <4>3. structuredRun["dag"].rows \in SUBSET Reports
        BY TaskNames DEF TypeOK, StructuredType
      <4>4. \A r \in structuredRun["dag"].rows : DayOf[r] = day
        BY <4>1 DEF RowsOfDay
      <4>. QED
        BY <2>1, <4>1, <4>2, <4>3, <4>4, OwedDeliver, TaskNames
    <3>2. CASE p = "cli"
      BY <2>2, <2>3, <3>2 DEF EndStructured
    <3>. QED
      BY <3>1, <3>2 DEF Runners
  <2>4. CASE StartStructured \/ RerunStructured
    BY <2>2, <2>4 DEF StartStructured, RerunStructured
  <2>5. ASSUME NEW p \in Runners, ReadMonth(p) \/ WriteMonth(p) \/ CrashStructured(p)
        PROVE  OwedOrDue'
    BY <2>2, <2>5 DEF ReadMonth, WriteMonth, CrashStructured
  <2>. QED
    BY <1>2, <2>3, <2>4, <2>5 DEF StructuredStep
<1>3. CASE EmbeddingStep
  <2>1. UNCHANGED <<delta, maint, slips>>
    BY <1>3, EmbeddingFrame DEF maintVars
  <2>2. ASSUME UNCHANGED <<events, goldHistory>> PROVE OwedOrDue'
    BY <2>1, <2>2, OwedSame DEF goldHistory
  <2>3. CASE EndEmbedding /\ ~EmbeddingRaises
    <3>1. /\ Succeed("embedding") /\ Deliver("embedding", embeddingRun.keys \ Scans)
          /\ embeddingRun.at = "end"
      BY <2>3 DEF EndEmbedding
    <3>2. status["embedding"] # "success"
      BY <3>1 DEF Chain
    <3>3. embeddingRun.keys \ Scans \in SUBSET Reports
      BY DEF TypeOK, EmbeddingType
    <3>4. \A r \in embeddingRun.keys \ Scans : DayOf[r] = day
      BY <3>1 DEF RowsOfDay
    <3>. QED
      BY <2>1, <3>1, <3>2, <3>3, <3>4, OwedDeliver, TaskNames
  <2>4. CASE EndEmbedding /\ EmbeddingRaises
    BY <2>2, <2>4 DEF EndEmbedding
  <2>5. CASE StartEmbedding \/ HandleStep \/ UploadMonth \/ CrashEmbedding
    BY <2>2, <2>5, HandleFrame DEF StartEmbedding, UploadMonth, CrashEmbedding
  <2>. QED
    BY <1>3, <2>3, <2>4, <2>5 DEF EmbeddingStep
<1>4. CASE ServerStep
  <2>1. UNCHANGED <<kept, finished>>
    BY <1>4, ServerFrame DEF goldHistory
  <2>2. delta \in [GoldTasks -> SUBSET Reports]
    BY DEF TypeOK, MaintType
  <2>3. CASE Trigger
    BY <2>1, <2>3 DEF Trigger, OwedOrDue, Both, Ahead
  <2>4. CASE DeltaMerge
    <3>. SUFFICES ASSUME slips' = {}
         PROVE  OwedOrDue'
      BY DEF OwedOrDue
    <3>1. \/ /\ maint = "structured" /\ maint' = "embedding"
             /\ delta' = [delta EXCEPT !["structured"] = @ \cup structured]
          \/ /\ maint = "embedding"
             /\ delta' = [delta EXCEPT !["embedding"] = @ \cup embeddings]
      BY <2>4 DEF DeltaMerge, MergeTable, Unread
    <3>2. slips = {} /\ kept["structured"] \subseteq structured /\ kept["embedding"] \subseteq embeddings
      BY DEF GoldIsWhole
    <3>3. CASE maint = "structured"
      BY <2>1, <2>2, <3>1, <3>2, <3>3 DEF OwedOrDue, Ahead, GoldTasks
    <3>4. CASE maint = "embedding"
      <4>1. /\ delta'["embedding"] = delta["embedding"] \cup embeddings
            /\ delta'["structured"] = delta["structured"]
        BY <2>2, <3>1, <3>4, TaskNames
      <4>2. events' = events
        BY <2>4 DEF DeltaMerge, MergeTable
      <4>. QED
        BY <2>1, <3>2, <3>4, <4>1, <4>2 DEF OwedOrDue, Both, Ahead, GoldTasks
    <3>. QED
      BY <3>1, <3>3, <3>4
  <2>5. CASE MaintFails
    <3>. SUFFICES ASSUME slips' = {}
         PROVE  OwedOrDue'
      BY DEF OwedOrDue
    <3>1. maint' = Retried /\ UNCHANGED <<delta, events>>
      BY <2>5 DEF MaintFails
    <3>2. maint \in GoldTasks => maint' = "structured"
      BY <3>1 DEF Retried, GoldTasks, Building
    <3>. QED
      BY <2>1, <3>1, <3>2, TaskNames DEF OwedOrDue, Both, Ahead
  <2>6. CASE LoadVectors \/ (\E f \in {"index", "ids"} : SaveFile(f)) \/ Restart \/ ServerRestart
    <3>1. /\ UNCHANGED <<delta, events>>
          /\ maint' = maint \/ maint \notin GoldTasks
      BY <2>6 DEF LoadVectors, SaveFile, Restart, ServerRestart, GoldTasks
    <3>. QED
      BY <2>1, <3>1, TaskNames DEF OwedOrDue, Both, Ahead
  <2>. QED
    BY <1>4, <2>3, <2>4, <2>5, <2>6 DEF ServerStep, MaintStep
<1>. QED
  BY <1>1, <1>2, <1>3, <1>4, StepGroups

LEMMA DeltaInit ==
  ASSUME Init
  PROVE  DeltaInv
<1>1. Chain
  BY ChainInit
<1>2. RowsOfDay
  BY DEF Init, RowsOfDay, NoTable, NoEncoding, Runners
<1>3. Paired
  <2>1. \A t \in GoldTasks : finished[t] = {} /\ status[t] = "none"
    BY DEF Init, Tasks
  <2>2. events = {} /\ Done = {}
    BY <2>1 DEF Init, Done
  <2>. QED
    BY <2>1, <2>2 DEF Paired
<1>4. OwedOrDue
  BY DEF Init, OwedOrDue
<1>. QED
  BY <1>1, <1>2, <1>3, <1>4, PipelineInit DEF DeltaInv

LEMMA DeltaNext ==
  ASSUME DeltaInv, [Next]_vars
  PROVE  DeltaInv'
<1>1. CASE UNCHANGED vars
  <2>1. PipelineInv'
    BY PipelineNext DEF DeltaInv
  <2>2. UNCHANGED <<taskVars, silverVars, structuredVars, embeddingVars, maintVars, kept, finished,
                    events, slips>>
    BY <1>1 DEF vars, goldHistory
  <2>3. Chain' /\ OwedOrDue'
    BY <2>2, ChainSame, OwedSame DEF DeltaInv, maintVars
  <2>4. RowsOfDay'
    BY <2>2 DEF DeltaInv, RowsOfDay, taskVars, structuredVars, embeddingVars
  <2>5. Paired'
    BY <2>2, PairedSame DEF DeltaInv, taskVars, Done
  <2>. QED
    BY <2>1, <2>3, <2>4, <2>5 DEF DeltaInv
<1>2. CASE Next
  BY <1>2, PipelineNext, ChainStep, RowsOfDayStep, PairedStep, OwedStep DEF DeltaInv, PipelineInv
<1>. QED
  BY <1>1, <1>2

(* With no maintenance run going on or due, the Delta tables hold what both   *)
(* Gold tasks delivered, but for the named slips.                            *)
THEOREM DeltaCatchesUp == Spec => []DeltaCaughtUp
<1>1. DeltaInv => DeltaCaughtUp
  BY DEF DeltaInv, OwedOrDue, Ahead, Both, DeltaCaughtUp
<1>2. Spec => []DeltaInv
  BY DeltaInit, DeltaNext, PTL DEF Spec
<1>. QED
  BY <1>1, <1>2, PTL
=============================================================================
