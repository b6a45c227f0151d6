------------------------------- MODULE Silver -------------------------------
(***************************************************************************)
(* From Bronze to Silver: the completion pass, the incremental pass, the      *)
(* full pass raw_to_silver and the operators' rebuild, recollection and       *)
(* replay, which all write or delete the three outputs of a disclosure: its  *)
(* complete marker, its report and its done marker.  No lock covers the       *)
(* three, and any of the procedures may run at the same time.                *)
(*                                                                         *)
(* The jobs below are those of JobLifecycle; this module adds the finished_at *)
(* that a transaction stamps on a job and what the procedures do.            *)
(*                                                                         *)
(* Time enters only by comparison: a finished_at is "old" (not after the      *)
(* watermark), "since" (after it) or "new" (after the start of the running    *)
(* incremental pass).                                                        *)
(***************************************************************************)
EXTENDS FiniteSets, Naturals

CONSTANTS
  Discs,      (* disclosures (rcept_no)                                       *)
  Jobs,       (* detail jobs; one may serve several disclosures               *)
  Needs,      (* Needs[d]: the jobs whose files the disclosure d is made of    *)
  Leads,      (* Leads[j]: the disclosures that the incremental pass selects   *)
              (* for a DONE j: by rcept_no, or the recent ones of its company  *)
  Metas,      (* values of the disclosure's row that its marker copies         *)
  Schedules,  (* the sets of procedures that are run, each in a behaviour of   *)
              (* its own: subsets of AllProcs                                 *)
  MaxActive   (* bound: procedures under way at the same time                  *)

AllProcs == {"incremental", "completion", "raw_to_silver", "rebuild", "recollect", "replay"}
None == "none"

ASSUME SilverAssumption ==
  /\ Schedules \subseteq SUBSET AllProcs
  /\ Needs \in [Discs -> SUBSET Jobs]
  /\ Leads \in [Jobs -> SUBSET Discs]
  /\ None \notin Metas \cup Discs
  /\ MaxActive \in Nat

VARIABLES
  status, working, complete, withdrawn,   (* of JobLifecycle                  *)
  finished,    (* finished_at of each job                                     *)
  closing,     (* the open transaction that ends a job: its start, or None    *)
  registered,  (* the jobs whose files have a raw_file_reference row          *)
  meta,        (* the disclosure rows                                         *)
  changed,     (* rows whose last_seen_at or group_updated_at lies after       *)
               (* bronze_completion_last_run_at                                *)
  marker,      (* complete markers: the row they copy, or None                *)
  report,      (* report.json: the files it was built from                    *)
  done,        (* disclosures with a Silver done marker of this version       *)
  at,          (* at[p]: how far procedure p of the schedule is, see Frame     *)
  (* history                                                                 *)
  passed_over, (* disclosures that the watermark may have left behind         *)
  disturbed,   (* disclosures that a procedure deleted from while another was  *)
               (* at them or that share the deleted file, or that were judged  *)
               (* complete without their files                                *)
  slipped      (* rows that changed without a later stamp, or while some         *)
               (* procedure held what it had read of them, or that failed in a *)
               (* completion pass                                             *)

jobs == <<status, working, complete, withdrawn, finished, closing, registered>>
rows == <<meta, changed>>
outputs == <<marker, report, done>>
history == <<passed_over, disturbed, slipped>>
vars == <<jobs, rows, outputs, at, history>>

Job == INSTANCE JobLifecycle

-----------------------------------------------------------------------------
(* A report is made of what was read of each job's files: missing (an empty   *)
(* section), current, or outdated (deleted since).                           *)
NoReport == [j \in Jobs |-> "missing"]
Outdated(files, j) == [files EXCEPT ![j] = IF @ = "current" THEN "outdated" ELSE @]
Whole(d) == \A j \in Needs[d] : report[d][j] = "current"

(* evaluate_completion against the storage itself.                           *)
Present(d) == Needs[d] \subseteq complete

(* A procedure: the disclosure at hand, those to come, the rows it selected,  *)
(* what it evaluated, whether it has read the marker, and the files it read.  *)
Idle == [pc |-> "idle", d |-> None, todo |-> {}, rows |-> [d \in Discs |-> None],
         seen |-> {}, verdict |-> FALSE, read |-> FALSE, files |-> NoReport]

Procs == DOMAIN at
Is(p, pc) == p \in Procs /\ at[p].pc = pc
Active == {p \in Procs : at[p].pc # "idle"}
Handles(p, d) == at[p].d = d
Others(p, d) == {q \in Procs \ {p} : Handles(q, d)}

(* A procedure that deletes outputs or files clashes with any other at the     *)
(* same disclosure.                                                          *)
Deleting == {"deleteMarker", "deleteDone", "deleteReport", "withdraw"}
Clash(p, d, pc) ==
  IF \/ pc \in Deleting /\ Others(p, d) # {}
     \/ \E q \in Others(p, d) : at[q].pc \in Deleting
  THEN {d} ELSE {}

(* How p takes a disclosure up, goes on with it and leaves it for the next.   *)
Goes(p, frame) ==
  /\ at' = [at EXCEPT ![p] = frame]
  /\ disturbed' = disturbed \cup Clash(p, frame.d, frame.pc)
Goto(p, pc) == Goes(p, [at[p] EXCEPT !.pc = pc])

(* Mutant of NextRow: the disclosure at hand stays at hand.                   *)
NextRow_Keeps(p) == Goto(p, "pick")

NextRow(p) ==
  /\ at' = [at EXCEPT ![p] = [Idle EXCEPT !.pc = "pick", !.todo = at[p].todo \ {at[p].d},
                                          !.rows = at[p].rows, !.seen = at[p].seen]]
  /\ UNCHANGED disturbed

Begins(p, first, todo, seen) ==
  /\ Is(p, "idle")
  /\ Cardinality(Active) < MaxActive
  /\ at' = [at EXCEPT ![p] = [Idle EXCEPT !.pc = first, !.todo = todo, !.seen = seen,
               !.rows = IF p \in {"completion", "rebuild"} THEN meta ELSE @]]

-----------------------------------------------------------------------------
(* The jobs.  finished_at matters only in a DONE row.  That a job fails and is   *)
(* tried again is to these procedures the same as that it is given back.       *)
Stamps(st) == [j \in Jobs |-> IF st[j] = "DONE" THEN finished[j] ELSE "old"]

JobMoves(j) ==
  /\ \/ Job!Request(j) \/ Job!Take({j}) \/ Job!GiveBack(j) \/ Job!Vanish({j})
     \/ j \notin complete /\ status[j] # "RUNNING" /\ Job!Requeue(j)
  /\ closing' = IF j \in working' THEN closing ELSE [closing EXCEPT ![j] = None]
  /\ finished' = Stamps(status')
  /\ UNCHANGED <<registered, rows, outputs, at, history>>

(* A worker writes the file and, unless it dies, registers it.               *)
FileArrives(j) ==
  /\ Job!Gather(j)
  /\ registered' \in {registered, registered \cup {j}}
  /\ UNCHANGED <<finished, closing, rows, outputs, at, history>>

(* mark_job_done: finished_at is the start of its transaction, which others   *)
(* see when it commits.                                                      *)
JobDoneBegins(j) ==
  /\ j \in working /\ j \in complete \cup withdrawn
  /\ closing[j] = None
  /\ closing' = [closing EXCEPT ![j] = IF "incremental" \in Active THEN "new" ELSE "since"]
  /\ UNCHANGED <<status, working, complete, withdrawn, finished, registered, rows, outputs, at,
                 history>>

(* Without incremental passes there is nothing that they could pass over.      *)
Led(j) == IF "incremental" \in Procs THEN Leads[j] ELSE {}

(* What the next pass finds complete, with a job that leads to it.            *)
Found(j) == {d \in Led(j) : j \in Needs[d] /\ Present(d)}

(* Too late for a pass that has read the jobs already, or that is over.       *)
Late(j) ==
  \/ closing[j] = "old"
  \/ closing[j] = "since" /\ "incremental" \in Active /\ at["incremental"].pc # "select"

JobDoneCommits(j) ==
  /\ closing[j] # None
  /\ Job!Succeed(j)
  /\ finished' = [finished EXCEPT ![j] = closing[j]]
  /\ closing' = [closing EXCEPT ![j] = None]
  /\ passed_over' = IF Late(j) \/ j \notin complete THEN passed_over \cup Led(j)
                    ELSE passed_over \ Found(j)
  /\ UNCHANGED <<registered, rows, outputs, at, disturbed, slipped>>

(* upsert_disclosure on the disclosure or on another version of its group.    *)
(* Its stamps are the start of its transaction, which may lie before the end   *)
(* of a completion pass that did not see it yet; and a version that leaves the *)
(* group stamps none of the others (ChangesAreSeen of Disclosures).  (Bound:    *)
(* without incremental passes an upsert leaves the row's columns as they are.) *)
Upsert(d) ==
  /\ \E m \in Metas :
       /\ m = meta[d] \/ "incremental" \in Procs
       /\ meta' = [meta EXCEPT ![d] = m]
  /\ changed' \in {changed, changed \cup {d}}
  /\ slipped' = IF d \in changed' /\ \A p \in Procs : at[p].rows[d] = None
                THEN slipped \ {d} ELSE slipped \cup {d}
  /\ UNCHANGED <<jobs, outputs, at, passed_over, disturbed>>

-----------------------------------------------------------------------------
(* The steps that the procedures share.  Each writes or deletes one object.   *)

(* _complete_marker_current, but for the verdict.                            *)
MarkerCurrent(p) == marker[at[p].d] = at[p].rows[at[p].d]

WriteMarker(p, next) ==
  /\ marker' = [marker EXCEPT ![at[p].d] = at[p].rows[at[p].d]]
  /\ next
  /\ UNCHANGED <<jobs, rows, report, done, passed_over, slipped>>

ReadMarker(p) ==
  /\ Is(p, "readMarker")
  /\ IF marker[at[p].d] = None THEN NextRow(p)
     ELSE Goes(p, [at[p] EXCEPT !.read = TRUE,
                                !.pc = IF p = "rebuild" THEN "deleteDone" ELSE "readBronze"])
  /\ passed_over' = IF p = "incremental" /\ marker[at[p].d] = None
                    THEN passed_over \cup {at[p].d} ELSE passed_over
  /\ UNCHANGED <<jobs, rows, outputs, slipped>>

(* build_report_from_marker: a file that is not there is an empty section.    *)
ReadBronze(p) ==
  /\ Is(p, "readBronze")
  /\ at' = [at EXCEPT ![p].pc = "writeReport",
                      ![p].files = [j \in Jobs |-> IF j \in complete /\ j \in Needs[at[p].d]
                                                   THEN "current" ELSE "missing"]]
  /\ UNCHANGED <<jobs, rows, outputs, history>>

WriteReport(p) ==
  /\ Is(p, "writeReport")
  /\ report' = [report EXCEPT ![at[p].d] = at[p].files]
  /\ Goto(p, "writeDone")
  /\ UNCHANGED <<jobs, rows, marker, done, passed_over, slipped>>

WriteDone(p) ==
  /\ Is(p, "writeDone")
  /\ done' = done \cup {at[p].d}
  /\ NextRow(p)
  /\ passed_over' = passed_over \ {at[p].d}
  /\ UNCHANGED <<jobs, rows, marker, report, slipped>>

(* _delete_stale_silver_outputs and _delete_silver_outputs: complete marker,  *)
(* done marker, report.                                                      *)
DeleteMarker(p) ==
  /\ Is(p, "deleteMarker")
  /\ marker' = [marker EXCEPT ![at[p].d] = None]
  /\ Goto(p, "deleteDone")
  /\ UNCHANGED <<jobs, rows, report, done, passed_over, slipped>>

(* Mutant of DeleteDone: the done marker of the version is forgotten.         *)
DeleteDone_LegacyOnly(p) ==
  /\ Is(p, "deleteDone")
  /\ Goto(p, "deleteReport")
  /\ UNCHANGED <<jobs, rows, outputs, passed_over, slipped>>

DeleteDone(p) ==
  /\ Is(p, "deleteDone")
  /\ done' = done \ {at[p].d}
  /\ Goto(p, "deleteReport")
  /\ passed_over' = passed_over \cup {at[p].d}
  /\ UNCHANGED <<jobs, rows, marker, report, slipped>>

(* A material event's report lies under its subtype, where the deletion does  *)
(* not look.                                                                 *)
DeleteReport(p) ==
  /\ Is(p, "deleteReport")
  /\ report' \in {report, [report EXCEPT ![at[p].d] = NoReport]}
  /\ CASE p = "recollect" -> Goto(p, "withdraw")
       [] p = "rebuild" /\ at[p].read -> Goto(p, "readBronze")
       [] OTHER -> NextRow(p)
  /\ UNCHANGED <<jobs, rows, marker, done, passed_over, slipped>>

-----------------------------------------------------------------------------
(* run_silver_incremental                                                    *)

(* run_start: what is finished from now on is new.                            *)
IncrementalStarts == Begins("incremental", "select", {}, {}) /\ UNCHANGED <<jobs, rows, outputs, history>>

(* Mutant of Advanced: the watermark becomes the end of the pass.             *)
Advanced_ToTheEnd(stamp) == [j \in Jobs |-> IF stamp[j] = None THEN None ELSE "old"]

(* The watermark becomes run_start.                                          *)
Advanced(stamp) ==
  [j \in Jobs |-> CASE stamp[j] = "since" -> "old" [] stamp[j] = "new" -> "since"
                    [] OTHER -> stamp[j]]

(* It stays: the start of this pass no longer matters.                       *)
Kept(stamp) == [j \in Jobs |-> IF stamp[j] = "new" THEN "since" ELSE stamp[j]]

Selected == UNION {Led(j) : j \in {j \in Jobs : status[j] = "DONE" /\ finished[j] # "old"}}

(* The changed jobs and their disclosures' rows.                              *)
IncrementalSelects ==
  /\ Is("incremental", "select")
  /\ at' = [at EXCEPT !["incremental"].pc = "pick", !["incremental"].todo = Selected,
                      !["incremental"].rows = meta]
  /\ UNCHANGED <<jobs, rows, outputs, history>>

IncrementalEvaluates ==
  /\ Is("incremental", "evaluate")
  /\ at' = [at EXCEPT !["incremental"].pc = "decide",
                      !["incremental"].verdict = Present(at["incremental"].d)]
  /\ UNCHANGED <<jobs, rows, outputs, history>>

(* A current marker: nothing to do when the done marker is there too, only    *)
(* the report to build when it is not.  Otherwise the outputs of a disclosure *)
(* that is not complete go, and those of one that is are written anew.       *)
IncrementalDecides ==
  LET me == at["incremental"]
      d == me.d
      current == me.verdict /\ MarkerCurrent("incremental") IN
  /\ Is("incremental", "decide")
  /\ CASE current /\ d \in done -> NextRow("incremental")
       [] current /\ d \notin done ->
            Goto("incremental", "readBronze")
       [] ~current /\ me.verdict -> Goto("incremental", "writeMarker")
       [] OTHER -> IF marker[d] # None THEN Goto("incremental", "deleteMarker")
                                       ELSE NextRow("incremental")
  /\ UNCHANGED <<jobs, rows, outputs, passed_over, slipped>>

IncrementalWritesMarker ==
  /\ Is("incremental", "writeMarker")
  /\ WriteMarker("incremental", Goto("incremental", "readMarker"))

(* The end of the pass: all rows seen, or out of time.                        *)
IncrementalEnds ==
  /\ Is("incremental", "pick")
  /\ at["incremental"].todo = {}
  /\ at' = [at EXCEPT !["incremental"] = Idle]
  /\ finished' = Advanced(finished)
  /\ closing' = Advanced(closing)
  /\ UNCHANGED <<status, working, complete, withdrawn, registered, rows, outputs, history>>

IncrementalStopsEarly ==
  /\ Is("incremental", "pick")
  /\ at["incremental"].todo # {}
  /\ at' = [at EXCEPT !["incremental"] = Idle]
  /\ finished' = Kept(finished)
  /\ closing' = Kept(closing)
  /\ UNCHANGED <<status, working, complete, withdrawn, registered, rows, outputs, history>>

-----------------------------------------------------------------------------
(* run_bronze_completion                                                     *)

(* Mutant of CompletionStarts: whatever has a marker is left out.             *)
CompletionStarts_UnmarkedOnly ==
  /\ Begins("completion", "pick", {d \in Discs : marker[d] = None}, registered)
  /\ UNCHANGED <<jobs, rows, outputs, history>>

(* The rows, the list of markers and the registered files are read first: a   *)
(* disclosure with a marker whose row has not changed since the last pass is *)
(* left out.                                                                 *)
CompletionStarts ==
  /\ Begins("completion", "pick", {d \in Discs : marker[d] = None \/ d \in changed}, registered)
  /\ UNCHANGED <<jobs, rows, outputs, history>>

(* A file counts as present when its raw_file_reference row is there.         *)
CompletionEvaluates ==
  LET me == at["completion"]
      verdict == Needs[me.d] \subseteq me.seen \cup complete IN
  /\ Is("completion", "evaluate")
  /\ at' = [at EXCEPT !["completion"].pc = "decide", !["completion"].verdict = verdict]
  /\ disturbed' = IF verdict /\ ~Present(me.d) THEN disturbed \cup {me.d} ELSE disturbed
  /\ UNCHANGED <<jobs, rows, outputs, passed_over, slipped>>

CompletionDecides ==
  LET me == at["completion"] IN
  /\ Is("completion", "decide")
  /\ CASE me.verdict /\ MarkerCurrent("completion") -> NextRow("completion")
       [] me.verdict /\ ~MarkerCurrent("completion") -> Goto("completion", "writeMarker")
       [] OTHER -> IF marker[me.d] # None THEN Goto("completion", "deleteMarker")
                                          ELSE NextRow("completion")
  /\ UNCHANGED <<jobs, rows, outputs, passed_over, slipped>>

(* The done marker and the report of the old marker stay.                     *)
CompletionWritesMarker ==
  /\ Is("completion", "writeMarker")
  /\ WriteMarker("completion", NextRow("completion"))

(* bronze_completion_last_run_at becomes the end of the pass.                 *)
CompletionEnds ==
  /\ Is("completion", "pick")
  /\ at["completion"].todo = {}
  /\ at' = [at EXCEPT !["completion"] = Idle]
  /\ changed' = {}
  /\ UNCHANGED <<jobs, meta, outputs, history>>

-----------------------------------------------------------------------------
(* run_raw_to_silver                                                         *)
RawToSilverStarts ==
  /\ Begins("raw_to_silver", "pick", {d \in Discs : marker[d] # None} \ done, {})
  /\ UNCHANGED <<jobs, rows, outputs, history>>

(* run_silver_rebuild_targets: with rebuild_completion the marker comes first. *)
RebuildStarts(d) ==
  /\ Begins("rebuild", "pick", {d}, {})
  /\ UNCHANGED <<jobs, rows, outputs, history>>

RebuildEvaluates ==
  LET d == at["rebuild"].d IN
  /\ Is("rebuild", "evaluate")
  /\ Goto("rebuild", IF Present(d) THEN "writeMarker" ELSE "deleteMarker")
  /\ UNCHANGED <<jobs, rows, outputs, passed_over, slipped>>

RebuildWritesMarker ==
  /\ Is("rebuild", "writeMarker")
  /\ WriteMarker("rebuild", Goto("rebuild", "readMarker"))

-----------------------------------------------------------------------------
(* run_bronze_recollect_targets, and _invalidate_completion_for_repair at the *)
(* end of a replay.                                                          *)
InvalidationStarts(p, d) ==
  /\ p \in {"recollect", "replay"}
  /\ Begins(p, "pick", {d}, {})
  /\ UNCHANGED <<jobs, rows, outputs, history>>

(* The files of a job go (bound: one job of the disclosure), also for the     *)
(* other disclosures that need it.                                           *)
RecollectWithdraws(j) ==
  /\ Is("recollect", "withdraw")
  /\ j \in Needs[at["recollect"].d]
  /\ Job!Withdraw(j)
  /\ report' = [d \in Discs |-> Outdated(report[d], j)]
  /\ at' = [p \in Procs |->
              IF p = "recollect" THEN [at[p] EXCEPT !.pc = "requeue", !.seen = {j}]
              ELSE [at[p] EXCEPT !.files = Outdated(@, j)]]
  /\ disturbed' = disturbed \cup {d \in Discs \ {at["recollect"].d} : j \in Needs[d]}
  /\ passed_over' = passed_over \cup {d \in Discs : j \in Needs[d]}
  /\ UNCHANGED <<finished, closing, registered, rows, marker, done, slipped>>

(* The job is queued again; one that runs is left alone.                     *)
RecollectRequeues(j) ==
  /\ Is("recollect", "requeue")
  /\ j \in at["recollect"].seen
  /\ \/ /\ Job!Requeue(j)
        /\ finished' = Stamps(status')
     \/ /\ status[j] = "RUNNING"
        /\ UNCHANGED <<status, working, complete, withdrawn, finished>>
  /\ NextRow("recollect")
  /\ UNCHANGED <<closing, registered, rows, outputs, passed_over, slipped>>

-----------------------------------------------------------------------------
(* The first step of p with a disclosure.                                    *)
FirstSteps(p) ==
  CASE p \in {"incremental", "completion"} -> {"evaluate"}
    [] p = "raw_to_silver" -> {"readMarker"}
    [] p = "rebuild" -> {"evaluate", "readMarker"}
    [] OTHER -> {"deleteMarker"}

Picks(p, d) ==
  /\ Is(p, "pick")
  /\ d \in at[p].todo
  /\ \E pc \in FirstSteps(p) : Goes(p, [at[p] EXCEPT !.d = d, !.pc = pc])
  /\ UNCHANGED <<jobs, rows, outputs, passed_over, slipped>>

Ends(p) ==
  /\ p \notin {"incremental", "completion"}
  /\ Is(p, "pick") /\ at[p].todo = {}
  /\ at' = [at EXCEPT ![p] = Idle]
  /\ UNCHANGED <<jobs, rows, outputs, history>>

(* An exception with one disclosure: the pass goes on with the next one.      *)
RowFails(p) ==
  /\ p \in {"incremental", "completion", "raw_to_silver", "rebuild"} \cap Procs
  /\ at[p].d # None
  /\ NextRow(p)
  /\ passed_over' = IF p = "incremental" THEN passed_over \cup {at[p].d} ELSE passed_over
  /\ slipped' = IF p = "completion" THEN slipped \cup {at[p].d} ELSE slipped
  /\ UNCHANGED <<jobs, rows, outputs>>

(* The process dies; the watermark and the time of the last run stay.         *)
Dies(p) ==
  /\ p \in Active
  /\ at' = [at EXCEPT ![p] = Idle]
  /\ IF p = "incremental" THEN finished' = Kept(finished) /\ closing' = Kept(closing)
                          ELSE UNCHANGED <<finished, closing>>
  /\ UNCHANGED <<status, working, complete, withdrawn, registered, rows, outputs, history>>

-----------------------------------------------------------------------------
Init ==
  /\ Job!Init
  /\ finished = [j \in Jobs |-> "old"]
  /\ closing = [j \in Jobs |-> None]
  /\ registered = {}
  /\ meta \in [Discs -> Metas]
  /\ changed = Discs
  /\ marker = [d \in Discs |-> None]
  /\ report = [d \in Discs |-> NoReport]
  /\ done = {}
  /\ \E procs \in Schedules :
       at = [p \in procs |-> Idle]
  /\ passed_over = {} /\ disturbed = {} /\ slipped = {}

JobStep(j) == JobMoves(j) \/ FileArrives(j) \/ JobDoneBegins(j) \/ JobDoneCommits(j)

IncrementalStep ==
  \/ IncrementalStarts \/ IncrementalSelects \/ IncrementalEvaluates \/ IncrementalDecides
  \/ IncrementalWritesMarker \/ IncrementalEnds \/ IncrementalStopsEarly

CompletionStep ==
  \/ CompletionStarts \/ CompletionEvaluates \/ CompletionDecides \/ CompletionWritesMarker
  \/ CompletionEnds

OperatorStep ==
  \/ \E d \in Discs : RebuildStarts(d) \/ \E p \in AllProcs : InvalidationStarts(p, d)
  \/ RebuildEvaluates \/ RebuildWritesMarker
  \/ \E j \in Jobs : RecollectWithdraws(j) \/ RecollectRequeues(j)

SharedStep(p) ==
  \/ ReadMarker(p) \/ ReadBronze(p) \/ WriteReport(p) \/ WriteDone(p)
  \/ DeleteMarker(p) \/ DeleteDone(p) \/ DeleteReport(p)
  \/ \E d \in Discs : Picks(p, d)
  \/ Ends(p) \/ RowFails(p) \/ Dies(p)

Next ==
  \/ \E j \in Jobs : JobStep(j)
  \/ \E d \in Discs : Upsert(d)
  \/ IncrementalStep \/ CompletionStep \/ RawToSilverStarts \/ OperatorStep
  \/ \E p \in AllProcs : SharedStep(p)

Spec == Init /\ [][Next]_vars

-----------------------------------------------------------------------------
Stamp == {"old", "since", "new"}
FileState == {"missing", "current", "outdated"}
Point == {"idle", "select", "pick", "evaluate", "decide", "writeMarker", "readMarker",
          "readBronze", "writeReport", "writeDone", "deleteMarker", "deleteDone",
          "deleteReport", "withdraw", "requeue"}
Frame == [pc : Point, d : Discs \cup {None}, todo : SUBSET Discs,
          rows : [Discs -> Metas \cup {None}], seen : SUBSET Jobs, verdict : BOOLEAN,
          read : BOOLEAN, files : [Jobs -> FileState]]

(* Types.  A procedure has a disclosure at hand exactly between its picks.     *)
TypeOK ==
  /\ status \in [Jobs -> Job!Status]
  /\ working \subseteq Jobs /\ complete \subseteq Jobs /\ withdrawn \subseteq Jobs
  /\ finished \in [Jobs -> Stamp]
  /\ closing \in [Jobs -> Stamp \cup {None}]
  /\ registered \subseteq Jobs
  /\ meta \in [Discs -> Metas]
  /\ changed \subseteq Discs
  /\ marker \in [Discs -> Metas \cup {None}]
  /\ report \in [Discs -> [Jobs -> FileState]]
  /\ done \subseteq Discs
  /\ Procs \subseteq AllProcs /\ at \in [Procs -> Frame]
  /\ \A p \in Procs : at[p].d = None <=> at[p].pc \in {"idle", "select", "pick"}
  /\ passed_over \subseteq Discs /\ disturbed \subseteq Discs /\ slipped \subseteq Discs

(* A done report is there and was built from the files that are in Bronze now, *)
(* whichever procedures built it at the same time, died or were stopped, but   *)
(* for a disclosure whose files or outputs went while someone worked on it.   *)
ReportIsWhole == \A d \in done \ disturbed : Whole(d)

(* The watermark of the incremental pass: a disclosure that is complete with  *)
(* its jobs DONE and has no done marker is found by the next pass or is still  *)
(* ahead of the running one, but for those that failed, whose outputs were     *)
(* deleted, or whose job committed after a pass that started later.  (Each of  *)
(* its jobs must lead to it: one that does not, such as a structured file of    *)
(* its company when it is no longer among the recent disclosures, may be the    *)
(* last to arrive.)                                                          *)
NothingForgotten ==
  \A d \in Discs :
    (/\ Present(d)
     /\ \A j \in Needs[d] : status[j] = "DONE"
     /\ Needs[d] # {}
     /\ \A j \in Needs[d] : d \in Led(j))
    => \/ d \in done \cup passed_over
       \/ d \in Selected
       \/ d \in at["incremental"].todo

(* The completion pass leaves out a disclosure that has a marker and whose row *)
(* has not changed since the last pass.  It never leaves out a marker that     *)
(* does not copy its row, but for a row that changed while a procedure held an *)
(* older one or that failed in a pass: last_run_at is the end of the pass.     *)
MarkerFollowsRow ==
  \A d \in Discs : marker[d] \in {None, meta[d]} \/ d \in changed \cup slipped
=============================================================================
