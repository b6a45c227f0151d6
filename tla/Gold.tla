-------------------------------- MODULE Gold --------------------------------
(***************************************************************************)
(* The Gold layer: builds that turn Silver reports into Parquet files and    *)
(* mark them done, and the compaction that merges the files of a directory.   *)
(* Builders and the compaction run side by side without a lock.              *)
(*                                                                         *)
(* A file is named by its kind, the second its run started in and its batch;  *)
(* compacted-... sorts before part-..., and when two files of a directory     *)
(* hold a row, the one whose name sorts last counts.  The rows of a report in  *)
(* a directory stand for one row, with the id that the report gives it.       *)
(***************************************************************************)
EXTENDS FiniteSets, Integers

CONSTANTS
  Reports,    (* disclosures, numbered in the order (corp_code, rcept_no)      *)
  Stuck,      (* those whose report is missing, or fails its gate or its        *)
              (* transformation, each time it is read                         *)
  Textless,   (* those of which nothing is embedded: general disclosures, and   *)
              (* reports without a chunk that can be                          *)
  Builders,   (* the DAGs that build: "incremental", "backfill"                *)
  Limit,      (* reports that a run takes at most                             *)
  ChunkSize,  (* reports of a batch                                           *)
  Backlog,    (* reports that are in Silver when Gold begins                   *)
  MaxContent, (* bound: contents that the Silver report of a disclosure takes   *)
  MaxClock,   (* bound: seconds in which something starts                      *)
  MaxFaults   (* bound: interrupted runs and reports that fail once            *)

Modes == {"incremental", "backfill"}
Facts == "facts"
Dirs == {Facts} \cup Modes    (* of the embeddings, each mode has its own       *)

ASSUME GoldAssumption ==
  /\ Reports \subseteq Nat /\ IsFiniteSet(Reports)
  /\ Stuck \subseteq Reports /\ Textless \subseteq Reports
  /\ Builders \subseteq Modes
  /\ Limit \in Nat \ {0} /\ ChunkSize \in Nat \ {0}
  /\ MaxContent \in [Reports -> Nat] /\ MaxClock \in Nat /\ MaxFaults \in Nat

VARIABLES
  silver,     (* the content of each Silver report that is done; 0 is none      *)
  files,      (* the Parquet files: directory, name and rows                   *)
  done,       (* reports with a Gold done marker                              *)
  at,         (* the builders, see Idle                                       *)
  comp,       (* the compaction, see Resting                                  *)
  clock,      (* the second                                                   *)
  started,    (* what started in this second                                  *)
  faults,     (* number of faults so far                                      *)
  (* history                                                                 *)
  newest,     (* newest[dir][r]: the content of r last written to a part of dir *)
  shared,     (* reports that two runs had in hand at one time or in one        *)
              (* second, or whose file another run of the same second replaced *)
  torn        (* reports that an interrupted run had in hand                   *)

process == <<at, comp>>
time == <<clock, started>>
history == <<newest, shared, torn>>
vars == <<silver, files, done, process, time, faults, history>>

-----------------------------------------------------------------------------
NoRows == [r \in Reports |-> 0]
HeldIn(rows) == {r \in Reports : rows[r] # 0}

(* Of the rows of a batch, those that go to a directory.                      *)
RowsFor(dir, rows) ==
  [r \in Reports |-> IF dir # Facts /\ r \in Textless THEN 0 ELSE rows[r]]

(* A builder: its run, its batch, the reports to come, the rows of the batch,  *)
(* the directories to write; for the properties, what was pending and sound    *)
(* when it started and whether anything failed since.                        *)
Idle == [running |-> FALSE, run |-> 0, batch |-> 0, todo |-> {}, rows |-> NoRows,
         writes |-> {}, due |-> {}, clean |-> TRUE]

InHand(b) == at[b].todo \cup HeldIn(at[b].rows)

(* The compaction: its run, the names it listed and those that it merged and    *)
(* is to delete.                                                             *)
Resting == [pc |-> "idle", run |-> 0, listed |-> {}, delete |-> {}]

Name(dir, kind, run, batch) == [dir |-> dir, kind |-> kind, run |-> run, batch |-> batch]

Before(m, n) ==
  \/ m.kind = "compacted" /\ n.kind = "part"
  \/ m.kind = n.kind /\ (m.run < n.run \/ (m.run = n.run /\ m.batch < n.batch))

First(S) == CHOOSE n \in S : \A m \in S : m = n \/ Before(n, m)
Last(S) == CHOOSE n \in S : \A m \in S : m = n \/ Before(m, n)

RowsIn(n, r) == (CHOOSE f \in files : f.name = n).rows[r]
Holding(S, r) == {f.name : f \in {g \in files : g.name \in S /\ g.rows[r] # 0}}

(* The row of r that counts among the files S, in a merge, ...                 *)
Winner(S, r) == IF Holding(S, r) = {} THEN 0 ELSE RowsIn(Last(Holding(S, r)), r)

(* ... and among all the files of a directory, for its readers.                *)
Shown(dir, r) ==
  LET held == {f \in files : f.name.dir = dir /\ f.rows[r] # 0}
  IN IF held = {} THEN 0
     ELSE (CHOOSE f \in held : \A g \in held : g = f \/ Before(g.name, f.name)).rows[r]

FirstOf(S, n) == {r \in S : Cardinality({q \in S : q < r}) < n}

-----------------------------------------------------------------------------
(* Silver writes or rewrites a report.                                       *)
SilverWrites(r) ==
  /\ silver[r] < MaxContent[r]
  /\ silver' = [silver EXCEPT ![r] = @ + 1]
  /\ UNCHANGED <<files, done, process, time, faults, history>>

Tick ==
  /\ clock < MaxClock
  /\ started # {}
  /\ clock' = clock + 1
  /\ started' = {}
  /\ UNCHANGED <<silver, files, done, process, faults, history>>

StartsNow(who) ==
  /\ who \notin started
  /\ started' = started \cup {who}
  /\ UNCHANGED clock

Pending == {r \in Reports : silver[r] # 0} \ done

(* For the history: reports of the files that runs of this second have written. *)
WrittenNow ==
  UNION {HeldIn(f.rows) : f \in {g \in files : g.name.kind = "part" /\ g.name.run = clock}}

(* Mutants of Targets: the limit is applied before the done reports are taken  *)
(* out; the done reports are not taken out.                                  *)
Targets_LimitFirst == FirstOf({r \in Reports : silver[r] # 0}, Limit) \ done
Targets_All == FirstOf({r \in Reports : silver[r] # 0}, Limit)

(* _scan_pending_targets.                                                    *)
Targets == FirstOf(Pending, Limit)

StartBuild(b) ==
  /\ ~at[b].running
  /\ StartsNow(b)
  /\ at' = [at EXCEPT ![b] = [Idle EXCEPT !.running = TRUE, !.run = clock, !.todo = Targets,
                                         !.due = Pending \ Stuck]]
  /\ shared' = shared \cup (Targets \cap (WrittenNow
                                        \cup UNION {InHand(c) : c \in Builders \ {b}}))
  /\ UNCHANGED <<silver, files, done, comp, clock, faults, newest, torn>>

(* The next batch: each of its reports is read and transformed, or passed over *)
(* without a marker.                                                         *)
ReadChunk(b, failing) ==
  LET chunk == FirstOf(at[b].todo, ChunkSize)
  IN
  /\ at[b].running
  /\ HeldIn(at[b].rows) = {}
  /\ at[b].todo # {}
  /\ failing \subseteq chunk \ Stuck
  /\ faults + Cardinality(failing) <= MaxFaults
  /\ faults' = faults + Cardinality(failing)
  /\ LET rows == [r \in Reports |-> IF r \in chunk \ (Stuck \cup failing) THEN silver[r] ELSE 0]
         mine == [at[b] EXCEPT !.batch = @ + 1, !.todo = @ \ chunk, !.rows = rows,
                    !.writes = {dir \in {Facts, b} : HeldIn(RowsFor(dir, rows)) # {}},
                    !.clean = @ /\ failing = {}]
     IN at' = [at EXCEPT ![b] = mine]
  /\ UNCHANGED <<silver, files, done, comp, time, history>>

(* Mutant of WriteFile: a file of that name stays.                            *)
WriteFile_Adds(b, dir) ==
  LET name == Name(dir, "part", at[b].run, at[b].batch)
      rows == RowsFor(dir, at[b].rows)
  IN
  /\ dir \in at[b].writes
  /\ dir = Facts \/ Facts \notin at[b].writes
  /\ files' = files \cup {[name |-> name, rows |-> rows]}
  /\ newest' = [newest EXCEPT ![dir] =
       [r \in Reports |-> IF rows[r] # 0 THEN rows[r] ELSE @[r]]]
  /\ at' = [at EXCEPT ![b].writes = @ \ {dir}]
  /\ UNCHANGED <<silver, done, comp, time, faults, shared, torn>>

(* flush_parquet, then flush_embeddings_parquet, which writes no file when      *)
(* there is nothing to embed.  A file of that name, left by another run of the  *)
(* same second, is replaced.                                                 *)
WriteFile(b, dir) ==
  LET name == Name(dir, "part", at[b].run, at[b].batch)
      rows == RowsFor(dir, at[b].rows)
      replaced == {f \in files : f.name = name}
  IN
  /\ dir \in at[b].writes
  /\ dir = Facts \/ Facts \notin at[b].writes
  /\ files' = (files \ replaced) \cup {[name |-> name, rows |-> rows]}
  /\ newest' = [newest EXCEPT ![dir] =
       [r \in Reports |-> IF rows[r] # 0 THEN rows[r] ELSE @[r]]]
  /\ shared' = IF replaced = {} THEN shared
               ELSE shared \cup HeldIn(rows) \cup UNION {HeldIn(f.rows) : f \in replaced}
  /\ at' = [at EXCEPT ![b].writes = @ \ {dir}]
  /\ UNCHANGED <<silver, done, comp, time, faults, torn>>

(* Mutant of MarkDone: the reports are marked before the embeddings are there.  *)
MarkDone_Early(b, r) ==
  /\ Facts \notin at[b].writes
  /\ FirstOf(HeldIn(at[b].rows), 1) = {r}
  /\ done' = done \cup {r}
  /\ at' = [at EXCEPT ![b].rows[r] = 0]
  /\ UNCHANGED <<silver, files, comp, time, faults, history>>

(* The done markers of the batch, one by one.                                 *)
MarkDone(b, r) ==
  /\ at[b].writes = {}
  /\ FirstOf(HeldIn(at[b].rows), 1) = {r}
  /\ done' = done \cup {r}
  /\ at' = [at EXCEPT ![b].rows[r] = 0]
  /\ UNCHANGED <<silver, files, comp, time, faults, history>>

(* A run ends with its last batch, that of the incremental DAG also when its   *)
(* time is over.                                                             *)
EndBuild(b) ==
  /\ at[b].running
  /\ HeldIn(at[b].rows) = {}
  /\ at[b].todo = {} \/ (b = "incremental" /\ at[b].batch > 0)
  /\ at' = [at EXCEPT ![b] = Idle]
  /\ UNCHANGED <<silver, files, done, comp, time, faults, history>>

(* The run fails in a write, or its process ends.                             *)
CrashBuild(b) ==
  /\ at[b].running
  /\ faults < MaxFaults
  /\ faults' = faults + 1
  /\ torn' = torn \cup HeldIn(at[b].rows)
  /\ at' = [at EXCEPT ![b] = Idle]
  /\ UNCHANGED <<silver, files, done, comp, time, newest, shared>>

-----------------------------------------------------------------------------
(* run_gold_compaction: every name is listed at the start, ...                *)
StartCompaction ==
  /\ comp.pc = "idle"
  /\ StartsNow("compaction")
  /\ comp' = [Resting EXCEPT !.pc = "merge", !.run = clock, !.listed = {f.name : f \in files}]
  /\ UNCHANGED <<silver, files, done, at, clock, faults, history>>

Listed(dir) == {n \in comp.listed : n.dir = dir}
ToMerge == {dir \in Dirs : Cardinality(Listed(dir)) >= 2}

(* Mutant of Merged: the row of the first file is kept.                       *)
Merged_KeepFirst(names) ==
  [r \in Reports |-> IF Holding(names, r) = {} THEN 0 ELSE RowsIn(First(Holding(names, r)), r)]

Merged(names) == [r \in Reports |-> Winner(names, r)]

(* ... the files of a directory are read, and merged into one, in which the      *)
(* last of each row is kept (between the reads and the write only a build of   *)
(* the same second could change them, and it loses what it writes either way), *)
(* ...                                                                       *)
MergeDir(dir) ==
  /\ comp.pc = "merge"
  /\ dir \in ToMerge
  /\ files' = files \cup {[name |-> Name(dir, "compacted", comp.run, 0),
                           rows |-> Merged(Listed(dir))]}
  /\ comp' = [comp EXCEPT !.pc = "delete", !.delete = Listed(dir), !.listed = @ \ Listed(dir)]
  /\ UNCHANGED <<silver, done, at, time, faults, history>>

(* Mutant of ToDelete: the files are deleted from the last to the first.       *)
ToDelete_Last == Last(comp.delete)

ToDelete == First(comp.delete)

(* ... and the files that were listed are deleted in the order of their names. *)
DeleteMerged ==
  /\ comp.pc = "delete"
  /\ files' = {f \in files : f.name # ToDelete}
  /\ comp' = IF comp.delete = {ToDelete}
             THEN [comp EXCEPT !.pc = "merge", !.delete = {}]
             ELSE [comp EXCEPT !.delete = @ \ {ToDelete}]
  /\ UNCHANGED <<silver, done, at, time, faults, history>>

EndCompaction ==
  /\ comp.pc = "merge"
  /\ ToMerge = {}
  /\ comp' = Resting
  /\ UNCHANGED <<silver, files, done, at, time, faults, history>>

CrashCompaction ==
  /\ comp.pc # "idle"
  /\ faults < MaxFaults
  /\ faults' = faults + 1
  /\ torn' = torn \cup (IF comp.pc = "delete"
                        THEN UNION {HeldIn(f.rows) : f \in {g \in files : g.name \in comp.delete}}
                        ELSE {})
  /\ comp' = Resting
  /\ UNCHANGED <<silver, files, done, at, time, newest, shared>>

-----------------------------------------------------------------------------
Init ==
  /\ silver = [r \in Reports |-> IF r \in Backlog THEN 1 ELSE 0]
  /\ files = {}
  /\ done = {}
  /\ at = [b \in Builders |-> Idle]
  /\ comp = Resting
  /\ clock = 0 /\ started = {} /\ faults = 0
  /\ newest = [dir \in Dirs |-> NoRows]
  /\ shared = {} /\ torn = {}

BuildStep(b) ==
  \/ StartBuild(b)
  \/ \E failing \in SUBSET Reports : ReadChunk(b, failing)
  \/ \E dir \in Dirs : WriteFile(b, dir)
  \/ \E r \in Reports : MarkDone(b, r)
  \/ EndBuild(b) \/ CrashBuild(b)

CompactionStep ==
  \/ StartCompaction
  \/ \E dir \in Dirs : MergeDir(dir)
  \/ DeleteMerged \/ EndCompaction \/ CrashCompaction

Next ==
  \/ \E r \in Reports : SilverWrites(r)
  \/ Tick
  \/ \E b \in Builders : BuildStep(b)
  \/ CompactionStep

Spec == Init /\ [][Next]_vars

-----------------------------------------------------------------------------
RowsType == [Reports -> Nat]
NameType == [dir : Dirs, kind : {"part", "compacted"}, run : Nat, batch : Nat]
CompType ==
  [pc : {"idle", "merge", "delete"}, run : Nat, listed : SUBSET NameType, delete : SUBSET NameType]
BuilderType ==
  [running : BOOLEAN, run : Nat, batch : Nat,
   todo : SUBSET Reports, rows : RowsType, writes : SUBSET Dirs, due : SUBSET Reports,
   clean : BOOLEAN]

(* Types, and no two files have one name.                                     *)
TypeOK ==
  /\ silver \in RowsType
  /\ \A f \in files : f.name \in NameType /\ f.rows \in RowsType
  /\ \A f, g \in files : f.name = g.name => f = g
  /\ done \subseteq Reports
  /\ at \in [Builders -> BuilderType]
  /\ comp \in CompType
  /\ clock \in 0 .. MaxClock /\ started \subseteq Modes \cup {"compaction"}
  /\ faults \in 0 .. MaxFaults
  /\ newest \in [Dirs -> RowsType]
  /\ shared \subseteq Reports /\ torn \subseteq Reports

(* build.py: a marker exists only where the output does.  So it is, whatever    *)
(* is interrupted and however the compaction comes between, and facts and        *)
(* embeddings are of one version, unless two builds contended for the report.   *)
(* A report of which nothing is embedded has its facts.  (Implied by            *)
(* FollowsLayer.)                                                             *)
MarkedIsStored ==
  \A r \in done \ shared :
    /\ Shown(Facts, r) # 0
    /\ r \in Textless \/ \E b \in Builders : Shown(b, r) = Shown(Facts, r)

(* The row of a report that counts is the one written last: neither a merge    *)
(* nor one that stops among its deletions brings an older row back, and none    *)
(* is lost.                                                                  *)
NewestKept ==
  \A dir \in Dirs, r \in Reports \ shared : Shown(dir, r) = newest[dir][r]

(* A row is in two files of a directory only while the compaction deletes the  *)
(* files it merged, or after something was interrupted.                       *)
OnceUnlessInterrupted ==
  \A f, g \in files :
    (f # g /\ f.name.dir = g.name.dir)
    => \/ HeldIn(f.rows) \cap HeldIn(g.rows) \subseteq shared \cup torn
       \/ comp.pc = "delete" /\ {f.name, g.name} \cap comp.delete # {}

(* A run in which nothing fails and that its time does not end builds at least  *)
(* one of the sound reports that were pending, unless Limit or more of the      *)
(* pending ones are stuck: what is done does not use up the limit.             *)
CleanRunBuilds ==
  [][\A b \in Builders :
       (EndBuild(b) /\ at[b].todo = {} /\ at[b].clean /\ at[b].due # {}
        /\ Cardinality(Stuck) < Limit)
       => at[b].due \cap done # {}]_vars

(* What a reader finds, of the reports that the builds did not contend for.     *)
Read ==
  [dir \in {Facts} \cup Builders |->
     [r \in Reports |-> IF r \in shared THEN 0 ELSE Shown(dir, r)]]

Layer == INSTANCE GoldLayer WITH
  report <- silver, row <- Read, marked <- done \ shared, contended <- shared

(* Builds, their interruptions and the compaction are, to a reader, the steps    *)
(* of the layer: facts and embeddings of a report appear in this order and of   *)
(* one version, versions do not go back, a marked report stays as it is, a      *)
(* compaction shows nothing while it merges and deletes or where it stops, and  *)
(* without a second builder nothing is lost to contention.  (This is Layer!Spec; *)
(* most steps are unseen, and TLC need not look for a step of the layer then.)  *)
Unseen == UNCHANGED <<silver, files, done, shared>>

FollowsLayer == Layer!Init /\ [][Unseen \/ Layer!Next]_(Layer!vars)
=============================================================================
