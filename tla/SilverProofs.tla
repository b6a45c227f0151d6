---------------------------- MODULE SilverProofs ----------------------------
(***************************************************************************)
(* Theorems about Silver for every set of disclosures and jobs, every         *)
(* relation between them, every schedule of procedures and any number of     *)
(* them under way at the same time.                                          *)
(***************************************************************************)
EXTENDS Silver, TLAPS

(* Types ------------------------------------------------------------------ *)
Between == {"idle", "select", "pick"}
Shaped(f) == f \in Frame /\ (f.d = None <=> f.pc \in Between)

JobsOK ==
  /\ status \in [Jobs -> Job!Status]
  /\ working \subseteq Jobs /\ complete \subseteq Jobs /\ withdrawn \subseteq Jobs
  /\ finished \in [Jobs -> Stamp]
  /\ closing \in [Jobs -> Stamp \cup {None}]
  /\ registered \subseteq Jobs

RowsOK == meta \in [Discs -> Metas] /\ changed \subseteq Discs

OutputsOK ==
  /\ marker \in [Discs -> Metas \cup {None}]
  /\ report \in [Discs -> [Jobs -> FileState]]
  /\ done \subseteq Discs

AtOK ==
  /\ Procs \subseteq AllProcs
  /\ at \in [Procs -> Frame]
  /\ \A p \in Procs : Shaped(at[p])

HistoryOK == passed_over \subseteq Discs /\ disturbed \subseteq Discs /\ slipped \subseteq Discs

LEMMA TypeParts == TypeOK <=> JobsOK /\ RowsOK /\ OutputsOK /\ AtOK /\ HistoryOK
BY DEF TypeOK, JobsOK, RowsOK, OutputsOK, AtOK, HistoryOK, Shaped, Between

LEMMA TypePartsNext == TypeOK' <=> JobsOK' /\ RowsOK' /\ OutputsOK' /\ AtOK' /\ HistoryOK'
BY DEF TypeOK, JobsOK, RowsOK, OutputsOK, AtOK, HistoryOK, Shaped, Between

(* A procedure moves: its frame becomes f.                                   *)
Moves(p, f) == at' = [at EXCEPT ![p] = f]

LEMMA MoveEffect ==
  ASSUME AtOK, NEW p \in Procs, NEW f, Shaped(f), Moves(p, f)
  PROVE  /\ AtOK' /\ Procs' = Procs
         /\ at'[p] = f
         /\ \A q \in Procs : q # p => at'[q] = at[q]
BY DEF AtOK, Moves, Procs, Shaped

(* The frames that a procedure passes through.                               *)
LEMMA FrameFields ==
  ASSUME AtOK, NEW p \in Procs
  PROVE  /\ at[p] \in Frame /\ Shaped(at[p]) /\ p \in AllProcs
         /\ at[p].pc \in Point /\ at[p].d \in Discs \cup {None} /\ at[p].todo \in SUBSET Discs
         /\ at[p].rows \in [Discs -> Metas \cup {None}] /\ at[p].seen \in SUBSET Jobs
         /\ at[p].verdict \in BOOLEAN /\ at[p].read \in BOOLEAN
         /\ at[p].files \in [Jobs -> FileState]
BY DEF AtOK, Shaped, Frame

LEMMA IdleShaped == Shaped(Idle)
BY DEF Idle, Shaped, Frame, Point, Between, NoReport, FileState

(* All procedures but p stay where they are.                                  *)
Alone(p) == Procs' = Procs /\ \A q \in Procs : q # p => at'[q] = at[q]

(* Where p goes on, all else stays as it is.                                 *)
Went(p, pc) ==
  /\ AtOK' /\ Alone(p)
  /\ at'[p].pc = pc
  /\ at'[p].d = at[p].d /\ at'[p].todo = at[p].todo /\ at'[p].rows = at[p].rows
  /\ at'[p].verdict = at[p].verdict /\ at'[p].read = at[p].read /\ at'[p].files = at[p].files

(* Where it takes up the next row.                                            *)
Turned(p) ==
  /\ AtOK' /\ Alone(p)
  /\ at'[p].pc = "pick" /\ at'[p].d = None /\ ~at'[p].read
  /\ at'[p].todo = at[p].todo \ {at[p].d} /\ at'[p].rows = at[p].rows

LEMMA GotoEffect ==
  ASSUME AtOK, NEW p \in Procs, at[p].d # None, NEW pc \in Point \ Between, Goto(p, pc)
  PROVE  Went(p, pc) /\ disturbed' = disturbed \cup Clash(p, at[p].d, pc)
<1>. DEFINE f == [at[p] EXCEPT !.pc = pc]
<1>1. /\ Shaped(f) /\ f.pc = pc
      /\ f.d = at[p].d /\ f.todo = at[p].todo /\ f.rows = at[p].rows
      /\ f.verdict = at[p].verdict /\ f.read = at[p].read
      /\ f.files = at[p].files
  BY FrameFields DEF Frame, Shaped
<1>2. Moves(p, f) /\ disturbed' = disturbed \cup Clash(p, f.d, f.pc)
  BY DEF Goto, Goes, Moves
<1>. HIDE DEF f
<1>. QED
  BY <1>1, <1>2, MoveEffect DEF Went, Alone

LEMMA NextRowEffect ==
  ASSUME AtOK, NEW p \in Procs, NextRow(p)
  PROVE  Turned(p) /\ disturbed' = disturbed
<1>. DEFINE f == [Idle EXCEPT !.pc = "pick", !.todo = at[p].todo \ {at[p].d},
                             !.rows = at[p].rows, !.seen = at[p].seen]
<1>1. /\ Shaped(f) /\ f.pc = "pick" /\ f.d = None /\ ~f.read
      /\ f.todo = at[p].todo \ {at[p].d} /\ f.rows = at[p].rows
  BY FrameFields DEF Frame, Shaped, Idle, Point, Between, NoReport, FileState
<1>2. Moves(p, f) /\ disturbed' = disturbed
  BY DEF NextRow, Moves
<1>. HIDE DEF f
<1>. QED
  BY <1>1, <1>2, MoveEffect DEF Turned, Alone

(* Where it starts, and where it ends or dies.                                *)
Started(p, first, todo) ==
  /\ p \in Procs /\ at[p].pc = "idle"
  /\ AtOK' /\ Alone(p)
  /\ at'[p].pc = first /\ at'[p].d = None /\ ~at'[p].read /\ at'[p].todo = todo
  /\ at'[p].rows = IF p \in {"completion", "rebuild"} THEN meta ELSE [d \in Discs |-> None]

LEMMA BeginsEffect ==
  ASSUME AtOK, RowsOK, NEW p, NEW first \in {"pick", "select"}, NEW todo \in SUBSET Discs,
         NEW seen \in SUBSET Jobs, Begins(p, first, todo, seen)
  PROVE  Started(p, first, todo)
<1>. DEFINE f == [Idle EXCEPT !.pc = first, !.todo = todo, !.seen = seen,
               !.rows = IF p \in {"completion", "rebuild"} THEN meta ELSE @]
<1>1. /\ Shaped(f) /\ f.pc = first /\ f.d = None
      /\ f.todo = todo /\ ~f.read
      /\ f.rows = IF p \in {"completion", "rebuild"} THEN meta ELSE [d \in Discs |-> None]
  BY DEF RowsOK, Frame, Shaped, Idle, Point, Between, NoReport, FileState
<1>2. p \in Procs /\ at[p].pc = "idle" /\ Moves(p, f)
  BY DEF Begins, Moves, Is
<1>. HIDE DEF f
<1>. QED
  BY <1>1, <1>2, MoveEffect DEF Started, Alone

Stopped(p) == AtOK' /\ Alone(p) /\ at'[p] = Idle

LEMMA StopEffect ==
  ASSUME AtOK, NEW p \in Procs, at' = [at EXCEPT ![p] = Idle]
  PROVE  Stopped(p)
BY IdleShaped, MoveEffect DEF Moves, Stopped, Alone

(* Where it has read something, the clash apart.                              *)
LEMMA EvaluateEffect ==
  ASSUME AtOK, NEW p \in Procs, at[p].d # None, NEW v \in BOOLEAN,
         at' = [at EXCEPT ![p].pc = "decide", ![p].verdict = v]
  PROVE  /\ AtOK' /\ Alone(p)
         /\ at'[p].pc = "decide" /\ at'[p].verdict = v
         /\ at'[p].d = at[p].d /\ at'[p].todo = at[p].todo /\ at'[p].rows = at[p].rows
         /\ at'[p].read = at[p].read
<1>. DEFINE f == [at[p] EXCEPT !.pc = "decide", !.verdict = v]
<1>1. /\ Shaped(f) /\ f.pc = "decide" /\ f.verdict = v
      /\ f.d = at[p].d /\ f.todo = at[p].todo /\ f.rows = at[p].rows
      /\ f.read = at[p].read
  <2>1. "decide" \in Point
    BY DEF Point
  <2>2. /\ f \in Frame /\ f.pc = "decide" /\ f.verdict = v
        /\ f.d = at[p].d /\ f.todo = at[p].todo /\ f.rows = at[p].rows
        /\ f.read = at[p].read
    BY <2>1, FrameFields DEF Frame
  <2>. QED
    BY <2>2 DEF Shaped, Between
<1>2. Moves(p, f)
  BY DEF AtOK, Moves
<1>. HIDE DEF f
<1>. QED
  BY <1>1, <1>2, MoveEffect DEF Alone

Read(p) == [j \in Jobs |-> IF j \in complete /\ j \in Needs[at[p].d] THEN "current" ELSE "missing"]

LEMMA ReadBronzeEffect ==
  ASSUME AtOK, NEW p \in Procs, ReadBronze(p)
  PROVE  /\ AtOK' /\ Alone(p)
         /\ at'[p].pc = "writeReport" /\ at'[p].files = Read(p)
         /\ at'[p].d = at[p].d /\ at'[p].todo = at[p].todo /\ at'[p].rows = at[p].rows
         /\ at'[p].read = at[p].read
<1>. DEFINE f == [at[p] EXCEPT !.pc = "writeReport", !.files = Read(p)]
<1>1. Read(p) \in [Jobs -> FileState] /\ at[p].pc = "readBronze"
  BY DEF Read, FileState, ReadBronze, Is
<1>2. /\ Shaped(f) /\ f.pc = "writeReport" /\ f.files = Read(p)
      /\ f.d = at[p].d /\ f.todo = at[p].todo /\ f.rows = at[p].rows
      /\ f.read = at[p].read
  BY <1>1, FrameFields DEF Frame, Shaped, Point, Between
<1>3. Moves(p, f)
  BY DEF AtOK, Moves, ReadBronze, Read
<1>. HIDE DEF f
<1>. QED
  BY <1>2, <1>3, MoveEffect DEF Alone

LEMMA SelectEffect ==
  ASSUME AtOK, RowsOK, IncrementalSelects
  PROVE  LET p == "incremental" IN
         /\ p \in Procs /\ AtOK' /\ Alone(p)
         /\ at[p].pc = "select" /\ at'[p].pc = "pick" /\ at'[p].todo = Selected
         /\ at'[p].d = at[p].d /\ at'[p].rows = meta /\ at'[p].read = at[p].read
<1>. DEFINE p == "incremental"
            f == [at[p] EXCEPT !.pc = "pick", !.todo = Selected, !.rows = meta]
<1>1. Selected \in SUBSET Discs
  BY SilverAssumption DEF Selected, Led
<1>2. p \in Procs /\ at[p].pc = "select"
  BY DEF IncrementalSelects, Is
<1>3. /\ Shaped(f) /\ f.pc = "pick" /\ f.todo = Selected
      /\ f.d = at[p].d /\ f.rows = meta /\ f.read = at[p].read
  <2>1. /\ f \in Frame /\ f.pc = "pick" /\ f.todo = Selected
        /\ f.d = at[p].d /\ f.rows = meta /\ f.read = at[p].read
    <3>1. "pick" \in Point
      BY DEF Point
    <3>. QED
      BY <3>1, <1>1, <1>2, FrameFields DEF Frame, RowsOK
  <2>2. at[p].d = None
    BY <1>2, FrameFields DEF Shaped, Between
  <2>. QED
    BY <2>1, <2>2 DEF Shaped, Between
<1>4. Moves(p, f)
  BY <1>2 DEF AtOK, Moves, IncrementalSelects
<1>. HIDE DEF f
<1>. QED
  BY <1>2, <1>3, <1>4, MoveEffect DEF Alone

LEMMA PicksEffect ==
  ASSUME AtOK, NEW p \in Procs, NEW d \in Discs, Picks(p, d)
  PROVE  /\ AtOK' /\ Alone(p)
         /\ at[p].pc = "pick" /\ at[p].d = None /\ d \in at[p].todo
         /\ at'[p].pc \in FirstSteps(p) /\ at'[p].d = d
         /\ at'[p].todo = at[p].todo /\ at'[p].rows = at[p].rows /\ at'[p].read = at[p].read
         /\ disturbed' = disturbed \cup Clash(p, d, at'[p].pc)
<1>1. PICK pc \in FirstSteps(p) : Goes(p, [at[p] EXCEPT !.d = d, !.pc = pc])
  BY DEF Picks
<1>. DEFINE f == [at[p] EXCEPT !.d = d, !.pc = pc]
<1>2. pc \in Point \ Between /\ d # None
  BY SilverAssumption DEF FirstSteps, Point, Between
<1>3. /\ Shaped(f) /\ f.pc = pc /\ f.d = d
      /\ f.todo = at[p].todo /\ f.rows = at[p].rows /\ f.read = at[p].read
  BY <1>2, FrameFields DEF Frame, Shaped
<1>4. Moves(p, f) /\ disturbed' = disturbed \cup Clash(p, f.d, f.pc)
  BY <1>1 DEF Goes, Moves
<1>5. at[p].pc = "pick" /\ at[p].d = None /\ d \in at[p].todo
  BY FrameFields DEF Picks, Is, Shaped, Between
<1>. HIDE DEF f
<1>. QED
  BY <1>1, <1>3, <1>4, <1>5, MoveEffect DEF Alone

LEMMA WithdrawEffect ==
  ASSUME AtOK, NEW j \in Jobs, RecollectWithdraws(j)
  PROVE  /\ "recollect" \in Procs /\ at["recollect"].pc = "withdraw" /\ at["recollect"].d \in Discs
         /\ AtOK' /\ Procs' = Procs
         /\ at'["recollect"].pc = "requeue" /\ at'["recollect"].files = at["recollect"].files
         /\ \A q \in Procs : /\ q # "recollect" => /\ at'[q].pc = at[q].pc
                                                  /\ at'[q].files = Outdated(at[q].files, j)
                            /\ at'[q].d = at[q].d /\ at'[q].todo = at[q].todo
                            /\ at'[q].rows = at[q].rows /\ at'[q].verdict = at[q].verdict
                            /\ at'[q].read = at[q].read
<1>1. "recollect" \in Procs /\ at["recollect"].pc = "withdraw"
  BY DEF RecollectWithdraws, Is
<1>2. at["recollect"].d \in Discs
  BY <1>1, FrameFields DEF Shaped, Between
<1>. DEFINE f(q) == IF q = "recollect" THEN [at[q] EXCEPT !.pc = "requeue", !.seen = {j}]
                    ELSE [at[q] EXCEPT !.files = Outdated(@, j)]
<1>3. at' = [q \in Procs |-> f(q)]
  BY DEF RecollectWithdraws
<1>4. ASSUME NEW q \in Procs
      PROVE  /\ Shaped(f(q))
             /\ q # "recollect" => f(q).pc = at[q].pc /\ f(q).files = Outdated(at[q].files, j)
             /\ q = "recollect" => f(q).pc = "requeue" /\ f(q).files = at[q].files
             /\ f(q).d = at[q].d /\ f(q).todo = at[q].todo /\ f(q).rows = at[q].rows
             /\ f(q).verdict = at[q].verdict /\ f(q).read = at[q].read
  <2>1. Outdated(at[q].files, j) \in [Jobs -> FileState]
    BY FrameFields DEF Outdated, FileState
  <2>2. CASE q = "recollect"
    <3>1. /\ f(q) \in Frame /\ f(q).pc = "requeue" /\ f(q).files = at[q].files
          /\ f(q).d = at[q].d /\ f(q).todo = at[q].todo /\ f(q).rows = at[q].rows
          /\ f(q).verdict = at[q].verdict /\ f(q).read = at[q].read
      <4>1. "requeue" \in Point
        BY DEF Point
      <4>. QED
        BY <4>1, <2>2, FrameFields DEF Frame
    <3>. HIDE DEF f
    <3>. QED
      BY <3>1, <1>1, <2>2, FrameFields DEF Shaped, Between
  <2>3. CASE q # "recollect"
    BY <2>1, <2>3, FrameFields DEF Frame, Shaped
  <2>. QED
    BY <2>2, <2>3
<1>. HIDE DEF f
<1>5. Procs' = Procs /\ \A q \in Procs : at'[q] = f(q)
  BY <1>3 DEF Procs
<1>6. AtOK'
  BY <1>3, <1>4, <1>5 DEF AtOK, Shaped
<1>. QED
  BY <1>1, <1>2, <1>4, <1>5, <1>6

(* The actions ------------------------------------------------------------ *)

(* p is at a disclosure, with the step pc to do.                              *)
Busy(p, pc) == p \in Procs /\ at[p].pc = pc /\ at[p].d \in Discs /\ at[p].d # None

LEMMA AtHand ==
  ASSUME AtOK, NEW p, NEW pc \in Point \ Between, Is(p, pc)
  PROVE  Busy(p, pc)
BY FrameFields DEF Is, Shaped, Busy

LEMMA AtRest ==
  ASSUME AtOK, NEW p, NEW pc \in Between, Is(p, pc)
  PROVE  p \in Procs /\ at[p].pc = pc /\ at[p].d = None
BY FrameFields DEF Is, Shaped

LEMMA ReadMarkerDoes ==
  ASSUME AtOK, NEW p, ReadMarker(p)
  PROVE  /\ Busy(p, "readMarker") /\ AtOK' /\ Alone(p)
         /\ at'[p].todo \in {at[p].todo, at[p].todo \ {at[p].d}} /\ at'[p].rows = at[p].rows
         /\ \/ /\ marker[at[p].d] = None /\ Turned(p) /\ disturbed' = disturbed
            \/ /\ marker[at[p].d] # None
               /\ at'[p].d = at[p].d /\ at'[p].todo = at[p].todo /\ at'[p].read
               /\ at'[p].pc = IF p = "rebuild" THEN "deleteDone" ELSE "readBronze"
               /\ disturbed' = disturbed \cup Clash(p, at[p].d, at'[p].pc)
<1>1. Busy(p, "readMarker")
  BY AtHand DEF ReadMarker, Point, Between
<1>2. CASE marker[at[p].d] = None
  BY <1>1, <1>2, NextRowEffect DEF ReadMarker, Busy, Turned
<1>3. CASE marker[at[p].d] # None
  <2>. DEFINE f == [at[p] EXCEPT !.read = TRUE,
                                 !.pc = IF p = "rebuild" THEN "deleteDone" ELSE "readBronze"]
  <2>1. /\ Shaped(f) /\ f.pc = IF p = "rebuild" THEN "deleteDone" ELSE "readBronze"
        /\ f.d = at[p].d /\ f.todo = at[p].todo /\ f.rows = at[p].rows /\ f.read
    <3>1. /\ f \in Frame /\ f.pc = IF p = "rebuild" THEN "deleteDone" ELSE "readBronze"
          /\ f.d = at[p].d /\ f.todo = at[p].todo /\ f.rows = at[p].rows /\ f.read
      <4>1. {"deleteDone", "readBronze"} \subseteq Point
        BY DEF Point
      <4>. QED
        BY <4>1, <1>1, FrameFields DEF Frame, Busy
    <3>. HIDE DEF f
    <3>. QED
      BY <3>1, <1>1 DEF Shaped, Between, Busy
  <2>2. Moves(p, f) /\ disturbed' = disturbed \cup Clash(p, f.d, f.pc)
    BY <1>3 DEF ReadMarker, Goes, Moves
  <2>. HIDE DEF f
  <2>. QED
    BY <1>1, <1>3, <2>1, <2>2, MoveEffect DEF Busy, Alone
<1>. QED
  BY <1>2, <1>3

LEMMA ReadBronzeDoes ==
  ASSUME AtOK, NEW p, ReadBronze(p)
  PROVE  /\ Busy(p, "readBronze") /\ AtOK' /\ Alone(p)
         /\ at'[p].pc = "writeReport" /\ at'[p].files = Read(p)
         /\ at'[p].d = at[p].d /\ at'[p].todo = at[p].todo /\ at'[p].rows = at[p].rows
         /\ at'[p].read = at[p].read
<1>1. Busy(p, "readBronze")
  BY AtHand DEF ReadBronze, Point, Between
<1>. QED
  BY <1>1, ReadBronzeEffect DEF Busy

LEMMA WriteReportDoes ==
  ASSUME AtOK, NEW p, WriteReport(p)
  PROVE  /\ Busy(p, "writeReport") /\ Went(p, "writeDone")
         /\ disturbed' = disturbed \cup Clash(p, at[p].d, "writeDone")
<1>1. Busy(p, "writeReport")
  BY AtHand DEF WriteReport, Point, Between
<1>. QED
  BY <1>1, GotoEffect DEF Busy, WriteReport, Point, Between

LEMMA WriteDoneDoes ==
  ASSUME AtOK, NEW p, WriteDone(p)
  PROVE  Busy(p, "writeDone") /\ Turned(p) /\ disturbed' = disturbed
<1>1. Busy(p, "writeDone")
  BY AtHand DEF WriteDone, Point, Between
<1>. QED
  BY <1>1, NextRowEffect DEF Busy, WriteDone

LEMMA DeleteMarkerDoes ==
  ASSUME AtOK, NEW p, DeleteMarker(p)
  PROVE  /\ Busy(p, "deleteMarker") /\ Went(p, "deleteDone")
         /\ disturbed' = disturbed \cup Clash(p, at[p].d, "deleteDone")
<1>1. Busy(p, "deleteMarker")
  BY AtHand DEF DeleteMarker, Point, Between
<1>. QED
  BY <1>1, GotoEffect DEF Busy, DeleteMarker, Point, Between

LEMMA DeleteDoneDoes ==
  ASSUME AtOK, NEW p, DeleteDone(p)
  PROVE  /\ Busy(p, "deleteDone") /\ Went(p, "deleteReport")
         /\ disturbed' = disturbed \cup Clash(p, at[p].d, "deleteReport")
<1>1. Busy(p, "deleteDone")
  BY AtHand DEF DeleteDone, Point, Between
<1>. QED
  BY <1>1, GotoEffect DEF Busy, DeleteDone, Point, Between

LEMMA DeleteReportDoes ==
  ASSUME AtOK, NEW p, DeleteReport(p)
  PROVE  /\ Busy(p, "deleteReport") /\ AtOK'
         /\ \/ /\ p = "recollect" /\ Went(p, "withdraw")
               /\ disturbed' = disturbed \cup Clash(p, at[p].d, "withdraw")
            \/ /\ p = "rebuild" /\ at[p].read /\ Went(p, "readBronze")
               /\ disturbed' = disturbed \cup Clash(p, at[p].d, "readBronze")
            \/ Turned(p) /\ disturbed' = disturbed
<1>1. Busy(p, "deleteReport")
  BY AtHand DEF DeleteReport, Point, Between
<1>2. CASE p = "recollect"
  BY <1>1, <1>2, GotoEffect DEF Busy, DeleteReport, Point, Between, Went
<1>3. CASE p = "rebuild" /\ at[p].read
  BY <1>1, <1>3, GotoEffect DEF Busy, DeleteReport, Point, Between, Went
<1>4. CASE p # "recollect" /\ ~(p = "rebuild" /\ at[p].read)
  <2>1. NextRow(p)
    BY <1>4 DEF DeleteReport
  <2>. QED
    BY <1>1, <2>1, NextRowEffect DEF Busy, Turned
<1>. QED
  BY <1>2, <1>3, <1>4

LEMMA IncrementalDecidesDoes ==
  ASSUME AtOK, IncrementalDecides
  PROVE  LET p == "incremental" d == at[p].d IN
         /\ Busy(p, "decide") /\ AtOK'
         /\ \/ d \in done /\ Turned(p) /\ disturbed' = disturbed
            \/ /\ at[p].verdict /\ Went(p, "readBronze")
               /\ disturbed' = disturbed \cup Clash(p, d, "readBronze")
            \/ /\ at[p].verdict /\ Went(p, "writeMarker")
               /\ disturbed' = disturbed \cup Clash(p, d, "writeMarker")
            \/ /\ ~at[p].verdict /\ Went(p, "deleteMarker")
               /\ disturbed' = disturbed \cup Clash(p, d, "deleteMarker")
            \/ ~at[p].verdict /\ Turned(p) /\ disturbed' = disturbed
<1>. DEFINE p == "incremental"
            d == at[p].d
            current == at[p].verdict /\ MarkerCurrent(p)
<1>1. Busy(p, "decide")
  BY AtHand DEF IncrementalDecides, Point, Between
<1>2. CASE current /\ d \in done
  BY <1>1, <1>2, NextRowEffect DEF IncrementalDecides, Busy, Turned
<1>3. CASE current /\ d \notin done
  <2>1. Goto(p, "readBronze")
    BY <1>3 DEF IncrementalDecides
  <2>. QED
    BY <1>1, <1>3, <2>1, GotoEffect DEF Busy, Point, Between, Went
<1>4. CASE ~current /\ at[p].verdict
  <2>1. Goto(p, "writeMarker")
    BY <1>4 DEF IncrementalDecides
  <2>. QED
    BY <1>1, <1>4, <2>1, GotoEffect DEF Busy, Point, Between, Went
<1>5. CASE ~at[p].verdict /\ marker[d] # None
  <2>1. Goto(p, "deleteMarker")
    BY <1>5 DEF IncrementalDecides
  <2>. QED
    BY <1>1, <1>5, <2>1, GotoEffect DEF Busy, Point, Between, Went
<1>6. CASE ~at[p].verdict /\ marker[d] = None
  <2>1. NextRow(p)
    BY <1>6 DEF IncrementalDecides
  <2>. QED
    BY <1>1, <1>6, <2>1, NextRowEffect DEF Busy, Turned
<1>. QED
  BY <1>2, <1>3, <1>4, <1>5, <1>6

LEMMA CompletionDecidesDoes ==
  ASSUME AtOK, CompletionDecides
  PROVE  LET p == "completion" d == at[p].d IN
         /\ Busy(p, "decide") /\ AtOK'
         /\ \/ at[p].verdict /\ MarkerCurrent(p) /\ Turned(p) /\ disturbed' = disturbed
            \/ /\ at[p].verdict /\ Went(p, "writeMarker")
               /\ disturbed' = disturbed \cup Clash(p, d, "writeMarker")
            \/ /\ ~at[p].verdict /\ Went(p, "deleteMarker")
               /\ disturbed' = disturbed \cup Clash(p, d, "deleteMarker")
            \/ ~at[p].verdict /\ marker[d] = None /\ Turned(p) /\ disturbed' = disturbed
<1>. DEFINE p == "completion"
            d == at[p].d
<1>1. Busy(p, "decide")
  BY AtHand DEF CompletionDecides, Point, Between
<1>2. CASE at[p].verdict /\ MarkerCurrent(p)
  BY <1>1, <1>2, NextRowEffect DEF CompletionDecides, Busy, Turned
<1>3. CASE at[p].verdict /\ ~MarkerCurrent(p)
  <2>1. Goto(p, "writeMarker")
    BY <1>3 DEF CompletionDecides
  <2>. QED
    BY <1>1, <1>3, <2>1, GotoEffect DEF Busy, Point, Between, Went
<1>4. CASE ~at[p].verdict /\ marker[d] # None
  <2>1. Goto(p, "deleteMarker")
    BY <1>4 DEF CompletionDecides
  <2>. QED
    BY <1>1, <1>4, <2>1, GotoEffect DEF Busy, Point, Between, Went
<1>5. CASE ~at[p].verdict /\ marker[d] = None
  <2>1. NextRow(p)
    BY <1>5 DEF CompletionDecides
  <2>. QED
    BY <1>1, <1>5, <2>1, NextRowEffect DEF Busy, Turned
<1>. QED
  BY <1>2, <1>3, <1>4, <1>5

(* The three procedures that write a marker.                                  *)
MarkerStep(p) ==
  \/ p = "incremental" /\ IncrementalWritesMarker
  \/ p = "completion" /\ CompletionWritesMarker
  \/ p = "rebuild" /\ RebuildWritesMarker

LEMMA MarkerStepDoes ==
  ASSUME AtOK, NEW p, MarkerStep(p)
  PROVE  /\ Busy(p, "writeMarker") /\ AtOK'
         /\ marker' = [marker EXCEPT ![at[p].d] = at[p].rows[at[p].d]]
         /\ UNCHANGED <<jobs, rows, report, done, passed_over, slipped>>
         /\ \/ /\ p # "completion" /\ Went(p, "readMarker")
               /\ disturbed' = disturbed \cup Clash(p, at[p].d, "readMarker")
            \/ p = "completion" /\ Turned(p) /\ disturbed' = disturbed
<1>1. Busy(p, "writeMarker")
  BY AtHand DEF MarkerStep, IncrementalWritesMarker, CompletionWritesMarker, RebuildWritesMarker,
                Point, Between
<1>2. CASE p = "completion"
  BY <1>1, <1>2, NextRowEffect DEF MarkerStep, CompletionWritesMarker, WriteMarker, Busy, Turned
<1>3. CASE p # "completion"
  <2>1. WriteMarker(p, Goto(p, "readMarker"))
    BY <1>3 DEF MarkerStep, IncrementalWritesMarker, RebuildWritesMarker
  <2>. QED
    BY <1>1, <1>3, <2>1, GotoEffect DEF WriteMarker, Busy, Point, Between, Went
<1>. QED
  BY <1>2, <1>3

LEMMA RebuildEvaluatesDoes ==
  ASSUME AtOK, RebuildEvaluates
  PROVE  LET d == at["rebuild"].d IN
         /\ Busy("rebuild", "evaluate")
         /\ \/ /\ Present(d) /\ Went("rebuild", "writeMarker")
               /\ disturbed' = disturbed \cup Clash("rebuild", d, "writeMarker")
            \/ /\ Went("rebuild", "deleteMarker")
               /\ disturbed' = disturbed \cup Clash("rebuild", d, "deleteMarker")
<1>1. Busy("rebuild", "evaluate")
  BY AtHand DEF RebuildEvaluates, Point, Between
<1>2. CASE Present(at["rebuild"].d)
  BY <1>1, <1>2, GotoEffect DEF RebuildEvaluates, Busy, Point, Between
<1>3. CASE ~Present(at["rebuild"].d)
  BY <1>1, <1>3, GotoEffect DEF RebuildEvaluates, Busy, Point, Between
<1>. QED
  BY <1>2, <1>3

LEMMA RequeueDoes ==
  ASSUME AtOK, NEW j \in Jobs, RecollectRequeues(j)
  PROVE  Busy("recollect", "requeue") /\ Turned("recollect") /\ disturbed' = disturbed
<1>1. Busy("recollect", "requeue")
  BY AtHand DEF RecollectRequeues, Point, Between
<1>. QED
  BY <1>1, NextRowEffect DEF RecollectRequeues, Busy

LEMMA RowFailsDoes ==
  ASSUME AtOK, NEW p, RowFails(p)
  PROVE  /\ p \in {"incremental", "completion", "raw_to_silver", "rebuild"} \cap Procs
         /\ at[p].d \in Discs /\ Turned(p) /\ disturbed' = disturbed
BY NextRowEffect, FrameFields DEF RowFails

LEMMA EvaluatesDoes ==
  ASSUME AtOK, NEW p, (p = "incremental" /\ IncrementalEvaluates)
                      \/ (p = "completion" /\ CompletionEvaluates)
  PROVE  /\ Busy(p, "evaluate") /\ AtOK' /\ Alone(p)
         /\ at'[p].pc = "decide"
         /\ at'[p].d = at[p].d /\ at'[p].todo = at[p].todo /\ at'[p].rows = at[p].rows
         /\ at'[p].read = at[p].read
         /\ at'[p].verdict => Present(at[p].d) \/ at[p].d \in disturbed'
         /\ ~at'[p].verdict => ~Present(at[p].d)
         /\ disturbed \subseteq disturbed'
         /\ UNCHANGED <<jobs, rows, outputs, passed_over, slipped>>
<1>1. Busy(p, "evaluate")
  BY AtHand DEF IncrementalEvaluates, CompletionEvaluates, Point, Between
<1>2. CASE p = "incremental"
  <2>1. at' = [at EXCEPT ![p].pc = "decide", ![p].verdict = Present(at[p].d)]
    BY <1>2 DEF IncrementalEvaluates
  <2>2. UNCHANGED <<jobs, rows, outputs, passed_over, disturbed, slipped>>
    BY <1>2 DEF IncrementalEvaluates, history
  <2>3. Present(at[p].d) \in BOOLEAN
    BY DEF Present
  <2>. QED
    BY <1>1, <2>1, <2>2, <2>3, EvaluateEffect DEF Busy
<1>3. CASE p = "completion"
  <2>. DEFINE v == Needs[at[p].d] \subseteq at[p].seen \cup complete
  <2>1. at' = [at EXCEPT ![p].pc = "decide", ![p].verdict = v]
    BY <1>3 DEF CompletionEvaluates
  <2>2. disturbed' = IF v /\ ~Present(at[p].d) THEN disturbed \cup {at[p].d} ELSE disturbed
    BY <1>3 DEF CompletionEvaluates
  <2>3. ~v => ~Present(at[p].d)
    BY DEF Present
  <2>4. v \in BOOLEAN
    OBVIOUS
  <2>. HIDE DEF v
  <2>5. UNCHANGED <<jobs, rows, outputs, passed_over, slipped>>
    BY <1>3 DEF CompletionEvaluates
  <2>. QED
    BY <1>1, <2>1, <2>2, <2>3, <2>4, <2>5, EvaluateEffect DEF Busy
<1>. QED
  BY <1>2, <1>3

(* The procedures that begin, with the rows they see.                          *)
Beginning ==
  IncrementalStarts \/ CompletionStarts \/ RawToSilverStarts
  \/ (\E d \in Discs : RebuildStarts(d))
  \/ \E p \in AllProcs, d \in Discs : InvalidationStarts(p, d)

Begun(p, todo) ==
  /\ Started(p, IF p = "incremental" THEN "select" ELSE "pick", todo)
  /\ p = "completion" => todo = {d \in Discs : marker[d] = None \/ d \in changed}

LEMMA BeginningDoes ==
  ASSUME TypeOK, Beginning
  PROVE  /\ UNCHANGED <<jobs, rows, outputs, history>>
         /\ \E p, todo : Begun(p, todo)
<1>1. AtOK /\ RowsOK /\ registered \in SUBSET Jobs /\ done \subseteq Discs
  BY TypeParts DEF JobsOK, OutputsOK
<1>2. CASE IncrementalStarts
  <2>1. Begun("incremental", {})
    BY <1>1, <1>2, BeginsEffect DEF IncrementalStarts, Begun
  <2>. QED
    BY <1>2, <2>1 DEF IncrementalStarts
<1>3. CASE CompletionStarts
  <2>1. Begun("completion", {d \in Discs : marker[d] = None \/ d \in changed})
    BY <1>1, <1>3, BeginsEffect DEF CompletionStarts, Begun
  <2>. QED
    BY <1>3, <2>1 DEF CompletionStarts
<1>4. CASE RawToSilverStarts
  <2>1. Begun("raw_to_silver", {d \in Discs : marker[d] # None} \ done)
    BY <1>1, <1>4, BeginsEffect DEF RawToSilverStarts, Begun
  <2>. QED
    BY <1>4, <2>1 DEF RawToSilverStarts
<1>5. ASSUME NEW d \in Discs, RebuildStarts(d)
      PROVE  Begun("rebuild", {d}) /\ UNCHANGED <<jobs, rows, outputs, history>>
  BY <1>1, <1>5, BeginsEffect DEF RebuildStarts, Begun
<1>6. ASSUME NEW p \in AllProcs, NEW d \in Discs, InvalidationStarts(p, d)
      PROVE  /\ Begun(p, {d})
             /\ UNCHANGED <<jobs, rows, outputs, history>>
  BY <1>1, <1>6, BeginsEffect DEF InvalidationStarts, Begun
<1>. QED
  BY <1>2, <1>3, <1>4, <1>5, <1>6 DEF Beginning

(* A procedure leaves its disclosures, and with them its frame.               *)
Leaving(p) ==
  \/ p = "incremental" /\ (IncrementalEnds \/ IncrementalStopsEarly)
  \/ p = "completion" /\ CompletionEnds
  \/ Ends(p) \/ Dies(p)

LEMMA LeavingDoes ==
  ASSUME AtOK, NEW p, Leaving(p)
  PROVE  /\ p \in Procs /\ at[p].pc # "idle" /\ Stopped(p)
         /\ UNCHANGED <<status, working, complete, withdrawn, registered, meta, outputs, history>>
BY StopEffect DEF Leaving, IncrementalEnds, IncrementalStopsEarly, CompletionEnds, Ends, Dies, Is,
                  Active, rows, jobs

(* The steps that leave the procedures alone.                                 *)
Outside == (\E j \in Jobs : JobStep(j)) \/ \E d \in Discs : Upsert(d)

LEMMA OutsideDoes ==
  ASSUME Outside
  PROVE  UNCHANGED <<outputs, at, disturbed>> /\ complete \subseteq complete'
BY DEF Outside, JobStep, JobMoves, FileArrives, JobDoneBegins, JobDoneCommits, Upsert, history, jobs,
       Job!Request, Job!Take, Job!GiveBack, Job!Vanish, Job!Requeue, Job!Gather, Job!Succeed

(* Every step is one of these.                                               *)
LEMMA StepCases ==
  ASSUME Next
  PROVE  \/ Outside \/ Beginning \/ IncrementalSelects
         \/ IncrementalEvaluates \/ CompletionEvaluates
         \/ IncrementalDecides \/ CompletionDecides \/ RebuildEvaluates
         \/ \E p \in AllProcs : MarkerStep(p)
         \/ \E p \in AllProcs : Leaving(p)
         \/ \E j \in Jobs : RecollectWithdraws(j) \/ RecollectRequeues(j)
         \/ \E p \in AllProcs :
              \/ ReadMarker(p) \/ ReadBronze(p) \/ WriteReport(p) \/ WriteDone(p)
              \/ DeleteMarker(p) \/ DeleteDone(p) \/ DeleteReport(p) \/ RowFails(p)
              \/ \E d \in Discs : Picks(p, d)
BY DEF Next, Outside, Beginning, IncrementalStep, CompletionStep, OperatorStep, SharedStep,
       MarkerStep, Leaving, AllProcs

LEMMA AtStep ==
  ASSUME TypeOK, Next
  PROVE  AtOK'
<1>. USE TypeParts
<1>1. CASE Outside
  BY <1>1, OutsideDoes DEF AtOK, Procs
<1>2. CASE Beginning
  BY <1>2, BeginningDoes DEF Begun, Started
<1>3. CASE IncrementalSelects
  BY <1>3, SelectEffect
<1>4. CASE IncrementalEvaluates \/ CompletionEvaluates
  BY <1>4, EvaluatesDoes
<1>5. CASE IncrementalDecides \/ CompletionDecides
  BY <1>5, IncrementalDecidesDoes, CompletionDecidesDoes
<1>6. CASE RebuildEvaluates
  BY <1>6, RebuildEvaluatesDoes DEF Went
<1>7. CASE \E p \in AllProcs : MarkerStep(p) \/ Leaving(p)
  BY <1>7, MarkerStepDoes, LeavingDoes DEF Stopped
<1>8. CASE \E j \in Jobs : RecollectWithdraws(j) \/ RecollectRequeues(j)
  BY <1>8, WithdrawEffect, RequeueDoes DEF Turned
<1>9. ASSUME NEW p \in AllProcs, ReadMarker(p) \/ ReadBronze(p) \/ WriteReport(p) \/ WriteDone(p)
      PROVE  AtOK'
  BY <1>9, ReadMarkerDoes, ReadBronzeDoes, WriteReportDoes, WriteDoneDoes DEF Went, Turned
<1>10. ASSUME NEW p \in AllProcs,
              DeleteMarker(p) \/ DeleteDone(p) \/ DeleteReport(p) \/ RowFails(p)
       PROVE  AtOK'
  BY <1>10, DeleteMarkerDoes, DeleteDoneDoes, DeleteReportDoes, RowFailsDoes DEF Went, Turned
<1>11. ASSUME NEW p \in AllProcs, NEW d \in Discs, Picks(p, d)
       PROVE  AtOK'
  BY <1>11, PicksEffect DEF Picks, Is
<1>. QED
  BY <1>1, <1>2, <1>3, <1>4, <1>5, <1>6, <1>7, <1>8, <1>9, <1>10, <1>11, StepCases

(* The steps of a procedure at a disclosure, which leave jobs and rows alone.  *)
AtWork ==
  \/ Beginning \/ IncrementalSelects \/ IncrementalEvaluates \/ CompletionEvaluates
  \/ IncrementalDecides \/ CompletionDecides \/ RebuildEvaluates
  \/ \E p \in AllProcs :
       \/ MarkerStep(p)
       \/ ReadMarker(p) \/ ReadBronze(p) \/ WriteReport(p) \/ WriteDone(p)
       \/ DeleteMarker(p) \/ DeleteDone(p) \/ DeleteReport(p) \/ RowFails(p)
       \/ \E d \in Discs : Picks(p, d)

Operating == \E j \in Jobs : RecollectWithdraws(j) \/ RecollectRequeues(j)

LEMMA StepKinds ==
  ASSUME Next
  PROVE  Outside \/ AtWork \/ Operating \/ \E p \in AllProcs : Leaving(p)
BY StepCases DEF AtWork, Operating

LEMMA AtWorkKeeps ==
  ASSUME AtWork
  PROVE  UNCHANGED <<jobs, rows>>
BY DEF AtWork, Beginning, IncrementalStarts, CompletionStarts, RawToSilverStarts, RebuildStarts,
       InvalidationStarts, IncrementalSelects, IncrementalEvaluates, CompletionEvaluates,
       IncrementalDecides, CompletionDecides, RebuildEvaluates, MarkerStep,
       IncrementalWritesMarker, CompletionWritesMarker, RebuildWritesMarker, WriteMarker,
       ReadMarker, ReadBronze, WriteReport, WriteDone, DeleteMarker, DeleteDone, DeleteReport,
       RowFails, Picks

LEMMA JobsInit == Job!Init => status \in [Jobs -> Job!Status] /\ working = {} /\ complete = {} /\ withdrawn = {}
BY DEF Job!Init, Job!Status

(* A transaction of the queue keeps the types of the jobs.                    *)
JobTypes ==
  /\ status \in [Jobs -> Job!Status]
  /\ working \subseteq Jobs /\ complete \subseteq Jobs /\ withdrawn \subseteq Jobs

LEMMA JobTypesKept ==
  ASSUME JobTypes, NEW j \in Jobs,
         \/ Job!Request(j) \/ Job!Take({j}) \/ Job!GiveBack(j) \/ Job!Vanish({j})
         \/ Job!Requeue(j) \/ Job!Gather(j) \/ Job!Succeed(j) \/ Job!Withdraw(j)
  PROVE  JobTypes'
BY DEF JobTypes, Job!Request, Job!Take, Job!GiveBack, Job!Vanish, Job!Requeue, Job!Gather,
       Job!Succeed, Job!Withdraw, Job!Leaves, Job!Status

LEMMA OutsideTypes ==
  ASSUME JobsOK, RowsOK, HistoryOK, Outside
  PROVE  JobsOK' /\ RowsOK' /\ HistoryOK'
<1>. USE DEF JobsOK, JobTypes
<1>1. ASSUME NEW j \in Jobs, JobMoves(j) PROVE JobsOK' /\ UNCHANGED <<rows, history>>
  <2>1. JobTypes'
    BY <1>1, JobTypesKept DEF JobMoves
  <2>2. finished' \in [Jobs -> Stamp]
    BY <1>1 DEF JobMoves, Stamps, Stamp
  <2>3. closing' \in [Jobs -> Stamp \cup {None}]
    BY <1>1 DEF JobMoves
  <2>. QED
    BY <1>1, <2>1, <2>2, <2>3 DEF JobMoves
<1>2. ASSUME NEW j \in Jobs, FileArrives(j) PROVE JobsOK' /\ UNCHANGED <<rows, history>>
  BY <1>2, JobTypesKept DEF FileArrives
<1>3. ASSUME NEW j \in Jobs, JobDoneBegins(j) PROVE JobsOK' /\ UNCHANGED <<rows, history>>
  BY <1>3 DEF JobDoneBegins, Stamp
<1>4. ASSUME NEW j \in Jobs, JobDoneCommits(j) PROVE JobsOK' /\ RowsOK' /\ HistoryOK'
  <2>1. JobTypes'
    BY <1>4, JobTypesKept DEF JobDoneCommits
  <2>2. finished' \in [Jobs -> Stamp] /\ closing' \in [Jobs -> Stamp \cup {None}]
    BY <1>4 DEF JobDoneCommits, Stamp
  <2>3. HistoryOK'
    BY <1>4, SilverAssumption DEF JobDoneCommits, HistoryOK, Led
  <2>. QED
    BY <1>4, <2>1, <2>2, <2>3 DEF JobDoneCommits, RowsOK, rows
<1>5. ASSUME NEW d \in Discs, Upsert(d) PROVE JobsOK' /\ RowsOK' /\ HistoryOK'
  <2>1. UNCHANGED jobs /\ RowsOK'
    BY <1>5 DEF Upsert, RowsOK
  <2>2. HistoryOK'
    BY <1>5 DEF Upsert, HistoryOK
  <2>. QED
    BY <2>1, <2>2 DEF jobs
<1>. QED
  BY <1>1, <1>2, <1>3, <1>4, <1>5 DEF Outside, JobStep, RowsOK, HistoryOK, rows, history

LEMMA LeavingTypes ==
  ASSUME JobsOK, RowsOK, NEW p, Leaving(p)
  PROVE  JobsOK' /\ RowsOK'
<1>1. ASSUME NEW S \in [Jobs -> Stamp]
      PROVE  Advanced(S) \in [Jobs -> Stamp] /\ Kept(S) \in [Jobs -> Stamp]
  BY <1>1 DEF Advanced, Kept, Stamp
<1>2. ASSUME NEW S \in [Jobs -> Stamp \cup {None}]
      PROVE  /\ Advanced(S) \in [Jobs -> Stamp \cup {None}]
             /\ Kept(S) \in [Jobs -> Stamp \cup {None}]
  BY <1>2 DEF Advanced, Kept, Stamp
<1>3. UNCHANGED <<status, working, complete, withdrawn, registered, meta>> /\ changed' \subseteq changed
  BY DEF Leaving, IncrementalEnds, IncrementalStopsEarly, CompletionEnds, Ends, Dies, jobs, rows
<1>4. /\ finished' \in {finished, Advanced(finished), Kept(finished)}
      /\ closing' \in {closing, Advanced(closing), Kept(closing)}
  BY DEF Leaving, IncrementalEnds, IncrementalStopsEarly, CompletionEnds, Ends, Dies, jobs
<1>. QED
  BY <1>1, <1>2, <1>3, <1>4 DEF JobsOK, RowsOK

LEMMA OperatingTypes ==
  ASSUME JobsOK, RowsOK, Operating
  PROVE  JobsOK' /\ RowsOK'
<1>. USE DEF JobsOK, JobTypes
<1>1. ASSUME NEW j \in Jobs, RecollectWithdraws(j) PROVE JobsOK' /\ UNCHANGED rows
  BY <1>1, JobTypesKept DEF RecollectWithdraws
<1>2. ASSUME NEW j \in Jobs, RecollectRequeues(j) PROVE JobsOK' /\ UNCHANGED rows
  <2>1. JobTypes'
    BY <1>2, JobTypesKept DEF RecollectRequeues
  <2>2. finished' \in [Jobs -> Stamp]
    BY <1>2 DEF RecollectRequeues, Stamps, Stamp
  <2>. QED
    BY <1>2, <2>1, <2>2 DEF RecollectRequeues
<1>. QED
  BY <1>1, <1>2 DEF Operating, RowsOK, rows

LEMMA OutdatedType ==
  ASSUME NEW files \in [Jobs -> FileState], NEW j \in Jobs
  PROVE  Outdated(files, j) \in [Jobs -> FileState]
BY DEF Outdated, FileState

LEMMA OutputTypes ==
  ASSUME TypeOK, Next
  PROVE  OutputsOK'
<1>0. AtOK /\ OutputsOK /\ \A d \in Discs : report[d] \in [Jobs -> FileState]
  BY TypeParts DEF OutputsOK
<1>1. CASE Outside \/ Beginning \/ \E p \in AllProcs : Leaving(p)
  BY <1>0, <1>1, OutsideDoes, BeginningDoes, LeavingDoes DEF OutputsOK, outputs
<1>2. CASE IncrementalSelects \/ IncrementalEvaluates \/ CompletionEvaluates
           \/ IncrementalDecides \/ CompletionDecides \/ RebuildEvaluates
  BY <1>0, <1>2 DEF OutputsOK, IncrementalSelects, IncrementalEvaluates, CompletionEvaluates, IncrementalDecides,
              CompletionDecides, RebuildEvaluates, outputs
<1>3. ASSUME NEW p \in AllProcs, MarkerStep(p) PROVE OutputsOK'
  <2>1. at[p].d \in Discs /\ at[p].rows \in [Discs -> Metas \cup {None}]
    BY <1>0, <1>3, MarkerStepDoes, FrameFields DEF Busy
  <2>. QED
    BY <1>0, <1>3, <2>1, MarkerStepDoes DEF OutputsOK
<1>4. ASSUME NEW j \in Jobs, RecollectWithdraws(j) \/ RecollectRequeues(j) PROVE OutputsOK'
  <2>1. \A d \in Discs : Outdated(report[d], j) \in [Jobs -> FileState]
    BY <1>0, OutdatedType
  <2>2. /\ report' \in {report, [d \in Discs |-> Outdated(report[d], j)]}
        /\ UNCHANGED <<marker, done>>
    BY <1>4 DEF RecollectWithdraws, RecollectRequeues, outputs
  <2>. QED
    BY <1>0, <2>1, <2>2 DEF OutputsOK
<1>5. ASSUME NEW p \in AllProcs, WriteReport(p) PROVE OutputsOK'
  <2>1. at[p].files \in [Jobs -> FileState]
    BY <1>0, <1>5, WriteReportDoes, FrameFields DEF Busy
  <2>. QED
    BY <1>0, <1>5, <2>1 DEF OutputsOK, WriteReport
<1>6. ASSUME NEW p \in AllProcs, WriteDone(p) \/ DeleteMarker(p) \/ DeleteDone(p)
      PROVE  OutputsOK'
  BY <1>0, <1>6, WriteDoneDoes DEF OutputsOK, WriteDone, DeleteMarker, DeleteDone, Busy
<1>7. ASSUME NEW p \in AllProcs, DeleteReport(p) PROVE OutputsOK'
  BY <1>0, <1>7 DEF OutputsOK, DeleteReport, NoReport, FileState
<1>8. ASSUME NEW p \in AllProcs,
             ReadMarker(p) \/ ReadBronze(p) \/ RowFails(p) \/ \E d \in Discs : Picks(p, d)
      PROVE  OutputsOK'
  BY <1>0, <1>8 DEF OutputsOK, ReadMarker, ReadBronze, RowFails, Picks, outputs
<1>. QED
  BY <1>1, <1>2, <1>3, <1>4, <1>5, <1>6, <1>7, <1>8, StepCases

LEMMA ClashType ==
  ASSUME NEW p, NEW d \in Discs, NEW pc
  PROVE  Clash(p, d, pc) \subseteq Discs
BY DEF Clash

LEMMA HistoryTypes ==
  ASSUME TypeOK, Next
  PROVE  HistoryOK'
<1>0. AtOK /\ HistoryOK /\ JobsOK /\ RowsOK
  BY TypeParts
<1>. USE <1>0 DEF HistoryOK
<1>1. CASE Outside
  BY <1>1, OutsideTypes
<1>2. CASE Beginning \/ IncrementalSelects \/ \E p \in AllProcs : Leaving(p)
  BY <1>2, BeginningDoes, LeavingDoes DEF IncrementalSelects, history
<1>3. CASE IncrementalEvaluates \/ CompletionEvaluates
  BY <1>3, EvaluatesDoes DEF IncrementalEvaluates, CompletionEvaluates, Busy, history
<1>4. CASE IncrementalDecides \/ CompletionDecides \/ RebuildEvaluates
  <2>1. UNCHANGED <<passed_over, slipped>>
    BY <1>4 DEF IncrementalDecides, CompletionDecides, RebuildEvaluates
  <2>2. disturbed' \subseteq Discs
    BY <1>4, IncrementalDecidesDoes, CompletionDecidesDoes, RebuildEvaluatesDoes, ClashType DEF Busy
  <2>. QED
    BY <2>1, <2>2
<1>5. ASSUME NEW p \in AllProcs, MarkerStep(p) PROVE HistoryOK'
  BY <1>5, MarkerStepDoes, ClashType DEF Busy
<1>6. ASSUME NEW j \in Jobs, RecollectWithdraws(j) \/ RecollectRequeues(j) PROVE HistoryOK'
  BY <1>6, RequeueDoes, SilverAssumption DEF RecollectWithdraws, RecollectRequeues
<1>7. ASSUME NEW p \in AllProcs,
             ReadMarker(p) \/ WriteReport(p) \/ WriteDone(p) \/ RowFails(p)
      PROVE  HistoryOK'
  <2>1. disturbed' \subseteq Discs /\ at[p].d \in Discs
    BY <1>7, ReadMarkerDoes, WriteReportDoes, WriteDoneDoes, RowFailsDoes, ClashType DEF Busy
  <2>2. /\ passed_over' \subseteq passed_over \cup {at[p].d}
        /\ slipped' \subseteq slipped \cup {at[p].d}
    BY <1>7 DEF ReadMarker, WriteReport, WriteDone, RowFails
  <2>. QED
    BY <2>1, <2>2
<1>8. ASSUME NEW p \in AllProcs,
             DeleteMarker(p) \/ DeleteDone(p) \/ DeleteReport(p)
      PROVE  HistoryOK'
  <2>1. disturbed' \subseteq Discs /\ at[p].d \in Discs
    BY <1>8, DeleteMarkerDoes, DeleteDoneDoes, DeleteReportDoes, ClashType DEF Busy
  <2>2. passed_over' \subseteq passed_over \cup {at[p].d} /\ slipped' = slipped
    BY <1>8 DEF DeleteMarker, DeleteDone, DeleteReport
  <2>. QED
    BY <2>1, <2>2
<1>9. ASSUME NEW p \in AllProcs, ReadBronze(p) PROVE HistoryOK'
  BY <1>9 DEF ReadBronze, history
<1>10. ASSUME NEW p \in AllProcs, NEW d \in Discs, Picks(p, d) PROVE HistoryOK'
  <2>1. p \in Procs /\ UNCHANGED <<passed_over, slipped>>
    BY <1>10 DEF Picks, Is
  <2>2. disturbed' = disturbed \cup Clash(p, d, at'[p].pc)
    BY <1>10, <2>1, PicksEffect
  <2>. QED
    BY <2>1, <2>2, ClashType
<1>. QED
  BY <1>1, <1>2, <1>3, <1>4, <1>5, <1>6, <1>7, <1>8, <1>9, <1>10, StepCases

LEMMA TypeStep ==
  ASSUME TypeOK, [Next]_vars
  PROVE  TypeOK'
<1>1. CASE Next
  <2>1. JobsOK' /\ RowsOK'
    BY <1>1, TypeParts, StepKinds, OutsideTypes, LeavingTypes, OperatingTypes, AtWorkKeeps
       DEF JobsOK, RowsOK, jobs, rows
  <2>. QED
    BY <1>1, <2>1, TypePartsNext, AtStep, OutputTypes, HistoryTypes
<1>2. CASE UNCHANGED vars
  BY <1>2, TypeParts, TypePartsNext
     DEF vars, jobs, rows, outputs, history, JobsOK, RowsOK, OutputsOK, AtOK, HistoryOK, Procs
<1>. QED
  BY <1>1, <1>2

LEMMA TypeInit == Init => TypeOK
<1>. SUFFICES ASSUME Init PROVE TypeOK
  OBVIOUS
<1>1. JobsOK
  BY JobsInit DEF Init, JobsOK, Stamp
<1>2. RowsOK /\ HistoryOK
  BY DEF Init, RowsOK, HistoryOK
<1>3. OutputsOK
  BY DEF Init, OutputsOK, NoReport, FileState
<1>4. AtOK
  BY IdleShaped, SilverAssumption DEF Init, AtOK, Procs, Shaped
<1>. QED
  BY <1>1, <1>2, <1>3, <1>4, TypeParts

(* The queue, the outputs and the procedures keep their types; a procedure     *)
(* has a disclosure at hand exactly while it works on one.                    *)
THEOREM TypeCorrect == Spec => []TypeOK
BY TypeInit, TypeStep, PTL DEF Spec

(* The markers follow the rows --------------------------------------------- *)

Fresh(d) == marker[d] \in {None, meta[d]} \/ d \in slipped

(* What a procedure holds of a row is the row, unless it has slipped.          *)
RowsKnown ==
  \A p \in Procs, d \in Discs : at[p].rows[d] \in {None, meta[d]} \/ d \in slipped

(* A completion pass has read every row, and what it is through with is fresh.  *)
CompletionPoints ==
  {"pick", "evaluate", "decide", "writeMarker", "deleteMarker", "deleteDone", "deleteReport"}

CompletionBehind ==
  "completion" \in Active =>
    /\ at["completion"].pc \in CompletionPoints
    /\ \A d \in Discs : at["completion"].rows[d] # None
    /\ \A d \in Discs : d \notin at["completion"].todo => Fresh(d)
    /\ \A d \in Discs : at["completion"].d = d /\ at["completion"].pc \in {"deleteDone", "deleteReport"}
                      => Fresh(d)

MarkerInv == MarkerFollowsRow /\ RowsKnown /\ CompletionBehind

LEMMA RowsMove ==
  ASSUME TypeOK, Next, ~Outside
  PROVE  /\ Procs' = Procs
         /\ \A q \in Procs, d \in Discs : at'[q].rows[d] \in {at[q].rows[d], None, meta[d]}
<1>0. AtOK
  BY TypeParts
<1>2. CASE Beginning
  BY <1>0, <1>2, BeginningDoes DEF Begun, Started, Alone
<1>3. CASE IncrementalSelects
  BY <1>0, <1>3, TypeParts, SelectEffect DEF Alone
<1>4. CASE IncrementalEvaluates \/ CompletionEvaluates
  BY <1>0, <1>4, EvaluatesDoes DEF Alone
<1>5. CASE IncrementalDecides \/ CompletionDecides
  BY <1>0, <1>5, IncrementalDecidesDoes, CompletionDecidesDoes DEF Alone, Went, Turned
<1>6. CASE RebuildEvaluates
  BY <1>0, <1>6, RebuildEvaluatesDoes DEF Went, Alone
<1>7. ASSUME NEW p \in AllProcs, MarkerStep(p)
      PROVE  Alone(p) /\ at'[p].rows = at[p].rows
  BY <1>0, <1>7, MarkerStepDoes DEF Went, Turned
<1>8. ASSUME NEW p \in AllProcs, Leaving(p)
      PROVE  Alone(p) /\ at'[p].rows = [d \in Discs |-> None]
  BY <1>0, <1>8, LeavingDoes DEF Stopped, Idle
<1>9. ASSUME NEW j \in Jobs, RecollectWithdraws(j) \/ RecollectRequeues(j)
      PROVE  Procs' = Procs /\ \A q \in Procs : at'[q].rows = at[q].rows
  BY <1>0, <1>9, WithdrawEffect, RequeueDoes DEF Turned, Alone
<1>10. ASSUME NEW p \in AllProcs, ReadMarker(p) \/ ReadBronze(p) \/ WriteReport(p) \/ WriteDone(p)
      PROVE  Alone(p) /\ at'[p].rows = at[p].rows
  BY <1>0, <1>10, ReadMarkerDoes, ReadBronzeDoes, WriteReportDoes, WriteDoneDoes DEF Went, Turned
<1>11. ASSUME NEW p \in AllProcs,
              DeleteMarker(p) \/ DeleteDone(p) \/ DeleteReport(p) \/ RowFails(p)
       PROVE  Alone(p) /\ at'[p].rows = at[p].rows
  BY <1>0, <1>11, DeleteMarkerDoes, DeleteDoneDoes, DeleteReportDoes, RowFailsDoes DEF Went, Turned
<1>12. ASSUME NEW p \in AllProcs, NEW d \in Discs, Picks(p, d)
       PROVE  Alone(p) /\ at'[p].rows = at[p].rows
  BY <1>0, <1>12, PicksEffect DEF Picks, Is
<1>. QED
  BY <1>2, <1>3, <1>4, <1>5, <1>6, <1>7, <1>8, <1>9, <1>10, <1>11, <1>12, StepCases DEF Alone

LEMMA MarkerMoves ==
  ASSUME TypeOK, Next, ~Outside
  PROVE  /\ UNCHANGED meta /\ slipped \subseteq slipped'
         /\ \A d \in Discs : \/ marker'[d] \in {marker[d], None}
                             \/ \E p \in Procs : marker'[d] = at[p].rows[d]
<1>0. AtOK /\ marker \in [Discs -> Metas \cup {None}]
  BY TypeParts DEF OutputsOK
<1>1. ASSUME NEW p \in AllProcs, MarkerStep(p)
      PROVE  /\ UNCHANGED <<meta, slipped>> /\ p \in Procs
             /\ \A d \in Discs : marker'[d] = IF d = at[p].d THEN at[p].rows[d] ELSE marker[d]
  BY <1>0, <1>1, MarkerStepDoes DEF Busy, rows
<1>2. ASSUME NEW p \in AllProcs, DeleteMarker(p)
      PROVE  /\ UNCHANGED <<meta, slipped>>
             /\ \A d \in Discs : marker'[d] \in {marker[d], None}
  BY <1>0, <1>2 DEF DeleteMarker, rows
<1>3. ASSUME ~\E p \in AllProcs : MarkerStep(p) \/ DeleteMarker(p)
      PROVE  UNCHANGED <<meta, marker>> /\ slipped \subseteq slipped'
  <2>1. CASE Beginning \/ \E p \in AllProcs : Leaving(p)
    BY <1>0, <2>1, BeginningDoes, LeavingDoes DEF rows, outputs, history
  <2>2. CASE IncrementalSelects \/ IncrementalEvaluates \/ CompletionEvaluates
           \/ IncrementalDecides \/ CompletionDecides \/ RebuildEvaluates
    BY <2>2 DEF IncrementalSelects, IncrementalEvaluates, CompletionEvaluates, IncrementalDecides,
              CompletionDecides, RebuildEvaluates, rows, outputs, history
  <2>3. ASSUME NEW j \in Jobs, RecollectWithdraws(j) \/ RecollectRequeues(j)
        PROVE  UNCHANGED <<meta, marker>> /\ slipped \subseteq slipped'
    BY <2>3 DEF RecollectWithdraws, RecollectRequeues, rows, outputs
  <2>4. ASSUME NEW p \in AllProcs,
               \/ ReadMarker(p) \/ ReadBronze(p) \/ WriteReport(p) \/ WriteDone(p)
               \/ DeleteDone(p) \/ DeleteReport(p) \/ RowFails(p)
               \/ \E d \in Discs : Picks(p, d)
        PROVE  UNCHANGED <<meta, marker>> /\ slipped \subseteq slipped'
    BY <2>4 DEF ReadMarker, ReadBronze, WriteReport, WriteDone, DeleteDone, DeleteReport, RowFails,
                Picks, rows, outputs, history
  <2>. QED
    BY <1>3, <2>1, <2>2, <2>3, <2>4, StepCases
<1>. QED
  BY <1>1, <1>2, <1>3

(* What is fresh stays fresh, unless the row is upserted.                      *)
LEMMA FreshStays ==
  ASSUME TypeOK, RowsKnown, Next, ~Outside
  PROVE  RowsKnown' /\ \A d \in Discs : Fresh(d) => Fresh(d)'
BY RowsMove, MarkerMoves DEF RowsKnown, Fresh

(* Where the completion pass is when another procedure takes a step.           *)
SamePass ==
  LET c == "completion" IN
  c \in Procs /\ at'[c].pc = at[c].pc /\ at'[c].d = at[c].d /\ at'[c].todo = at[c].todo
  /\ at'[c].rows = at[c].rows

LEMMA BehindStays ==
  ASSUME TypeOK, MarkerInv, Next, ~Outside, SamePass
  PROVE  CompletionBehind'
<1>. DEFINE c == "completion"
<1>1. Procs' = Procs /\ \A d \in Discs : Fresh(d) => Fresh(d)'
  BY FreshStays, RowsMove DEF MarkerInv
<1>2. at[c].d \in Discs \cup {None} /\ at[c].pc \in {"deleteDone", "deleteReport"} => at[c].d \in Discs
  BY TypeParts, FrameFields DEF SamePass, Shaped, Between
<1>. QED
  BY <1>1, <1>2 DEF MarkerInv, CompletionBehind, SamePass, Active

(* The pass goes to a step before its writes, or is through with its row.      *)
LEMMA BehindGoes ==
  ASSUME TypeOK, MarkerInv, Next, ~Outside, NEW pc \in CompletionPoints,
         "completion" \in Active,
         at'["completion"].pc = pc, at'["completion"].todo = at["completion"].todo,
         at'["completion"].rows = at["completion"].rows,
         \A d \in Discs : at'["completion"].d = d /\ pc \in {"deleteDone", "deleteReport"} => Fresh(d)'
  PROVE  CompletionBehind'
<1>1. Procs' = Procs /\ \A d \in Discs : Fresh(d) => Fresh(d)'
  BY FreshStays, RowsMove DEF MarkerInv
<1>. QED
  BY <1>1 DEF MarkerInv, CompletionBehind, Active

LEMMA BehindTurns ==
  ASSUME TypeOK, MarkerInv, Next, ~Outside, "completion" \in Active, Turned("completion"),
         \A d \in Discs : at["completion"].d = d => Fresh(d)'
  PROVE  CompletionBehind'
<1>1. Procs' = Procs /\ \A d \in Discs : Fresh(d) => Fresh(d)'
  BY FreshStays, RowsMove DEF MarkerInv
<1>. QED
  BY <1>1 DEF MarkerInv, CompletionBehind, CompletionPoints, Turned, Active

LEMMA OthersLeavePass ==
  ASSUME TypeOK, "completion" \in Procs,
         \/ IncrementalSelects \/ IncrementalDecides \/ RebuildEvaluates
         \/ IncrementalEvaluates
         \/ (\E j \in Jobs : RecollectWithdraws(j) \/ RecollectRequeues(j))
         \/ \E p \in AllProcs \ {"completion"} :
              \/ MarkerStep(p) \/ Leaving(p)
              \/ ReadMarker(p) \/ ReadBronze(p) \/ WriteReport(p) \/ WriteDone(p)
              \/ DeleteMarker(p) \/ DeleteDone(p) \/ DeleteReport(p) \/ RowFails(p)
              \/ \E d \in Discs : Picks(p, d)
  PROVE  SamePass
<1>0. AtOK /\ RowsOK
  BY TypeParts
<1>1. CASE IncrementalSelects \/ IncrementalDecides
  BY <1>0, <1>1, SelectEffect, IncrementalDecidesDoes DEF SamePass, Alone, Went, Turned
<1>2. CASE RebuildEvaluates \/ IncrementalEvaluates
  BY <1>0, <1>2, RebuildEvaluatesDoes, EvaluatesDoes DEF SamePass, Alone, Went
<1>3. ASSUME NEW j \in Jobs, RecollectWithdraws(j) \/ RecollectRequeues(j) PROVE SamePass
  BY <1>0, <1>3, WithdrawEffect, RequeueDoes DEF SamePass, Alone, Turned
<1>4. ASSUME NEW p \in AllProcs \ {"completion"}, MarkerStep(p) \/ Leaving(p) PROVE SamePass
  BY <1>0, <1>4, MarkerStepDoes, LeavingDoes DEF SamePass, Alone, Went, Turned, Stopped
<1>5. ASSUME NEW p \in AllProcs \ {"completion"},
             ReadMarker(p) \/ ReadBronze(p) \/ WriteReport(p) \/ WriteDone(p)
      PROVE  SamePass
  BY <1>0, <1>5, ReadMarkerDoes, ReadBronzeDoes, WriteReportDoes, WriteDoneDoes
     DEF SamePass, Alone, Went, Turned
<1>6. ASSUME NEW p \in AllProcs \ {"completion"},
             DeleteMarker(p) \/ DeleteDone(p) \/ DeleteReport(p) \/ RowFails(p)
      PROVE  SamePass
  BY <1>0, <1>6, DeleteMarkerDoes, DeleteDoneDoes, DeleteReportDoes, RowFailsDoes
     DEF SamePass, Alone, Went, Turned
<1>7. ASSUME NEW p \in AllProcs \ {"completion"}, NEW d \in Discs, Picks(p, d) PROVE SamePass
  BY <1>0, <1>7, PicksEffect DEF SamePass, Alone, Picks, Is
<1>. QED
  BY <1>1, <1>2, <1>3, <1>4, <1>5, <1>6, <1>7

LEMMA BehindStep ==
  ASSUME TypeOK, MarkerInv, Next, ~Outside
  PROVE  CompletionBehind'
<1>. DEFINE c == "completion"
<1>0. AtOK /\ RowsOK /\ marker \in [Discs -> Metas \cup {None}]
  BY TypeParts DEF OutputsOK
<1>1. Procs' = Procs
  BY RowsMove DEF MarkerInv
<1>2. CASE c \notin Procs
  BY <1>1, <1>2 DEF CompletionBehind, Active
<1>3. ASSUME c \in Procs, Beginning PROVE CompletionBehind'
  <2>1. PICK p, todo : Begun(p, todo)
    BY <1>3, BeginningDoes
  <2>2. UNCHANGED <<jobs, rows, outputs, history>>
    BY <1>3, BeginningDoes
  <2>3. CASE p = c
    <3>1. /\ at'[c].pc = "pick" /\ at'[c].rows = meta
          /\ at'[c].todo = {d \in Discs : marker[d] = None \/ d \in changed}
          /\ at'[c].d = None
      BY <2>1, <2>3 DEF Begun, Started
    <3>2. \A d \in Discs : meta[d] # None
      BY <1>0, SilverAssumption DEF RowsOK
    <3>3. \A d \in Discs : d \notin at'[c].todo => Fresh(d)
      BY <3>1 DEF MarkerInv, MarkerFollowsRow, Fresh
    <3>4. \A d \in Discs : Fresh(d) => Fresh(d)'
      BY <2>2 DEF Fresh, rows, outputs, history
    <3>5. at'[c].pc \in CompletionPoints \ {"deleteDone", "deleteReport"}
      BY <3>1 DEF CompletionPoints
    <3>6. \A d \in Discs : at'[c].rows[d] # None
      BY <3>1, <3>2
    <3>. QED
      BY <3>3, <3>4, <3>5, <3>6 DEF CompletionBehind
  <2>4. CASE p # c
    <3>1. SamePass
      BY <1>3, <2>1, <2>4 DEF Begun, Started, Alone, SamePass
    <3>. QED
      BY <3>1, BehindStays
  <2>. QED
    BY <2>3, <2>4
<1>4. ASSUME c \in Active, CompletionEvaluates PROVE CompletionBehind'
  <2>1. /\ Busy(c, "evaluate") /\ at'[c].pc = "decide"
        /\ at'[c].todo = at[c].todo /\ at'[c].rows = at[c].rows
    BY <1>0, <1>4, EvaluatesDoes
  <2>. QED
    BY <1>4, <2>1, BehindGoes DEF CompletionPoints
<1>5. ASSUME c \in Active, CompletionDecides PROVE CompletionBehind'
  <2>1. Busy(c, "decide")
    BY <1>0, <1>5, CompletionDecidesDoes
  <2>2. CASE Turned(c)
    <3>1. MarkerCurrent(c) \/ marker[at[c].d] = None
      BY <1>0, <1>5, <2>1, <2>2, CompletionDecidesDoes DEF Went, Turned
    <3>2. \A d \in Discs : at[c].d = d => Fresh(d)
      BY <2>1, <3>1 DEF MarkerInv, RowsKnown, MarkerCurrent, Fresh, Busy
    <3>. QED
      BY <1>5, <2>2, <3>2, BehindTurns, FreshStays DEF MarkerInv
  <2>3. CASE Went(c, "writeMarker") \/ Went(c, "deleteMarker")
    BY <1>5, <2>3, BehindGoes DEF Went, CompletionPoints
  <2>. QED
    BY <1>0, <1>5, <2>2, <2>3, CompletionDecidesDoes
<1>6. ASSUME c \in Active, MarkerStep(c) PROVE CompletionBehind'
  <2>1. /\ Busy(c, "writeMarker") /\ Turned(c)
        /\ marker' = [marker EXCEPT ![at[c].d] = at[c].rows[at[c].d]]
        /\ UNCHANGED <<rows, slipped>>
    BY <1>0, <1>6, MarkerStepDoes
  <2>2. \A d \in Discs : at[c].d = d => Fresh(d)'
    BY <1>0, <2>1 DEF MarkerInv, RowsKnown, Fresh, Busy, rows
  <2>. QED
    BY <1>6, <2>1, <2>2, BehindTurns
<1>7. ASSUME c \in Active,
             ReadMarker(c) \/ ReadBronze(c) \/ WriteReport(c) \/ WriteDone(c)
      PROVE  CompletionBehind'
  BY <1>7 DEF MarkerInv, CompletionBehind, CompletionPoints, ReadMarker, ReadBronze, WriteReport,
              WriteDone, Is
<1>8. ASSUME c \in Active, DeleteMarker(c) PROVE CompletionBehind'
  <2>1. Busy(c, "deleteMarker") /\ Went(c, "deleteDone")
    BY <1>0, <1>8, DeleteMarkerDoes
  <2>2. \A d \in Discs : at'[c].d = d => Fresh(d)'
    BY <1>0, <1>8, <2>1 DEF DeleteMarker, Fresh, Went, Busy
  <2>. QED
    BY <1>8, <2>1, <2>2, BehindGoes DEF Went, CompletionPoints
<1>9. ASSUME c \in Active, DeleteDone(c) PROVE CompletionBehind'
  <2>1. Busy(c, "deleteDone") /\ Went(c, "deleteReport")
    BY <1>0, <1>9, DeleteDoneDoes
  <2>2. \A d \in Discs : at'[c].d = d => Fresh(d)'
    BY <1>9, <2>1, FreshStays DEF MarkerInv, CompletionBehind, Went, Busy
  <2>. QED
    BY <1>9, <2>1, <2>2, BehindGoes DEF Went, CompletionPoints
<1>10. ASSUME c \in Active, DeleteReport(c) PROVE CompletionBehind'
  <2>1. Busy(c, "deleteReport") /\ Turned(c)
    BY <1>0, <1>10, DeleteReportDoes
  <2>2. \A d \in Discs : at[c].d = d => Fresh(d)'
    BY <1>10, <2>1, FreshStays DEF MarkerInv, CompletionBehind, Busy
  <2>. QED
    BY <1>10, <2>1, <2>2, BehindTurns
<1>11. ASSUME c \in Active, RowFails(c) PROVE CompletionBehind'
  <2>1. Turned(c)
    BY <1>0, <1>11, RowFailsDoes
  <2>2. \A d \in Discs : at[c].d = d => Fresh(d)'
    BY <1>11 DEF RowFails, Fresh
  <2>. QED
    BY <1>11, <2>1, <2>2, BehindTurns
<1>12. ASSUME c \in Active, NEW d \in Discs, Picks(c, d) PROVE CompletionBehind'
  <2>1. at'[c].pc = "evaluate" /\ at'[c].todo = at[c].todo /\ at'[c].rows = at[c].rows
    BY <1>0, <1>12, PicksEffect DEF FirstSteps, Active
  <2>. QED
    BY <1>12, <2>1, BehindGoes DEF CompletionPoints
<1>13. ASSUME c \in Active, Leaving(c) PROVE CompletionBehind'
  <2>1. at'[c].pc = "idle"
    BY <1>0, <1>13, LeavingDoes DEF Stopped, Idle
  <2>. QED
    BY <2>1 DEF CompletionBehind, Active
<1>14. ASSUME c \in Procs, c \notin Active PROVE Beginning \/ Leaving(c) \/ SamePass
  <2>1. at[c].pc = "idle" /\ at[c].d = None
    BY <1>0, <1>14, FrameFields DEF Active, Shaped, Between
  <2>2. /\ ~CompletionEvaluates /\ ~CompletionDecides /\ ~MarkerStep(c) /\ ~ReadMarker(c)
        /\ ~ReadBronze(c) /\ ~WriteReport(c) /\ ~WriteDone(c) /\ ~DeleteMarker(c)
        /\ ~DeleteDone(c) /\ ~DeleteReport(c) /\ ~RowFails(c) /\ \A d \in Discs : ~Picks(c, d)
    BY <2>1 DEF CompletionEvaluates, CompletionDecides, MarkerStep, CompletionWritesMarker, ReadMarker,
                ReadBronze, WriteReport, WriteDone, DeleteMarker, DeleteDone, DeleteReport,
                RowFails, Picks, Is
  <2>. QED
    BY <1>14, <2>2, StepCases, OthersLeavePass
<1>15. CASE c \in Procs \ Active
  <2>1. CASE Beginning
    BY <1>15, <2>1, <1>3
  <2>2. CASE Leaving(c)
    BY <1>0, <1>15, <2>2, LeavingDoes DEF Active
  <2>3. CASE SamePass
    BY <2>3, BehindStays
  <2>. QED
    BY <1>14, <1>15, <2>1, <2>2, <2>3
<1>16. CASE c \in Active
  <2>1. CASE SamePass
    BY <2>1, BehindStays
  <2>2. c \in Procs
    BY <1>16 DEF Active
  <2>. QED
    BY <1>3, <1>4, <1>5, <1>6, <1>7, <1>8, <1>9, <1>10, <1>11, <1>12, <1>13, <1>16, <2>1, <2>2,
       StepCases, OthersLeavePass
<1>. QED
  BY <1>2, <1>15, <1>16

LEMMA MarkerOutside ==
  ASSUME TypeOK, MarkerInv, Outside
  PROVE  MarkerInv'
<1>0. RowsOK
  BY TypeParts
<1>1. UNCHANGED <<outputs, at>> /\ Procs' = Procs
  BY OutsideDoes DEF Procs
<1>2. ASSUME NEW j \in Jobs, JobStep(j) PROVE MarkerInv'
  <2>1. UNCHANGED <<rows, slipped>>
    BY <1>2 DEF JobStep, JobMoves, FileArrives, JobDoneBegins, JobDoneCommits, history
  <2>. QED
    BY <1>1, <2>1 DEF MarkerInv, MarkerFollowsRow, RowsKnown, CompletionBehind, Active, Fresh, rows,
                      outputs
<1>3. ASSUME NEW e \in Discs, Upsert(e) PROVE MarkerInv'
  <2>1. /\ \A d \in Discs : d # e => /\ meta'[d] = meta[d]
                                     /\ d \in slipped' <=> d \in slipped
        /\ changed \subseteq changed' /\ e \in changed' \cup slipped'
        /\ e \in slipped' \/ \A p \in Procs : at[p].rows[e] = None
    BY <1>0, <1>3 DEF RowsOK, Upsert
  <2>. HIDE <1>3
  <2>2. MarkerFollowsRow'
    BY <1>1, <2>1 DEF MarkerInv, MarkerFollowsRow, outputs
  <2>3. RowsKnown'
    BY <1>1, <2>1 DEF MarkerInv, RowsKnown
  <2>4. CASE "completion" \in Active
    <3>1. e \in slipped'
      BY <2>1, <2>4 DEF MarkerInv, CompletionBehind, Active
    <3>2. \A d \in Discs : Fresh(d) => Fresh(d)'
      BY <1>1, <2>1, <3>1 DEF Fresh, outputs
    <3>. QED
      BY <1>1, <2>2, <2>3, <3>2 DEF MarkerInv, CompletionBehind, Active
  <2>5. CASE "completion" \notin Active
    BY <1>1, <2>2, <2>3, <2>5 DEF MarkerInv, CompletionBehind, Active
  <2>. QED
    BY <2>4, <2>5
<1>. QED
  BY <1>2, <1>3 DEF Outside

LEMMA MarkerStepKeeps ==
  ASSUME TypeOK, MarkerInv, [Next]_vars
  PROVE  MarkerInv'
<1>1. CASE Next /\ ~Outside
  <2>1. CASE CompletionEnds
    <3>1. \A d \in Discs : Fresh(d)
      BY <2>1 DEF CompletionEnds, MarkerInv, CompletionBehind, Active, Is
    <3>. QED
      BY <1>1, <3>1, BehindStep, FreshStays DEF MarkerInv, MarkerFollowsRow, Fresh
  <2>2. CASE ~CompletionEnds
    <3>1. UNCHANGED changed
      <4>1. CASE AtWork
        BY <4>1, AtWorkKeeps DEF rows
      <4>2. CASE Operating
        BY <4>2 DEF Operating, RecollectWithdraws, RecollectRequeues, rows
      <4>3. ASSUME NEW p \in AllProcs, Leaving(p) PROVE UNCHANGED changed
        BY <2>2, <4>3 DEF Leaving, IncrementalEnds, IncrementalStopsEarly, Ends, Dies, rows
      <4>. QED
        BY <1>1, <4>1, <4>2, <4>3, StepKinds
    <3>2. \A d \in Discs : Fresh(d) => Fresh(d)'
      BY <1>1, FreshStays DEF MarkerInv
    <3>3. MarkerFollowsRow' = \A d \in Discs : Fresh(d)' \/ d \in changed'
      BY DEF MarkerFollowsRow, Fresh
    <3>4. \A d \in Discs : Fresh(d) \/ d \in changed
      BY DEF MarkerInv, MarkerFollowsRow, Fresh
    <3>. QED
      BY <1>1, <3>1, <3>2, <3>3, <3>4, BehindStep, FreshStays DEF MarkerInv
  <2>. QED
    BY <2>1, <2>2
<1>2. CASE UNCHANGED vars
  BY <1>2 DEF MarkerInv, MarkerFollowsRow, RowsKnown, CompletionBehind, Active, Procs, Fresh, vars,
              rows, outputs, history
<1>. QED
  BY <1>1, <1>2, MarkerOutside

LEMMA MarkerInit == Init => MarkerInv
BY SilverAssumption DEF Init, MarkerInv, MarkerFollowsRow, RowsKnown, CompletionBehind, Active, Procs, Idle

(* A pass that leaves out what has a marker and has not changed since the last *)
(* pass leaves out no marker that differs from its row, whatever runs next to *)
(* it, fails or dies.                                                        *)
THEOREM MarkerCorrect == Spec => []MarkerFollowsRow
<1>1. MarkerInv => MarkerFollowsRow
  BY DEF MarkerInv
<1>. QED
  BY <1>1, TypeCorrect, MarkerInit, MarkerStepKeeps, PTL DEF Spec

(* A done report is whole --------------------------------------------------- *)

(* What keeps the report of an undisturbed disclosure whole: nobody else is at  *)
(* it while it is deleted; a marker is there only with the files; what a       *)
(* procedure has evaluated or read of the files still holds; and what it is    *)
(* about to delete or to withdraw is no longer announced.                     *)
Sharing ==
  \A p, q \in Procs : p # q /\ at[p].d = at[q].d /\ at[q].pc \in Deleting => at[p].d \in disturbed

Announced(d) == (marker[d] # None => Present(d)) /\ (d \in done => Whole(d))

Holds(p, d) ==
  /\ at[p].pc = "writeReport" => \A j \in Needs[d] : at[p].files[j] = "current"
  /\ at[p].pc = "writeDone" => Whole(d)
  /\ \/ at[p].pc \in {"readBronze", "writeMarker"}
     \/ at[p].pc = "decide" /\ at[p].verdict
     \/ p = "rebuild" /\ at[p].read
     => Present(d)
  /\ at[p].pc \in {"deleteReport", "withdraw"} => d \notin done
  /\ p = "recollect" /\ at[p].pc \in {"deleteDone", "deleteReport", "withdraw"} => marker[d] = None

ReportInv ==
  /\ Sharing
  /\ \A d \in Discs : d \notin disturbed => Announced(d)
  /\ \A p \in Procs, d \in Discs : at[p].d = d /\ d \notin disturbed => Holds(p, d)
  /\ \A p \in Procs : at[p].d = None => ~at[p].read

(* A step of p concerns the disclosure at hand only.                          *)
Touches(p) ==
  /\ p \in Procs /\ Alone(p)
  /\ disturbed \subseteq disturbed' /\ UNCHANGED complete
  /\ \A d \in Discs : d # at[p].d => /\ marker'[d] = marker[d] /\ report'[d] = report[d]
                                     /\ d \in done' <=> d \in done

LEMMA OthersHold ==
  ASSUME TypeOK, ReportInv, NEW p \in Procs, Touches(p),
         NEW d \in Discs, d \notin disturbed',
         at[p].d = d /\ at[p].pc \notin Deleting /\ Whole(d) => Whole(d)',
         NEW q \in Procs, q # p, at'[q].d = d
  PROVE  Holds(q, d)'
<1>1. at'[q] = at[q] /\ at[q].d = d /\ d \notin disturbed
  BY DEF Touches, Alone
<1>2. Holds(q, d)
  BY <1>1 DEF ReportInv
<1>3. Present(d)' <=> Present(d)
  BY DEF Touches, Present
<1>4. CASE at[p].d = d
  <2>1. at[p].pc \notin Deleting /\ at[q].pc \notin Deleting
    BY <1>1, <1>4 DEF ReportInv, Sharing
  <2>. QED
    BY <1>1, <1>2, <1>3, <1>4, <2>1 DEF Holds, Deleting
<1>5. CASE at[p].d # d
  <2>1. /\ marker'[d] = marker[d]
        /\ d \in done' <=> d \in done
        /\ Whole(d)' <=> Whole(d)
    BY <1>5 DEF Touches, Whole
  <2>. QED
    BY <1>1, <1>2, <1>3, <2>1 DEF Holds
<1>. QED
  BY <1>4, <1>5

LEMMA TouchStep ==
  ASSUME TypeOK, ReportInv, NEW p, Touches(p), Sharing',
         \A d \in Discs : at[p].d = d /\ d \notin disturbed' =>
            /\ Announced(d)'
            /\ at[p].pc \notin Deleting /\ Whole(d) => Whole(d)',
         \A d \in Discs : at'[p].d = d /\ d \notin disturbed' => Holds(p, d)',
         at'[p].d = None => ~at'[p].read
  PROVE  ReportInv'
<1>1. p \in Procs /\ Procs' = Procs /\ disturbed \subseteq disturbed'
      /\ \A q \in Procs : q # p => at'[q] = at[q]
  BY DEF Touches, Alone
<1>2. ASSUME NEW d \in Discs, d \notin disturbed' PROVE Announced(d)'
  <2>1. CASE at[p].d = d
    BY <1>2, <2>1
  <2>2. CASE at[p].d # d
    <3>1. /\ marker'[d] = marker[d]
          /\ d \in done' <=> d \in done
          /\ Present(d)' <=> Present(d)
          /\ Whole(d)' <=> Whole(d)
      BY <2>2 DEF Touches, Whole, Present
    <3>2. Announced(d)
      BY <1>1, <1>2 DEF ReportInv
    <3>. QED
      BY <3>1, <3>2 DEF Announced
  <2>. QED
    BY <2>1, <2>2
<1>3. ASSUME NEW q \in Procs, NEW d \in Discs, at'[q].d = d, d \notin disturbed'
      PROVE  Holds(q, d)'
  BY <1>1, <1>3, OthersHold
<1>4. ASSUME NEW q \in Procs, at'[q].d = None PROVE ~at'[q].read
  BY <1>1, <1>4 DEF ReportInv
<1>. QED
  BY <1>1, <1>2, <1>3, <1>4 DEF ReportInv

LEMMA SharingGoes ==
  ASSUME Sharing, NEW p \in Procs, Alone(p), NEW d \in Discs, NEW pc,
         at'[p].d = d, at'[p].pc = pc, disturbed' = disturbed \cup Clash(p, d, pc)
  PROVE  Sharing'
<1>. SUFFICES ASSUME NEW q \in Procs, NEW r \in Procs, q # r, at'[q].d = at'[r].d,
                     at'[r].pc \in Deleting
              PROVE  at'[q].d \in disturbed'
  BY DEF Sharing, Alone
<1>1. CASE r = p
  BY <1>1 DEF Alone, Clash, Others, Handles
<1>2. CASE q = p
  BY <1>2 DEF Alone, Clash, Others, Handles
<1>3. CASE q # p /\ r # p
  BY <1>3 DEF Alone, Sharing
<1>. QED
  BY <1>1, <1>2, <1>3

LEMMA SharingApart ==
  ASSUME AtOK, AtOK', Sharing, NEW p \in Procs, Alone(p), disturbed \subseteq disturbed',
         at'[p].d = None
  PROVE  Sharing'
<1>. SUFFICES ASSUME NEW q \in Procs, NEW r \in Procs, q # r, at'[q].d = at'[r].d,
                     at'[r].pc \in Deleting
              PROVE  at'[q].d \in disturbed'
  BY DEF Sharing, Alone
<1>1. at'[p].pc \in Between
  BY DEF AtOK, Shaped, Alone
<1>2. \A s \in Procs : at[s].pc \in Deleting => at[s].d # None
  BY DEF AtOK, Shaped, Deleting, Between
<1>3. CASE r = p
  BY <1>1, <1>3 DEF Deleting, Between
<1>4. CASE q = p
  BY <1>2, <1>4 DEF Alone
<1>5. CASE q # p /\ r # p
  BY <1>5 DEF Alone, Sharing
<1>. QED
  BY <1>3, <1>4, <1>5

LEMMA SharingStays ==
  ASSUME Sharing, NEW p \in Procs, Alone(p), disturbed \subseteq disturbed',
         at'[p].d = at[p].d, at'[p].pc \notin Deleting
  PROVE  Sharing'
BY DEF Sharing, Alone

(* A step that turns to the next row, and one that goes on with this one.      *)
LEMMA TouchTurns ==
  ASSUME TypeOK, ReportInv, NEW p \in Procs, Turned(p), UNCHANGED complete,
         disturbed \subseteq disturbed',
         \A d \in Discs : d # at[p].d => /\ marker'[d] = marker[d] /\ report'[d] = report[d]
                                         /\ d \in done' <=> d \in done,
         \A d \in Discs : at[p].d = d /\ d \notin disturbed' =>
            /\ Announced(d)'
            /\ at[p].pc \notin Deleting /\ Whole(d) => Whole(d)'
  PROVE  ReportInv'
<1>1. Sharing'
  BY TypeParts, SharingApart DEF Turned, ReportInv
<1>2. Touches(p)
  BY DEF Touches, Turned
<1>3. \A d \in Discs : at'[p].d # d
  BY SilverAssumption DEF Turned
<1>. QED
  BY <1>1, <1>2, <1>3, TouchStep DEF Turned

LEMMA TouchGoes ==
  ASSUME TypeOK, ReportInv, NEW p \in Procs, at[p].d \in Discs, NEW pc, Went(p, pc),
         UNCHANGED complete, disturbed' = disturbed \cup Clash(p, at[p].d, pc),
         \A d \in Discs : d # at[p].d => /\ marker'[d] = marker[d] /\ report'[d] = report[d]
                                         /\ d \in done' <=> d \in done,
         \A d \in Discs : at[p].d = d /\ d \notin disturbed' =>
            /\ Announced(d)'
            /\ at[p].pc \notin Deleting /\ Whole(d) => Whole(d)'
            /\ Holds(p, d)'
  PROVE  ReportInv'
<1>1. Sharing'
  BY SharingGoes DEF Went, ReportInv
<1>2. Touches(p)
  BY DEF Touches, Went
<1>3. at'[p].d # None /\ at'[p].d = at[p].d
  BY SilverAssumption DEF Went
<1>4. \A d \in Discs : at'[p].d = d => at[p].d = d
  BY <1>3
<1>. HIDE DEF Touches
<1>. QED
  BY <1>1, <1>2, <1>3, <1>4, TouchStep

(* What the invariant says of the disclosure at hand.                         *)
LEMMA AtHandHolds ==
  ASSUME ReportInv, NEW p \in Procs, NEW d \in Discs, at[p].d = d, d \notin disturbed'
         , disturbed \subseteq disturbed'
  PROVE  Announced(d) /\ Holds(p, d)
BY DEF ReportInv

LEMMA ReportReads ==
  ASSUME TypeOK, ReportInv, NEW p, ReadMarker(p)
  PROVE  ReportInv'
<1>0. AtOK /\ Busy(p, "readMarker") /\ Alone(p) /\ AtOK'
  BY TypeParts, ReadMarkerDoes
<1>1. UNCHANGED <<jobs, outputs>>
  BY DEF ReadMarker
<1>2. CASE Turned(p) /\ disturbed' = disturbed
  <2>1. \A d \in Discs : at[p].d = d /\ d \notin disturbed' =>
            Announced(d)' /\ (at[p].pc \notin Deleting /\ Whole(d) => Whole(d)')
    BY <1>0, <1>1, <1>2 DEF ReportInv, Announced, Present, Whole, Busy, outputs, jobs
  <2>. QED
    BY <1>0, <1>1, <1>2, <2>1, TouchTurns DEF Busy, outputs, jobs
<1>3. CASE ~(Turned(p) /\ disturbed' = disturbed)
  <2>1. /\ marker[at[p].d] # None /\ at'[p].d = at[p].d /\ at'[p].read
        /\ at'[p].pc = IF p = "rebuild" THEN "deleteDone" ELSE "readBronze"
        /\ disturbed' = disturbed \cup Clash(p, at[p].d, at'[p].pc)
    BY <1>3, TypeParts, ReadMarkerDoes
  <2>2. Sharing' /\ Touches(p)
    BY <1>0, <1>1, <2>1, SharingGoes DEF Busy, ReportInv, Touches, outputs, jobs
  <2>3. ASSUME NEW d \in Discs, at[p].d = d, d \notin disturbed'
        PROVE  Announced(d)' /\ (Whole(d) => Whole(d)') /\ Holds(p, d)'
    <3>1. Announced(d) /\ marker[d] # None
      BY <1>0, <2>1, <2>3, AtHandHolds DEF Busy
    <3>2. Announced(d)' /\ Present(d)' /\ (Whole(d) => Whole(d)')
      BY <1>1, <3>1 DEF Announced, Present, Whole, outputs, jobs
    <3>. QED
      BY <2>1, <3>2 DEF Holds
  <2>. HIDE DEF Touches
  <2>. QED
    BY <1>0, <2>1, <2>2, <2>3, TouchStep, SilverAssumption DEF Busy
<1>. QED
  BY <1>2, <1>3

LEMMA ReportReadsBronze ==
  ASSUME TypeOK, ReportInv, NEW p, ReadBronze(p)
  PROVE  ReportInv'
<1>0. /\ AtOK /\ Busy(p, "readBronze") /\ Alone(p) /\ AtOK'
      /\ at'[p].pc = "writeReport" /\ at'[p].files = Read(p)
      /\ at'[p].d = at[p].d /\ at'[p].read = at[p].read
  BY TypeParts, ReadBronzeDoes
<1>1. UNCHANGED <<jobs, outputs, disturbed>>
  BY DEF ReadBronze, history
<1>2. Sharing' /\ Touches(p)
  BY <1>0, <1>1, SharingStays DEF Busy, ReportInv, Touches, Deleting, outputs, jobs
<1>3. ASSUME NEW d \in Discs, at[p].d = d, d \notin disturbed'
      PROVE  Announced(d)' /\ (Whole(d) => Whole(d)') /\ Holds(p, d)'
  <2>1. Announced(d) /\ Present(d)
    BY <1>0, <1>1, <1>3, AtHandHolds DEF Busy, Holds
  <2>2. Announced(d)' /\ Present(d)' /\ (Whole(d) => Whole(d)')
    BY <1>1, <2>1 DEF Announced, Present, Whole, outputs, jobs
  <2>3. \A j \in Needs[d] : at'[p].files[j] = "current"
    BY <1>0, <1>3, <2>1, SilverAssumption DEF Read, Present
  <2>. QED
    BY <1>0, <2>2, <2>3 DEF Holds
<1>. QED
  BY <1>0, <1>2, <1>3, TouchStep, SilverAssumption DEF Busy

LEMMA ReportWrites ==
  ASSUME TypeOK, ReportInv, NEW p, WriteReport(p)
  PROVE  ReportInv'
<1>0. /\ AtOK /\ Busy(p, "writeReport") /\ Went(p, "writeDone")
      /\ disturbed' = disturbed \cup Clash(p, at[p].d, "writeDone")
      /\ report \in [Discs -> [Jobs -> FileState]]
  BY TypeParts, WriteReportDoes DEF OutputsOK
<1>1. /\ UNCHANGED <<jobs, marker, done>>
      /\ report' = [report EXCEPT ![at[p].d] = at[p].files]
  BY DEF WriteReport
<1>2. ASSUME NEW d \in Discs, at[p].d = d, d \notin disturbed'
      PROVE  Announced(d)' /\ (Whole(d) => Whole(d)') /\ Holds(p, d)'
  <2>1. Announced(d) /\ \A j \in Needs[d] : at[p].files[j] = "current"
    BY <1>0, <1>2, AtHandHolds DEF Busy, Holds
  <2>2. Whole(d)'
    BY <1>0, <1>1, <1>2, <2>1 DEF Whole
  <2>3. Present(d)' = Present(d)
    BY <1>1 DEF Present, jobs
  <2>4. Present(d)' \/ ~(p = "rebuild" /\ at[p].read)
    BY <1>0, <1>2, <2>3, AtHandHolds DEF Busy, Holds
  <2>5. Announced(d)'
    BY <1>1, <2>1, <2>2, <2>3 DEF Announced
  <2>. QED
    BY <1>0, <2>2, <2>4, <2>5 DEF Holds, Went
<1>. QED
  BY <1>0, <1>1, <1>2, TouchGoes DEF Busy, jobs

LEMMA ReportIsDone ==
  ASSUME TypeOK, ReportInv, NEW p, WriteDone(p)
  PROVE  ReportInv'
<1>0. AtOK /\ Busy(p, "writeDone") /\ Turned(p) /\ disturbed' = disturbed
  BY TypeParts, WriteDoneDoes
<1>1. UNCHANGED <<jobs, marker, report>> /\ done' = done \cup {at[p].d}
  BY DEF WriteDone
<1>2. ASSUME NEW d \in Discs, at[p].d = d, d \notin disturbed'
      PROVE  Announced(d)' /\ (Whole(d) => Whole(d)')
  <2>1. Announced(d) /\ Whole(d)
    BY <1>0, <1>2, AtHandHolds DEF Busy, Holds
  <2>. QED
    BY <1>1, <2>1 DEF Announced, Whole, Present, jobs
<1>. QED
  BY <1>0, <1>1, <1>2, TouchTurns DEF Busy, jobs

LEMMA ReportMarks ==
  ASSUME TypeOK, ReportInv, NEW p, MarkerStep(p)
  PROVE  ReportInv'
<1>0. /\ AtOK /\ Busy(p, "writeMarker")
      /\ marker' = [marker EXCEPT ![at[p].d] = at[p].rows[at[p].d]]
      /\ UNCHANGED <<jobs, report, done>>
      /\ marker \in [Discs -> Metas \cup {None}]
  BY TypeParts, MarkerStepDoes DEF OutputsOK
<1>1. ASSUME NEW d \in Discs, at[p].d = d, d \notin disturbed', disturbed \subseteq disturbed'
      PROVE  Announced(d)' /\ (Whole(d) => Whole(d)') /\ Present(d)'
  <2>1. Announced(d) /\ Present(d)
    BY <1>0, <1>1, AtHandHolds DEF Busy, Holds
  <2>. QED
    BY <1>0, <2>1 DEF Announced, Whole, Present, jobs
<1>2. CASE Turned(p) /\ disturbed' = disturbed
  BY <1>0, <1>1, <1>2, TouchTurns DEF Busy, jobs
<1>3. CASE Went(p, "readMarker") /\ disturbed' = disturbed \cup Clash(p, at[p].d, "readMarker")
  <2>1. ASSUME NEW d \in Discs, at[p].d = d, d \notin disturbed' PROVE Holds(p, d)'
    BY <1>1, <1>3, <2>1 DEF Holds, Went
  <2>. QED
    BY <1>0, <1>1, <1>3, <2>1, TouchGoes DEF Busy, jobs
<1>. QED
  BY <1>2, <1>3, TypeParts, MarkerStepDoes

LEMMA ReportUnmarks ==
  ASSUME TypeOK, ReportInv, NEW p, DeleteMarker(p)
  PROVE  ReportInv'
<1>0. /\ AtOK /\ Busy(p, "deleteMarker") /\ Went(p, "deleteDone")
      /\ disturbed' = disturbed \cup Clash(p, at[p].d, "deleteDone")
      /\ marker \in [Discs -> Metas \cup {None}]
  BY TypeParts, DeleteMarkerDoes DEF OutputsOK
<1>1. UNCHANGED <<jobs, report, done>> /\ marker' = [marker EXCEPT ![at[p].d] = None]
  BY DEF DeleteMarker
<1>2. ASSUME NEW d \in Discs, at[p].d = d, d \notin disturbed'
      PROVE  Announced(d)' /\ (Whole(d) => Whole(d)') /\ Holds(p, d)'
  <2>1. Announced(d) /\ (p = "rebuild" /\ at[p].read => Present(d))
    BY <1>0, <1>2, AtHandHolds DEF Busy, Holds
  <2>2. Announced(d)' /\ (Whole(d) => Whole(d)') /\ Present(d)' = Present(d) /\ marker'[d] = None
    BY <1>0, <1>1, <1>2, <2>1 DEF Announced, Whole, Present, jobs
  <2>. QED
    BY <1>0, <2>1, <2>2 DEF Holds, Went
<1>. QED
  BY <1>0, <1>1, <1>2, TouchGoes DEF Busy, jobs

LEMMA ReportUndone ==
  ASSUME TypeOK, ReportInv, NEW p, DeleteDone(p)
  PROVE  ReportInv'
<1>0. /\ AtOK /\ Busy(p, "deleteDone") /\ Went(p, "deleteReport")
      /\ disturbed' = disturbed \cup Clash(p, at[p].d, "deleteReport")
  BY TypeParts, DeleteDoneDoes
<1>1. UNCHANGED <<jobs, report, marker>> /\ done' = done \ {at[p].d}
  BY DEF DeleteDone
<1>2. ASSUME NEW d \in Discs, at[p].d = d, d \notin disturbed'
      PROVE  Announced(d)' /\ (Whole(d) => Whole(d)') /\ Holds(p, d)'
  <2>1. /\ Announced(d) /\ (p = "rebuild" /\ at[p].read => Present(d))
        /\ p = "recollect" => marker[d] = None
    BY <1>0, <1>2, AtHandHolds DEF Busy, Holds
  <2>2. Announced(d)' /\ (Whole(d) => Whole(d)') /\ Present(d)' = Present(d) /\ d \notin done'
    BY <1>0, <1>1, <1>2, <2>1 DEF Announced, Whole, Present, jobs
  <2>. QED
    BY <1>0, <1>1, <2>1, <2>2 DEF Holds, Went
<1>. QED
  BY <1>0, <1>1, <1>2, TouchGoes DEF Busy, jobs

LEMMA ReportDeleted ==
  ASSUME TypeOK, ReportInv, NEW p, DeleteReport(p)
  PROVE  ReportInv'
<1>0. AtOK /\ Busy(p, "deleteReport") /\ p \in Procs /\ at[p].d \in Discs
  BY TypeParts, DeleteReportDoes DEF Busy
<1>1. /\ UNCHANGED <<jobs, marker, done>>
      /\ \A d \in Discs : d # at[p].d => report'[d] = report[d]
  BY TypeParts DEF DeleteReport, OutputsOK
<1>2. ASSUME NEW d \in Discs, at[p].d = d, d \notin disturbed', disturbed \subseteq disturbed'
      PROVE  /\ Announced(d)' /\ (p = "rebuild" /\ at[p].read => Present(d)')
             /\ d \notin done' /\ (p = "recollect" => marker'[d] = None)
  <2>1. Announced(d) /\ Holds(p, d) /\ at[p].pc = "deleteReport"
    BY <1>0, <1>2, AtHandHolds DEF Busy
  <2>. QED
    BY <1>1, <2>1 DEF Announced, Holds, Present, jobs
<1>3. at[p].pc \in Deleting
  BY <1>0 DEF Busy, Deleting
<1>4. CASE Turned(p) /\ disturbed' = disturbed
  BY <1>0, <1>1, <1>2, <1>3, <1>4, TouchTurns DEF jobs
<1>5. ASSUME NEW pc, Went(p, pc), disturbed' = disturbed \cup Clash(p, at[p].d, pc),
             \/ p = "recollect" /\ pc = "withdraw"
             \/ p = "rebuild" /\ at[p].read /\ pc = "readBronze"
      PROVE  ReportInv'
  <2>1. ASSUME NEW d \in Discs, at[p].d = d, d \notin disturbed' PROVE Holds(p, d)'
    BY <1>2, <1>5, <2>1 DEF Holds, Went
  <2>. QED
    BY <1>0, <1>1, <1>2, <1>3, <1>5, <2>1, TouchGoes DEF jobs
<1>. QED
  BY <1>4, <1>5, TypeParts, DeleteReportDoes

(* Steps without a disclosure at hand before or after.                        *)
LEMMA ReportApart ==
  ASSUME TypeOK, AtOK', ReportInv, NEW p \in Procs, Alone(p), at'[p].d = None, ~at'[p].read,
         UNCHANGED <<outputs, complete, disturbed>>
  PROVE  ReportInv'
<1>1. Sharing' /\ Touches(p)
  BY TypeParts, SharingApart DEF ReportInv, Touches, outputs
<1>2. \A d \in Discs : d \notin disturbed' => Announced(d)' /\ (Whole(d) => Whole(d)')
  BY DEF ReportInv, Announced, Present, Whole, outputs
<1>3. \A d \in Discs : at'[p].d # d
  BY SilverAssumption
<1>. QED
  BY <1>1, <1>2, <1>3, TouchStep

LEMMA ReportEvaluates ==
  ASSUME TypeOK, ReportInv, NEW p, (p = "incremental" /\ IncrementalEvaluates)
                                   \/ (p = "completion" /\ CompletionEvaluates)
  PROVE  ReportInv'
<1>0. /\ AtOK /\ Busy(p, "evaluate") /\ Alone(p) /\ AtOK'
      /\ at'[p].pc = "decide" /\ at'[p].d = at[p].d /\ at'[p].read = at[p].read
      /\ at'[p].verdict => Present(at[p].d) \/ at[p].d \in disturbed'
      /\ disturbed \subseteq disturbed'
      /\ UNCHANGED <<jobs, outputs>>
      /\ p # "rebuild" /\ p # "recollect"
  BY TypeParts, EvaluatesDoes
<1>1. Sharing' /\ Touches(p)
  BY <1>0, SharingStays DEF Busy, ReportInv, Touches, Deleting, outputs, jobs
<1>2. ASSUME NEW d \in Discs, at[p].d = d, d \notin disturbed'
      PROVE  Announced(d)' /\ (Whole(d) => Whole(d)') /\ Holds(p, d)'
  <2>1. Announced(d) /\ (at'[p].verdict => Present(d))
    BY <1>0, <1>2, AtHandHolds DEF Busy
  <2>2. Announced(d)' /\ (Whole(d) => Whole(d)') /\ Present(d)' = Present(d)
    BY <1>0, <2>1 DEF Announced, Whole, Present, outputs, jobs
  <2>. QED
    BY <1>0, <2>1, <2>2 DEF Holds
<1>. HIDE DEF Touches
<1>. QED
  BY <1>0, <1>1, <1>2, TouchStep, SilverAssumption DEF Busy

LEMMA ReportDecides ==
  ASSUME TypeOK, ReportInv, IncrementalDecides \/ CompletionDecides \/ RebuildEvaluates
  PROVE  ReportInv'
<1>0. AtOK
  BY TypeParts
<1>1. UNCHANGED <<jobs, outputs>>
  BY DEF IncrementalDecides, CompletionDecides, RebuildEvaluates
<1>2. ASSUME NEW p \in Procs, NEW d \in Discs, at[p].d = d, d \notin disturbed',
             disturbed \subseteq disturbed'
      PROVE  /\ Announced(d)' /\ (Whole(d) => Whole(d)')
             /\ p = "rebuild" /\ at[p].read => Present(d)'
             /\ (Present(d) \/ (at[p].pc = "decide" /\ at[p].verdict)) => Present(d)'
  <2>1. Announced(d) /\ Holds(p, d)
    BY <1>2, AtHandHolds
  <2>. QED
    BY <1>1, <2>1 DEF Announced, Holds, Whole, Present, outputs, jobs
<1>3. ASSUME NEW p \in Procs, Turned(p), disturbed' = disturbed PROVE ReportInv'
  BY <1>1, <1>2, <1>3, TouchTurns DEF outputs, jobs
<1>4. ASSUME NEW p \in Procs, NEW pc \in {"readBronze", "writeMarker", "deleteMarker"},
             at[p].d \in Discs, Went(p, pc), disturbed' = disturbed \cup Clash(p, at[p].d, pc),
             pc = "deleteMarker" \/ Present(at[p].d) \/ (at[p].pc = "decide" /\ at[p].verdict)
      PROVE  ReportInv'
  <2>1. ASSUME NEW d \in Discs, at[p].d = d, d \notin disturbed' PROVE Holds(p, d)'
    BY <1>2, <1>4, <2>1 DEF Holds, Went
  <2>. QED
    BY <1>1, <1>2, <1>4, <2>1, TouchGoes DEF outputs, jobs
<1>5. CASE IncrementalDecides
  BY <1>0, <1>3, <1>4, <1>5, IncrementalDecidesDoes DEF Busy
<1>6. CASE CompletionDecides
  BY <1>0, <1>3, <1>4, <1>6, CompletionDecidesDoes DEF Busy
<1>7. CASE RebuildEvaluates
  BY <1>0, <1>3, <1>4, <1>7, RebuildEvaluatesDoes DEF Busy
<1>. QED
  BY <1>5, <1>6, <1>7

LEMMA ReportPicks ==
  ASSUME TypeOK, ReportInv, NEW p, NEW d \in Discs, Picks(p, d)
  PROVE  ReportInv'
<1>0. p \in Procs /\ AtOK
  BY TypeParts DEF Picks, Is
<1>1. /\ AtOK' /\ Alone(p) /\ at[p].d = None
      /\ at'[p].pc \in FirstSteps(p) /\ at'[p].d = d /\ at'[p].read = at[p].read
      /\ disturbed' = disturbed \cup Clash(p, d, at'[p].pc)
  BY <1>0, PicksEffect
<1>2. UNCHANGED <<jobs, outputs>> /\ at'[p].pc \in {"evaluate", "readMarker", "deleteMarker"}
  BY <1>1 DEF Picks, FirstSteps
<1>3. Sharing' /\ Touches(p)
  BY <1>0, <1>1, <1>2, SharingGoes DEF ReportInv, Touches, outputs, jobs
<1>4. \A e \in Discs : at[p].d # e
  BY <1>1, SilverAssumption
<1>5. ~at'[p].read
  BY <1>0, <1>1 DEF ReportInv
<1>6. \A e \in Discs : Holds(p, e)'
  BY <1>2, <1>5 DEF Holds
<1>. HIDE DEF Touches
<1>. QED
  BY <1>0, <1>3, <1>4, <1>5, <1>6, TouchStep

LEMMA ReportWithdraws ==
  ASSUME TypeOK, ReportInv, NEW j \in Jobs, RecollectWithdraws(j)
  PROVE  ReportInv'
<1>. DEFINE p == "recollect"
            c == at[p].d
<1>0. AtOK /\ JobsOK /\ OutputsOK
  BY TypeParts
<1>1. /\ p \in Procs /\ at[p].pc = "withdraw" /\ c \in Discs
      /\ Procs' = Procs /\ at'[p].pc = "requeue"
      /\ \A q \in Procs : /\ q # p => /\ at'[q].pc = at[q].pc
                                      /\ at'[q].files = Outdated(at[q].files, j)
                          /\ at'[q].d = at[q].d /\ at'[q].verdict = at[q].verdict
                          /\ at'[q].read = at[q].read
  BY <1>0, WithdrawEffect
<1>2. /\ UNCHANGED <<marker, done>>
      /\ report' = [d \in Discs |-> Outdated(report[d], j)]
      /\ complete' = complete \ {j}
      /\ disturbed' = disturbed \cup {d \in Discs \ {c} : j \in Needs[d]}
  BY DEF RecollectWithdraws, Job!Withdraw
<1>3. Sharing'
  BY <1>1, <1>2 DEF ReportInv, Sharing, Deleting
<1>4. ASSUME NEW d \in Discs, d \notin disturbed', d # c
      PROVE  /\ Present(d)' <=> Present(d)
             /\ Whole(d)' <=> Whole(d)
             /\ \A q \in Procs : q # p =>
                   \A k \in Needs[d] : at'[q].files[k] = at[q].files[k]
  <2>1. j \notin Needs[d] /\ Needs[d] \subseteq Jobs
    BY <1>2, <1>4, SilverAssumption
  <2>2. \A k \in Needs[d] : report'[d][k] = report[d][k]
    BY <1>0, <1>2, <2>1 DEF OutputsOK, Outdated
  <2>3. \A q \in Procs : at[q].files \in [Jobs -> FileState]
    BY <1>0, FrameFields
  <2>4. \A q \in Procs : q # p => \A k \in Needs[d] : at'[q].files[k] = at[q].files[k]
    BY <1>1, <2>1, <2>3 DEF Outdated
  <2>. QED
    BY <1>2, <2>1, <2>2, <2>4 DEF Present, Whole
<1>5. c \notin disturbed => c \notin done /\ marker[c] = None
  BY <1>1 DEF ReportInv, Holds
<1>6. ASSUME NEW d \in Discs, d \notin disturbed' PROVE Announced(d)'
  <2>1. CASE d = c
    BY <1>2, <1>5, <1>6, <2>1 DEF Announced
  <2>2. CASE d # c
    BY <1>2, <1>4, <1>6, <2>2 DEF Announced, ReportInv
  <2>. QED
    BY <2>1, <2>2
<1>7. ASSUME NEW q \in Procs, NEW d \in Discs, at'[q].d = d, d \notin disturbed'
      PROVE  Holds(q, d)'
  <2>1. CASE q = p
    BY <1>1, <2>1 DEF Holds
  <2>2. CASE q # p /\ d = c
    BY <1>1, <1>2, <1>7, <2>2 DEF ReportInv, Sharing, Deleting
  <2>3. CASE q # p /\ d # c
    <3>1. Holds(q, d)
      BY <1>1, <1>2, <1>7 DEF ReportInv
    <3>. QED
      BY <1>1, <1>2, <1>4, <1>7, <2>3, <3>1 DEF Holds
  <2>. QED
    BY <2>1, <2>2, <2>3
<1>. QED
  BY <1>1, <1>3, <1>6, <1>7 DEF ReportInv

LEMMA ReportOutside ==
  ASSUME TypeOK, ReportInv, Outside
  PROVE  ReportInv'
<1>1. UNCHANGED <<outputs, at, disturbed>> /\ complete \subseteq complete' /\ Procs' = Procs
  BY OutsideDoes DEF Procs
<1>2. \A d \in Discs : (Present(d) => Present(d)') /\ Whole(d)' = Whole(d)
  BY <1>1 DEF Present, Whole, outputs
<1>3. \A d \in Discs : Announced(d) => Announced(d)'
  BY <1>1, <1>2 DEF Announced, outputs
<1>4. \A p \in Procs, d \in Discs : Holds(p, d) => Holds(p, d)'
  BY <1>1, <1>2 DEF Holds, outputs
<1>. QED
  BY <1>1, <1>3, <1>4 DEF ReportInv, Sharing

LEMMA ReportStep ==
  ASSUME TypeOK, ReportInv, [Next]_vars
  PROVE  ReportInv'
<1>0. AtOK /\ RowsOK
  BY TypeParts
<1>1. CASE Next
  <2>1. CASE Beginning
    <3>1. PICK p, todo : Begun(p, todo)
      BY <2>1, BeginningDoes
    <3>. QED
      BY <2>1, <3>1, BeginningDoes, ReportApart DEF Begun, Started, jobs, history
  <2>2. CASE IncrementalSelects
    <3>1. /\ "incremental" \in Procs /\ AtOK' /\ Alone("incremental")
          /\ at'["incremental"].d = at["incremental"].d
          /\ at'["incremental"].read = at["incremental"].read
          /\ at["incremental"].pc = "select"
      BY <1>0, <2>2, SelectEffect
    <3>2. at["incremental"].d = None
      BY <1>0, <3>1, FrameFields DEF Shaped, Between
    <3>. QED
      BY <2>2, <3>1, <3>2, ReportApart DEF IncrementalSelects, ReportInv, jobs, history
  <2>3. ASSUME NEW p \in AllProcs, Leaving(p) PROVE ReportInv'
    BY <1>0, <2>3, LeavingDoes, ReportApart DEF Stopped, Idle, history
  <2>4. ASSUME NEW p \in AllProcs, RowFails(p) PROVE ReportInv'
    BY <1>0, <2>4, RowFailsDoes, ReportApart DEF RowFails, Turned, jobs
  <2>5. ASSUME NEW j \in Jobs, RecollectRequeues(j) PROVE ReportInv'
    <3>1. UNCHANGED <<outputs, complete>>
      BY <2>5 DEF RecollectRequeues, Job!Requeue
    <3>. QED
      BY <1>0, <2>5, <3>1, RequeueDoes, ReportApart DEF Busy, Turned
  <2>. QED
    BY <1>1, <2>1, <2>2, <2>3, <2>4, <2>5, StepCases, ReportOutside, ReportEvaluates, ReportDecides,
       ReportMarks, ReportWithdraws, ReportReads, ReportReadsBronze, ReportWrites, ReportIsDone,
       ReportUnmarks, ReportUndone, ReportDeleted, ReportPicks
<1>2. CASE UNCHANGED vars
  BY <1>2 DEF ReportInv, Sharing, Announced, Holds, Present, Whole, Procs, vars, jobs, outputs,
              history
<1>. QED
  BY <1>1, <1>2

LEMMA ReportInit == Init => ReportInv
BY SilverAssumption DEF Init, ReportInv, Sharing, Announced, Holds, Procs, Idle, Deleting

(* A done report is there and was built from the files that are in Bronze now, *)
(* whichever procedures built it at the same time, died or were stopped.       *)
THEOREM ReportCorrect == Spec => []ReportIsWhole
<1>1. TypeOK /\ ReportInv => ReportIsWhole
  BY TypeParts DEF ReportInv, ReportIsWhole, Announced, OutputsOK
<1>. QED
  BY <1>1, TypeCorrect, ReportInit, ReportStep, PTL DEF Spec

(* Nothing is forgotten ----------------------------------------------------- *)

(* A disclosure that each of its jobs leads to; when it is complete with its    *)
(* jobs DONE; and when it needs no later pass, or a job of it has committed     *)
(* with a stamp that the next pass selects.                                  *)
Tracked(d) == Needs[d] # {} /\ \A j \in Needs[d] : d \in Led(j)
Ready(d) == Present(d) /\ \A j \in Needs[d] : status[j] = "DONE"
Since(d, stamp) == \E j \in Needs[d] : finished[j] = stamp
Excused(d) == d \in done \cup passed_over
Safe(d) == Excused(d) \/ Since(d, "new")

(* The next pass, or the running one, still comes to the disclosure.           *)
Ahead(d) == at["incremental"].pc \in {"idle", "select"} \/ d \in at["incremental"].todo

(* The running pass is at it and turns away without writing its outputs.       *)
GivesUp(d) ==
  /\ at["incremental"].d = d
  /\ \/ at["incremental"].pc = "deleteReport"
     \/ at["incremental"].pc = "decide" /\ ~at["incremental"].verdict

(* A job that is DONE without its files excuses the disclosure, since the       *)
(* files may come back without a new stamp; a ready one is safe or ahead; and   *)
(* the pass gives up a ready one only when it is safe.                        *)
Remembered(d) ==
  /\ \A j \in Needs[d] : status[j] = "DONE" /\ j \notin complete => Excused(d)
  /\ Ready(d) => Safe(d) \/ (Since(d, "since") /\ Ahead(d))
  /\ Ready(d) /\ GivesUp(d) => Safe(d)

ForgottenInv == \A d \in Discs : Tracked(d) => Remembered(d)

LEMMA TrackedBy ==
  ASSUME NEW d \in Discs, Tracked(d)
  PROVE  "incremental" \in Procs /\ \A j \in Needs[d] : d \in Leads[j]
BY DEF Tracked, Led

(* A step that leaves the jobs alone and excuses no fewer disclosures.         *)
LEMMA WorkRemembers ==
  ASSUME NEW d \in Discs, Remembered(d), UNCHANGED jobs, Excused(d) => Excused(d)',
         Ahead(d) => Ahead(d)' \/ (Ready(d) => Safe(d)'),
         GivesUp(d)' => GivesUp(d) \/ (Ready(d) => Safe(d)')
  PROVE  Remembered(d)'
<1>1. /\ Ready(d)' <=> Ready(d)
      /\ \A s : Since(d, s)' <=> Since(d, s)
      /\ Safe(d) => Safe(d)'
  BY DEF Ready, Present, Since, Safe, jobs
<1>. QED
  BY <1>1 DEF Remembered, jobs

LEMMA OthersRemember ==
  ASSUME NEW d \in Discs, Remembered(d), UNCHANGED jobs, Excused(d) => Excused(d)',
         NEW p, Alone(p), p # "incremental", "incremental" \in Procs
  PROVE  Remembered(d)'
<1>1. at'["incremental"] = at["incremental"]
  BY DEF Alone
<1>2. (Ahead(d)' <=> Ahead(d)) /\ (GivesUp(d)' <=> GivesUp(d))
  BY <1>1 DEF Ahead, GivesUp
<1>. QED
  BY <1>2, WorkRemembers

(* The incremental pass itself goes on with its row, or turns to the next one.  *)
LEMMA GoesRemembers ==
  ASSUME NEW d \in Discs, Remembered(d), UNCHANGED jobs, Excused(d) => Excused(d)',
         NEW pc, pc \notin {"idle", "select", "decide"}, at["incremental"].pc \notin {"idle", "select"},
         at'["incremental"].pc = pc, at'["incremental"].todo = at["incremental"].todo,
         at'["incremental"].d = d /\ pc = "deleteReport" => Excused(d)'
  PROVE  Remembered(d)'
<1>1. Ahead(d) => Ahead(d)'
  BY DEF Ahead
<1>2. GivesUp(d)' => Safe(d)'
  BY DEF GivesUp, Safe
<1>. QED
  BY <1>1, <1>2, WorkRemembers

LEMMA TurnsRemembers ==
  ASSUME NEW d \in Discs, Remembered(d), UNCHANGED jobs, Excused(d) => Excused(d)',
         Turned("incremental"), at["incremental"].pc \notin {"idle", "select"},
         at["incremental"].d = d => Excused(d)' \/ GivesUp(d)
  PROVE  Remembered(d)'
<1>1. ~GivesUp(d)'
  BY DEF GivesUp, Turned
<1>2. Safe(d) => Safe(d)'
  BY DEF Safe, Since, jobs
<1>3. Ahead(d) => Ahead(d)' \/ at["incremental"].d = d
  BY DEF Ahead, Turned
<1>4. at["incremental"].d = d => (Ready(d) => Safe(d)')
  BY <1>2 DEF Remembered, Safe
<1>. QED
  BY <1>1, <1>3, <1>4, WorkRemembers

LEMMA BusyNow ==
  ASSUME NEW p, NEW pc \in Point \ Between, Busy(p, pc)
  PROVE  p \in Procs /\ at[p].pc = pc /\ at[p].pc \notin {"idle", "select"}
BY DEF Busy, Between

LEMMA WorkExcuses ==
  ASSUME AtWork, NEW d
  PROVE  Excused(d) => Excused(d)'
BY DEF AtWork, Excused, Beginning, IncrementalStarts, CompletionStarts, RawToSilverStarts,
       RebuildStarts, InvalidationStarts, IncrementalSelects, IncrementalEvaluates,
       CompletionEvaluates, IncrementalDecides, CompletionDecides, RebuildEvaluates, MarkerStep,
       IncrementalWritesMarker, CompletionWritesMarker, RebuildWritesMarker, WriteMarker,
       ReadMarker, ReadBronze, WriteReport, WriteDone, DeleteMarker, DeleteDone, DeleteReport,
       RowFails, Picks, outputs, history

LEMMA WorkForgetsNothing ==
  ASSUME TypeOK, NEW d \in Discs, Tracked(d), Remembered(d), AtWork
  PROVE  Remembered(d)'
<1>. DEFINE i == "incremental"
<1>0. AtOK /\ RowsOK
  BY TypeParts
<1>1. i \in Procs /\ UNCHANGED jobs /\ (Excused(d) => Excused(d)')
  BY TrackedBy, AtWorkKeeps, WorkExcuses
<1>2. CASE Beginning
  <2>1. PICK p, todo : Begun(p, todo)
    BY <1>2, BeginningDoes
  <2>2. CASE p = i
    <3>1. Ahead(d)' /\ ~GivesUp(d)'
      BY <2>1, <2>2, SilverAssumption DEF Begun, Started, Ahead, GivesUp
    <3>. QED
      BY <1>1, <3>1, WorkRemembers
  <2>3. CASE p # i
    BY <1>1, <2>1, <2>3, OthersRemember DEF Begun, Started
  <2>. QED
    BY <2>2, <2>3
<1>3. CASE IncrementalSelects
  <2>1. /\ at[i].pc = "select" /\ at'[i].pc = "pick" /\ at'[i].todo = Selected
    BY <1>0, <1>3, SelectEffect
  <2>2. ~GivesUp(d)'
    BY <2>1 DEF GivesUp
  <2>3. Ready(d) /\ Since(d, "since") => d \in Selected
    BY SilverAssumption DEF Ready, Since, Tracked, Selected
  <2>4. Ahead(d)' \/ ~(Ready(d) /\ Since(d, "since"))
    BY <2>1, <2>3 DEF Ahead
  <2>5. /\ Ready(d)' <=> Ready(d)
        /\ \A s : Since(d, s)' <=> Since(d, s)
        /\ Safe(d) => Safe(d)'
    BY <1>1 DEF Ready, Present, Since, Safe, jobs
  <2>. QED
    BY <1>1, <2>2, <2>4, <2>5 DEF Remembered, jobs
<1>4. CASE IncrementalEvaluates
  <2>1. /\ Busy(i, "evaluate") /\ at'[i].pc = "decide" /\ at'[i].todo = at[i].todo
        /\ at'[i].d = at[i].d /\ (~at'[i].verdict => ~Present(at[i].d))
    BY <1>0, <1>4, EvaluatesDoes
  <2>2. GivesUp(d)' => ~Ready(d)
    BY <2>1 DEF GivesUp, Ready
  <2>3. Ahead(d) => Ahead(d)'
    BY <2>1 DEF Ahead, Busy
  <2>. QED
    BY <1>1, <2>2, <2>3, WorkRemembers
<1>5. CASE CompletionEvaluates
  BY <1>0, <1>1, <1>5, EvaluatesDoes, OthersRemember
<1>6. CASE IncrementalDecides
  <2>1. Busy(i, "decide") /\ UNCHANGED done
    BY <1>0, <1>6, IncrementalDecidesDoes DEF IncrementalDecides, outputs
  <2>2. CASE Turned(i)
    <3>1. at[i].d \in done \/ ~at[i].verdict
      BY <1>0, <1>6, <2>1, <2>2, IncrementalDecidesDoes DEF Turned, Went
    <3>2. at[i].d = d => Excused(d)' \/ GivesUp(d)
      BY <2>1, <3>1 DEF Excused, GivesUp, Busy
    <3>. QED
      BY <1>1, <2>1, <2>2, <3>2, TurnsRemembers DEF Busy
  <2>3. ASSUME NEW pc \in {"readBronze", "writeMarker", "deleteMarker"}, Went(i, pc)
        PROVE  Remembered(d)'
    BY <1>1, <2>1, <2>3, GoesRemembers DEF Busy, Went
  <2>. QED
    BY <1>0, <1>6, <2>2, <2>3, IncrementalDecidesDoes
<1>7. CASE CompletionDecides \/ RebuildEvaluates
  <2>1. \E p : p # i /\ Alone(p)
    BY <1>0, <1>7, CompletionDecidesDoes, RebuildEvaluatesDoes DEF Went, Turned
  <2>. QED
    BY <1>1, <2>1, OthersRemember
<1>8. ASSUME NEW p \in AllProcs,
             \/ MarkerStep(p)
             \/ ReadMarker(p) \/ ReadBronze(p) \/ WriteReport(p) \/ WriteDone(p)
             \/ DeleteMarker(p) \/ DeleteDone(p) \/ DeleteReport(p) \/ RowFails(p)
             \/ \E e \in Discs : Picks(p, e)
      PROVE  Remembered(d)'
  <2>1. CASE p # i
    <3>1. CASE MarkerStep(p) \/ ReadMarker(p) \/ ReadBronze(p) \/ WriteReport(p) \/ WriteDone(p)
      <4>1. Alone(p)
        BY <1>0, <3>1, MarkerStepDoes, ReadMarkerDoes, ReadBronzeDoes, WriteReportDoes,
           WriteDoneDoes DEF Went, Turned
      <4>. QED
        BY <1>1, <2>1, <4>1, OthersRemember
    <3>2. CASE DeleteMarker(p) \/ DeleteDone(p) \/ DeleteReport(p) \/ RowFails(p)
      <4>1. Alone(p)
        BY <1>0, <3>2, DeleteMarkerDoes, DeleteDoneDoes, DeleteReportDoes, RowFailsDoes
           DEF Went, Turned
      <4>. QED
        BY <1>1, <2>1, <4>1, OthersRemember
    <3>3. ASSUME NEW e \in Discs, Picks(p, e) PROVE Remembered(d)'
      BY <1>0, <1>1, <2>1, <3>3, PicksEffect, OthersRemember DEF Picks, Is
    <3>. QED
      BY <1>8, <3>1, <3>2, <3>3
  <2>2. CASE p = i
    <3>1. CASE MarkerStep(i)
      <4>1. Busy(i, "writeMarker") /\ Went(i, "readMarker")
        BY <1>0, <3>1, MarkerStepDoes
      <4>. QED
        BY <1>1, <4>1, GoesRemembers DEF Busy, Went
    <3>2. CASE ReadMarker(i)
      <4>1. Busy(i, "readMarker")
        BY <1>0, <3>2, ReadMarkerDoes
      <4>2. CASE marker[at[i].d] = None
        <5>1. Turned(i) /\ (at[i].d = d => Excused(d)')
          BY <1>0, <3>2, <4>2, ReadMarkerDoes DEF ReadMarker, Excused
        <5>. QED
          BY <1>1, <4>1, <5>1, TurnsRemembers DEF Busy
      <4>3. CASE marker[at[i].d] # None
        <5>1. at'[i].pc = "readBronze" /\ at'[i].todo = at[i].todo
          BY <1>0, <3>2, <4>3, ReadMarkerDoes
        <5>. QED
          BY <1>1, <4>1, <5>1, GoesRemembers DEF Busy
      <4>. QED
        BY <4>2, <4>3
    <3>3. CASE ReadBronze(i)
      <4>1. Busy(i, "readBronze") /\ at'[i].pc = "writeReport" /\ at'[i].todo = at[i].todo
        BY <1>0, <3>3, ReadBronzeDoes
      <4>. QED
        BY <1>1, <4>1, GoesRemembers DEF Busy
    <3>4. CASE WriteReport(i)
      <4>1. Busy(i, "writeReport") /\ Went(i, "writeDone")
        BY <1>0, <3>4, WriteReportDoes
      <4>. QED
        BY <1>1, <4>1, GoesRemembers DEF Busy, Went
    <3>5. CASE WriteDone(i)
      <4>1. Busy(i, "writeDone") /\ Turned(i) /\ (at[i].d = d => Excused(d)')
        BY <1>0, <3>5, WriteDoneDoes DEF WriteDone, Excused
      <4>. QED
        BY <1>1, <4>1, TurnsRemembers DEF Busy
    <3>6. CASE DeleteMarker(i)
      <4>1. Busy(i, "deleteMarker") /\ Went(i, "deleteDone")
        BY <1>0, <3>6, DeleteMarkerDoes
      <4>. QED
        BY <1>1, <4>1, GoesRemembers DEF Busy, Went
    <3>7. CASE DeleteDone(i)
      <4>1. Busy(i, "deleteDone") /\ Went(i, "deleteReport") /\ (at[i].d = d => Excused(d)')
        BY <1>0, <3>7, DeleteDoneDoes DEF DeleteDone, Excused
      <4>. QED
        BY <1>1, <4>1, GoesRemembers DEF Busy, Went
    <3>8. CASE DeleteReport(i)
      <4>1. Busy(i, "deleteReport") /\ Turned(i)
        BY <1>0, <3>8, DeleteReportDoes
      <4>2. at[i].d = d => GivesUp(d)
        BY <4>1 DEF GivesUp, Busy
      <4>. QED
        BY <1>1, <4>1, <4>2, TurnsRemembers DEF Busy
    <3>9. CASE RowFails(i)
      <4>1. Turned(i) /\ (at[i].d = d => Excused(d)') /\ at[i].pc \notin {"idle", "select"}
        BY <1>0, <3>9, RowFailsDoes, FrameFields DEF RowFails, Excused, Shaped, Between
      <4>. QED
        BY <1>1, <4>1, TurnsRemembers
    <3>10. ASSUME NEW e \in Discs, Picks(i, e) PROVE Remembered(d)'
      <4>1. at[i].pc = "pick" /\ at'[i].pc = "evaluate" /\ at'[i].todo = at[i].todo
        BY <1>0, <1>1, <3>10, PicksEffect DEF FirstSteps
      <4>. QED
        BY <1>1, <4>1, GoesRemembers
    <3>. QED
      BY <1>8, <2>2, <3>1, <3>2, <3>3, <3>4, <3>5, <3>6, <3>7, <3>8, <3>9, <3>10
  <2>. QED
    BY <2>1, <2>2
<1>. QED
  BY <1>2, <1>3, <1>4, <1>5, <1>6, <1>7, <1>8 DEF AtWork

(* Jobs that are no longer DONE, or whose files go, make nothing ready.        *)
SamePoint ==
  /\ at'["incremental"].pc = at["incremental"].pc /\ at'["incremental"].d = at["incremental"].d
  /\ at'["incremental"].todo = at["incremental"].todo
  /\ at'["incremental"].verdict = at["incremental"].verdict

LEMMA JobsRemember ==
  ASSUME NEW d \in Discs, Remembered(d), SamePoint,
         Excused(d) => Excused(d)',
         \A j \in Needs[d] : status'[j] = "DONE" =>
            /\ status[j] = "DONE" /\ finished'[j] = finished[j]
            /\ j \notin complete' => j \notin complete \/ Excused(d)'
            /\ j \in complete' => j \in complete \/ Excused(d)
  PROVE  Remembered(d)'
<1>1. CASE Excused(d)'
  BY <1>1 DEF Remembered, Safe
<1>2. CASE ~Excused(d)'
  <2>1. ~Excused(d)
    BY <1>2
  <2>2. Ready(d)' => Ready(d)
    BY <2>1 DEF Ready, Present
  <2>3. Ready(d)' => \A s : Since(d, s)' <=> Since(d, s)
    BY DEF Ready, Since
  <2>4. /\ Ahead(d)' <=> Ahead(d)
        /\ GivesUp(d)' <=> GivesUp(d)
    BY DEF Ahead, GivesUp, SamePoint
  <2>5. ~\E j \in Needs[d] : status'[j] = "DONE" /\ j \notin complete'
    BY <1>2, <2>1 DEF Remembered
  <2>6. Ready(d)' => (Since(d, "new")' \/ (Since(d, "since")' /\ Ahead(d)'))
    BY <2>1, <2>2, <2>3, <2>4 DEF Remembered, Safe
  <2>7. Ready(d)' /\ GivesUp(d)' => Since(d, "new")'
    BY <2>1, <2>2, <2>3, <2>4 DEF Remembered, Safe
  <2>. QED
    BY <2>5, <2>6, <2>7 DEF Remembered, Safe
<1>. QED
  BY <1>1, <1>2

LEMMA OutsideForgetsNothing ==
  ASSUME TypeOK, NEW d \in Discs, Tracked(d), Remembered(d), Outside
  PROVE  Remembered(d)'
<1>. DEFINE i == "incremental"
<1>0. AtOK /\ JobsOK /\ Needs[d] \subseteq Jobs /\ i \in Procs
  BY TypeParts, SilverAssumption, TrackedBy
<1>1. UNCHANGED <<outputs, at>> /\ SamePoint
  BY OutsideDoes DEF SamePoint
<1>2. ASSUME NEW j \in Jobs, JobMoves(j) PROVE Remembered(d)'
  <2>1. /\ UNCHANGED <<complete, passed_over>>
        /\ \A k \in Jobs : status'[k] = "DONE" => status[k] = "DONE"
    BY <1>0, <1>2 DEF JobMoves, JobsOK, Job!Request, Job!Take, Job!GiveBack, Job!Vanish,
                      Job!Requeue, Job!Leaves, history
  <2>2. \A k \in Jobs : status'[k] = "DONE" => finished'[k] = finished[k]
    BY <1>2 DEF JobMoves, Stamps
  <2>. QED
    BY <1>0, <1>1, <2>1, <2>2, JobsRemember DEF Excused, outputs
<1>3. ASSUME NEW j \in Jobs, FileArrives(j) PROVE Remembered(d)'
  <2>1. UNCHANGED <<status, finished, passed_over>> /\ complete' = complete \cup {j}
    BY <1>3 DEF FileArrives, Job!Gather, history
  <2>2. \A k \in Needs[d] : k \in complete' /\ status[k] = "DONE" => k \in complete \/ Excused(d)
    BY <2>1 DEF Remembered
  <2>. QED
    BY <1>1, <2>1, <2>2, JobsRemember DEF Excused, outputs
<1>4. ASSUME NEW j \in Jobs, JobDoneBegins(j) PROVE Remembered(d)'
  BY <1>1, <1>4, JobsRemember DEF JobDoneBegins, Excused, outputs, history
<1>5. ASSUME NEW j \in Jobs, JobDoneCommits(j) PROVE Remembered(d)'
  <2>1. /\ UNCHANGED complete /\ closing[j] \in Stamp
        /\ \A k \in Jobs : k # j => status'[k] = status[k] /\ finished'[k] = finished[k]
        /\ finished'[j] = closing[j]
    BY <1>0, <1>5 DEF JobDoneCommits, JobsOK, Job!Succeed
  <2>2. passed_over' = IF Late(j) \/ j \notin complete THEN passed_over \cup Led(j)
                       ELSE passed_over \ Found(j)
    BY <1>5 DEF JobDoneCommits
  <2>3. CASE j \notin Needs[d]
    <3>1. Excused(d) => Excused(d)'
      BY <1>1, <2>2, <2>3 DEF Excused, Found, outputs
    <3>. QED
      BY <1>0, <1>1, <2>1, <2>3, <3>1, JobsRemember DEF outputs
  <2>4. CASE j \in Needs[d] /\ (Late(j) \/ j \notin complete)
    <3>1. Excused(d)'
      BY <2>2, <2>4 DEF Excused, Tracked
    <3>. QED
      BY <3>1 DEF Remembered, Safe
  <2>5. CASE j \in Needs[d] /\ ~Late(j) /\ j \in complete
    <3>1. CASE Present(d)
      <4>1. \A k \in Needs[d] : k \in complete'
        BY <2>1, <3>1 DEF Present
      <4>2. \A s : closing[j] = s => Since(d, s)'
        BY <2>1, <2>5 DEF Since
      <4>3. closing[j] = "new" \/ (closing[j] = "since" /\ at[i].pc \in {"idle", "select"})
        BY <1>0, <2>1, <2>5 DEF Late, Stamp, Active
      <4>4. at[i].pc \in {"idle", "select"} => Ahead(d)' /\ ~GivesUp(d)'
        BY <1>1 DEF Ahead, GivesUp
      <4>. QED
        BY <4>1, <4>2, <4>3, <4>4 DEF Remembered, Safe
    <3>2. CASE ~Present(d)
      <4>1. ~Ready(d)' /\ (Excused(d) => Excused(d)')
        BY <1>1, <2>1, <2>2, <2>5, <3>2 DEF Ready, Present, Excused, Found, outputs
      <4>2. \A k \in Needs[d] : status'[k] = "DONE" /\ k \notin complete' => Excused(d)
        BY <1>0, <2>1, <2>5 DEF Remembered
      <4>. QED
        BY <4>1, <4>2 DEF Remembered
    <3>. QED
      BY <3>1, <3>2
  <2>. QED
    BY <2>3, <2>4, <2>5
<1>6. ASSUME NEW e \in Discs, Upsert(e) PROVE Remembered(d)'
  BY <1>1, <1>6, JobsRemember DEF Upsert, Excused, outputs, jobs
<1>. QED
  BY <1>2, <1>3, <1>4, <1>5, <1>6 DEF Outside, JobStep

(* A pass that ends moves the watermark to its start; what it did not see is   *)
(* selected by the next one.                                                 *)
LEMMA LeavingForgetsNothing ==
  ASSUME TypeOK, NEW d \in Discs, Tracked(d), Remembered(d), NEW p, Leaving(p)
  PROVE  Remembered(d)'
<1>. DEFINE i == "incremental"
<1>0. /\ AtOK /\ JobsOK /\ Needs[d] \subseteq Jobs /\ i \in Procs
      /\ p \in Procs /\ Stopped(p)
      /\ UNCHANGED <<status, working, complete, withdrawn, registered, meta, outputs, history>>
  BY TypeParts, SilverAssumption, TrackedBy, LeavingDoes
<1>1. /\ Ready(d)' <=> Ready(d)
      /\ Excused(d)' <=> Excused(d)
  BY <1>0 DEF Ready, Present, Excused, outputs, history
<1>2. CASE p # i
  <2>1. UNCHANGED jobs
    BY <1>0, <1>2 DEF Leaving, Ends, Dies, CompletionEnds, jobs
  <2>. QED
    BY <1>0, <1>1, <1>2, <2>1, OthersRemember DEF Stopped
<1>3. CASE p = i
  <2>1. Ahead(d)' /\ ~GivesUp(d)'
    BY <1>0, <1>3 DEF Stopped, Idle, Ahead, GivesUp
  <2>2. finished' = Advanced(finished) \/ finished' = Kept(finished)
    BY <1>3 DEF Leaving, IncrementalEnds, IncrementalStopsEarly, Ends, Dies
  <2>3. Since(d, "new") => Since(d, "since")'
    BY <1>0, <2>2 DEF Since, Advanced, Kept, JobsOK
  <2>4. Since(d, "since") /\ Ahead(d) => Since(d, "since")'
    <3>1. CASE IncrementalEnds
      BY <3>1 DEF IncrementalEnds, Is, Ahead
    <3>2. CASE ~IncrementalEnds
      <4>1. finished' = Kept(finished)
        BY <1>3, <3>2 DEF Leaving, IncrementalStopsEarly, Ends, Dies
      <4>. QED
        BY <1>0, <4>1 DEF Since, Kept, JobsOK
    <3>. QED
      BY <3>1, <3>2
  <2>5. \A j \in Needs[d] : status'[j] = "DONE" /\ j \notin complete' => Excused(d)'
    BY <1>0, <1>1 DEF Remembered
  <2>6. Ready(d)' => Excused(d)' \/ Since(d, "since")'
    BY <1>1, <2>3, <2>4 DEF Remembered, Safe
  <2>. QED
    BY <2>1, <2>5, <2>6 DEF Remembered, Safe
<1>. QED
  BY <1>2, <1>3

LEMMA OperatingForgetsNothing ==
  ASSUME TypeOK, NEW d \in Discs, Tracked(d), Remembered(d), Operating
  PROVE  Remembered(d)'
<1>0. AtOK /\ JobsOK /\ Needs[d] \subseteq Jobs /\ "incremental" \in Procs
  BY TypeParts, SilverAssumption, TrackedBy
<1>1. ASSUME NEW j \in Jobs, RecollectWithdraws(j) PROVE Remembered(d)'
  <2>1. SamePoint
    BY <1>0, <1>1, WithdrawEffect DEF SamePoint
  <2>2. /\ UNCHANGED <<status, finished, done>> /\ complete' = complete \ {j}
        /\ passed_over' = passed_over \cup {e \in Discs : j \in Needs[e]}
    BY <1>1 DEF RecollectWithdraws, Job!Withdraw
  <2>3. (Excused(d) => Excused(d)') /\ (j \in Needs[d] => Excused(d)')
    BY <2>2 DEF Excused
  <2>. QED
    BY <2>1, <2>2, <2>3, JobsRemember
<1>2. ASSUME NEW j \in Jobs, RecollectRequeues(j) PROVE Remembered(d)'
  <2>1. SamePoint
    BY <1>0, <1>2, RequeueDoes DEF SamePoint, Turned, Alone
  <2>2. UNCHANGED <<complete, outputs, passed_over>>
    BY <1>2 DEF RecollectRequeues, Job!Requeue
  <2>3. \A k \in Jobs : status'[k] = "DONE" => status[k] = "DONE" /\ finished'[k] = finished[k]
    BY <1>0, <1>2 DEF RecollectRequeues, Job!Requeue, Stamps, JobsOK
  <2>. QED
    BY <1>0, <2>1, <2>2, <2>3, JobsRemember DEF Excused, outputs
<1>. QED
  BY <1>1, <1>2 DEF Operating

LEMMA ForgottenStep ==
  ASSUME TypeOK, ForgottenInv, [Next]_vars
  PROVE  ForgottenInv'
<1>1. Procs' = Procs
  <2>1. CASE Next /\ ~Outside
    BY <2>1, RowsMove
  <2>2. CASE Outside \/ UNCHANGED vars
    BY <2>2, OutsideDoes DEF Procs, vars
  <2>. QED
    BY <2>1, <2>2
<1>2. SUFFICES ASSUME NEW d \in Discs, Tracked(d) PROVE Remembered(d)'
  BY <1>1 DEF ForgottenInv, Tracked, Led
<1>3. Remembered(d)
  BY <1>2 DEF ForgottenInv
<1>4. CASE Next
  BY <1>2, <1>3, <1>4, StepKinds, OutsideForgetsNothing, WorkForgetsNothing,
     OperatingForgetsNothing, LeavingForgetsNothing
<1>5. CASE UNCHANGED vars
  BY <1>2, <1>3, <1>5, WorkRemembers DEF vars, outputs, history, Excused, Ahead, GivesUp
<1>. QED
  BY <1>4, <1>5

LEMMA ForgottenInit == Init => ForgottenInv
<1>. SUFFICES ASSUME Init, NEW d \in Discs, Tracked(d) PROVE Remembered(d)
  BY DEF ForgottenInv
<1>1. status = [j \in Jobs |-> "absent"] /\ Needs[d] \subseteq Jobs /\ Needs[d] # {}
  BY SilverAssumption DEF Init, Job!Init, Tracked
<1>. QED
  BY <1>1 DEF Remembered, Ready

(* A disclosure that is complete with its jobs DONE and has no done marker is   *)
(* found by the next incremental pass or is still ahead of the running one, but *)
(* for those that failed, whose outputs were deleted, or whose job committed    *)
(* after a pass that started later.                                          *)
THEOREM WatermarkCorrect == Spec => []NothingForgotten
<1>1. ASSUME TypeOK, ForgottenInv PROVE NothingForgotten
  <2>. SUFFICES ASSUME NEW d \in Discs, Ready(d), Tracked(d)
                PROVE  \/ d \in done \cup passed_over
                       \/ d \in Selected
                       \/ d \in at["incremental"].todo
    BY DEF NothingForgotten, Ready, Tracked
  <2>1. Safe(d) \/ Since(d, "since")
    BY <1>1 DEF ForgottenInv, Remembered
  <2>2. ASSUME NEW s \in {"new", "since"}, Since(d, s) PROVE d \in Selected
    BY <2>2, SilverAssumption DEF Since, Ready, Tracked, Selected
  <2>. QED
    BY <2>1, <2>2 DEF Safe, Excused
<1>. QED
  BY <1>1, TypeCorrect, ForgottenInit, ForgottenStep, PTL DEF Spec
=============================================================================
