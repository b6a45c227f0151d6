------------------------- MODULE CollectJobsProofs -------------------------
(***************************************************************************)
(* Theorems about CollectJobs for every set of jobs, of two-file jobs and of *)
(* runs, every batch size and concurrency and every retry limit.             *)
(***************************************************************************)
EXTENDS CollectJobs, FiniteSetTheorems, TLAPS

(* Types ------------------------------------------------------------------ *)

(* A step of one worker changes its own task only.                           *)
Works(r, j, t) ==
  task' = [task EXCEPT ![r] = [task[r] EXCEPT ![j] = t]]

LEMMA WorksType ==
  ASSUME TypeOK, NEW r \in Runs, NEW j \in Jobs, NEW t \in Task, t.part \in Parts(j),
         Works(r, j, t)
  PROVE  /\ task' \in [Runs -> [Jobs -> Task]]
         /\ \A q \in Runs, i \in Jobs :
              task'[q][i] = IF q = r /\ i = j THEN t ELSE task[q][i]
         /\ \A q \in Runs, i \in Jobs : task'[q][i].part \in Parts(i)
<1>1. task \in [Runs -> [Jobs -> Task]]
  BY DEF TypeOK
<1>2. task' \in [Runs -> [Jobs -> Task]]
  BY <1>1 DEF Works
<1>3. \A q \in Runs, i \in Jobs :
        task'[q][i] = IF q = r /\ i = j THEN t ELSE task[q][i]
  BY <1>1 DEF Works
<1>. QED
  BY <1>2, <1>3 DEF TypeOK

LEMMA TaskFields ==
  ASSUME TypeOK, NEW r \in Runs, NEW j \in Jobs
  PROVE  /\ task[r][j] \in Task
         /\ task[r][j].step \in Step /\ task[r][j].part \in Parts(j)
         /\ task[r][j].outcome \in Outcome /\ task[r][j].retry \in Nat
         /\ task[r][j].part \in 1 .. 2
BY DEF TypeOK, Task

(* The three ways in which a worker's task goes on.                          *)
LEMMA MovesWorks ==
  ASSUME TypeOK, NEW r \in Runs, NEW j \in Jobs, NEW s \in Step, Moves(r, j, s)
  PROVE  \E t \in Task :
           /\ t.step = s /\ t.part = task[r][j].part /\ t.retry = task[r][j].retry
           /\ Works(r, j, t)
<1>. DEFINE t == [task[r][j] EXCEPT !.step = s]
<1>1. /\ t \in Task /\ t.step = s /\ t.part = task[r][j].part
      /\ t.retry = task[r][j].retry
  BY TaskFields DEF Task
<1>2. Works(r, j, t)
  BY DEF Moves, Works
<1>. QED
  BY <1>1, <1>2

LEMMA EndsWorks ==
  ASSUME TypeOK, NEW r \in Runs, NEW j \in Jobs, NEW how \in Outcome, Ends(r, j, how)
  PROVE  \E t \in Task :
           /\ t.step = "finish" /\ t.part = task[r][j].part /\ t.outcome = how
           /\ t.retry = task[r][j].retry
           /\ Works(r, j, t)
<1>. DEFINE t == [task[r][j] EXCEPT !.step = "finish", !.outcome = how]
<1>1. /\ t \in Task /\ t.step = "finish" /\ t.part = task[r][j].part /\ t.outcome = how
      /\ t.retry = task[r][j].retry
  BY TaskFields DEF Task, Step
<1>2. Works(r, j, t)
  BY DEF Ends, Works
<1>. QED
  BY <1>1, <1>2

LEMMA NextPartWorks ==
  ASSUME TypeOK, NEW r \in Runs, NEW j \in Jobs, NextPart(r, j)
  PROVE  \E t \in Task :
           /\ \/ /\ t.step = "check" /\ t.part = task[r][j].part + 1
                 /\ t.part \in Parts(j)
              \/ /\ t.step = "finish" /\ t.part = task[r][j].part
                 /\ t.outcome = "done" /\ task[r][j].part + 1 \notin Parts(j)
           /\ t.retry = task[r][j].retry
           /\ Works(r, j, t)
<1>1. CASE task[r][j].part + 1 \in Parts(j)
  <2>. DEFINE t == [task[r][j] EXCEPT !.step = "check", !.part = task[r][j].part + 1]
  <2>1. /\ t \in Task /\ t.step = "check" /\ t.part = task[r][j].part + 1
        /\ t.retry = task[r][j].retry
    <3>1. /\ task[r][j] \in Task /\ "check" \in Step
          /\ task[r][j].part + 1 \in 1 .. 2
      BY <1>1, TaskFields DEF Step, Parts
    <3>. QED
      BY <3>1 DEF Task
  <2>2. task' = [task EXCEPT ![r][j].step = "check", ![r][j].part = @ + 1]
    BY <1>1 DEF NextPart
  <2>3. Works(r, j, t)
    BY <2>2 DEF Works
  <2>. QED
    BY <1>1, <2>1, <2>3
<1>2. CASE task[r][j].part + 1 \notin Parts(j)
  <2>1. Ends(r, j, "done")
    BY <1>2 DEF NextPart
  <2>. QED
    BY <1>2, <2>1, EndsWorks DEF Outcome
<1>. QED
  BY <1>1, <1>2

(* The steps of a worker that change nothing but its own task, and whether    *)
(* its batch is out of quota.                                                *)
Local(r, j) ==
  \/ StartJob(r, j) \/ SkipJob(r, j) \/ CheckBronze(r, j) \/ ApiAnswers(r, j)
  \/ ApiLimited(r, j) \/ JobFails(r, j) \/ LogRequest(r, j)

(* What such a step makes of a task `old`: a call is only made for a file that *)
(* is missing, and a part is only left behind with its file written.         *)
Goes(j, old, t) ==
  /\ old.step # "none" /\ t.step \notin {"none", "log"} /\ t.part \in Parts(j)
  /\ t.retry = old.retry
  /\ t.step = "call" => t.part = old.part /\ <<j, t.part>> \notin bronze
  /\ t.step = "write" => t.part = old.part /\ old.step = "call"
  /\ \/ t.part = old.part
     \/ t.part = old.part + 1 /\ (old.step = "log" \/ <<j, old.part>> \in bronze)
  /\ t.step = "finish" /\ t.outcome = "done" =>
       /\ old.part + 1 \notin Parts(j)
       /\ old.step = "log" \/ <<j, old.part>> \in bronze

LEMMA LocalGoes ==
  ASSUME TypeOK, NEW r \in Runs, NEW j \in Jobs, Local(r, j)
  PROVE  \E t \in Task : Goes(j, task[r][j], t) /\ Works(r, j, t)
<1>. USE TaskFields
<1>1. CASE StartJob(r, j)
  BY <1>1, MovesWorks, "check" \in Step DEF StartJob, Goes, Step
<1>2. CASE SkipJob(r, j)
  BY <1>2, EndsWorks DEF SkipJob, Goes, Outcome
<1>3. CASE CheckBronze(r, j)
  <2>1. CASE <<j, task[r][j].part>> \in bronze
    BY <1>3, <2>1, NextPartWorks DEF CheckBronze, Goes
  <2>2. CASE <<j, task[r][j].part>> \notin bronze
    BY <1>3, <2>2, MovesWorks DEF CheckBronze, Goes, Step
  <2>. QED
    BY <2>1, <2>2
<1>4. CASE ApiAnswers(r, j)
  BY <1>4, MovesWorks DEF ApiAnswers, Goes, Step
<1>5. CASE ApiLimited(r, j)
  BY <1>5, EndsWorks, SMTT(30) DEF ApiLimited, Goes, Outcome
<1>6. CASE JobFails(r, j)
  <2>1. PICK how \in {"TRANSPORT", "HTTP_5", "quota", "other"} : Ends(r, j, how)
    BY <1>6 DEF JobFails
  <2>2. how \in Outcome /\ how # "done"
    BY DEF Outcome
  <2>3. PICK t \in Task : /\ t.step = "finish" /\ t.part = task[r][j].part
                         /\ t.outcome = how /\ t.retry = task[r][j].retry
                         /\ Works(r, j, t)
    BY <2>1, <2>2, EndsWorks
  <2>. QED
    BY <1>6, <2>2, <2>3 DEF JobFails, Goes
<1>7. CASE LogRequest(r, j)
  BY <1>7, NextPartWorks DEF LogRequest, Goes
<1>. QED
  BY <1>1, <1>2, <1>3, <1>4, <1>5, <1>6, <1>7 DEF Local

(* The steps of a worker, sorted by what they leave of its task.             *)
LEMMA WorkerCases ==
  ASSUME NEW r \in Runs, NEW j \in Jobs, WorkerStep(r, j)
  PROVE  Local(r, j) \/ WriteBronze(r, j) \/ FinishJob(r, j) \/ FinishFails(r, j)
BY DEF WorkerStep, Local

(* Dropping jobs: those of r in S are gone, everything else stays.           *)
LEMMA DropTasks ==
  ASSUME TypeOK, NEW r \in Runs, NEW S, Drop(r, S)
  PROVE  /\ task' \in [Runs -> [Jobs -> Task]]
         /\ \A q \in Runs, i \in Jobs :
              task'[q][i] = IF q = r /\ i \in S THEN NoTask ELSE task[q][i]
         /\ \A q \in Runs, i \in Jobs : task'[q][i].part \in Parts(i)
<1>. DEFINE f == [i \in Jobs |-> IF i \in S THEN NoTask ELSE task[r][i]]
<1>1. NoTask \in Task /\ \A i \in Jobs : NoTask.part \in Parts(i)
  BY DEF NoTask, Task, Step, Outcome, Parts
<1>2. task' = [task EXCEPT ![r] = f]
  BY DEF Drop
<1>3. task \in [Runs -> [Jobs -> Task]]
  BY DEF TypeOK
<1>4. f \in [Jobs -> Task]
  BY <1>1, <1>3
<1>5. task' \in [Runs -> [Jobs -> Task]] /\ task'[r] = f
      /\ \A q \in Runs : q # r => task'[q] = task[q]
  BY <1>2, <1>3, <1>4
<1>6. \A q \in Runs, i \in Jobs :
        task'[q][i] = IF q = r /\ i \in S THEN NoTask ELSE task[q][i]
  BY <1>5
<1>7. \A q \in Runs, i \in Jobs : task[q][i].part \in Parts(i)
  BY DEF TypeOK
<1>8. \A q \in Runs, i \in Jobs : task'[q][i].part \in Parts(i)
  BY <1>1, <1>6, <1>7
<1>. QED
  BY <1>5, <1>6, <1>8

(* Claiming: the run held nothing, and holds the ready rows S now.           *)
Claims(r, S) ==
  /\ Held(r) = {}
  /\ \A i \in S : Ready(i)
  /\ row' = [i \in Jobs |-> IF i \in S THEN [row[i] EXCEPT !.status = "RUNNING"] ELSE row[i]]
  /\ \A q \in Runs, i \in Jobs :
       q # r => task'[q][i] = task[q][i]
  /\ \A i \in Jobs \ S : task'[r][i] = NoTask
  /\ \A i \in S : /\ task'[r][i].step = "queued" /\ task'[r][i].part = 1
                  /\ task'[r][i].retry = row[i].retry

LEMMA ClaimTasks ==
  ASSUME TypeOK, NEW r \in Runs, ClaimPendingJobs(r)
  PROVE  /\ \E S \in SUBSET Jobs : Claims(r, S)
         /\ task' \in [Runs -> [Jobs -> Task]]
         /\ \A q \in Runs, i \in Jobs : task'[q][i].part \in Parts(i)
<1>1. PICK S \in SUBSET {j \in Jobs : Ready(j)} :
        /\ BatchOver(r)
        /\ row' = [j \in Jobs |->
                     IF j \in S THEN [row[j] EXCEPT !.status = "RUNNING"] ELSE row[j]]
        /\ task' = [task EXCEPT ![r] = [j \in Jobs |->
                      IF j \in S THEN [NoTask EXCEPT !.step = "queued", !.retry = row[j].retry]
                                 ELSE NoTask]]
  BY DEF ClaimPendingJobs
<1>. DEFINE t(j) == [NoTask EXCEPT !.step = "queued", !.retry = row[j].retry]
            f == [j \in Jobs |-> IF j \in S THEN t(j) ELSE NoTask]
<1>2. NoTask \in Task /\ \A i \in Jobs : NoTask.part \in Parts(i)
  BY DEF NoTask, Task, Step, Outcome, Parts
<1>3. \A j \in Jobs : row[j].retry \in Nat
  BY DEF TypeOK, Row
<1>4. \A j \in Jobs : /\ t(j) \in Task /\ t(j).step = "queued" /\ t(j).part = 1
                     /\ t(j).retry = row[j].retry
  BY <1>2, <1>3 DEF NoTask, Task, Step, Outcome
<1>5. task \in [Runs -> [Jobs -> Task]]
  BY DEF TypeOK
<1>6. f \in [Jobs -> Task]
  BY <1>2, <1>4
<1>7. task' \in [Runs -> [Jobs -> Task]] /\ task'[r] = f
      /\ \A q \in Runs : q # r => task'[q] = task[q]
  BY <1>1, <1>5, <1>6
<1>8. /\ \A i \in Jobs \ S : task'[r][i] = NoTask
      /\ \A i \in S : task'[r][i] = t(i)
      /\ \A q \in Runs, i \in Jobs : q # r => task'[q][i] = task[q][i]
  BY <1>7
<1>9. \A i \in S : /\ task'[r][i].step = "queued" /\ task'[r][i].part = 1
                    /\ task'[r][i].retry = row[i].retry
  <2>. HIDE DEF t
  <2>. QED
    BY <1>4, <1>8
<1>10. Claims(r, S)
  BY <1>1, <1>8, <1>9 DEF Claims, BatchOver
<1>11. \A i \in Jobs : 1 \in Parts(i)
  BY DEF Parts
<1>12. \A q \in Runs, i \in Jobs : task[q][i].part \in Parts(i)
  BY DEF TypeOK
<1>13. \A q \in Runs, i \in Jobs : task'[q][i].part \in Parts(i)
  <2>. HIDE DEF t, f
  <2>1. ASSUME NEW q \in Runs, NEW i \in Jobs PROVE task'[q][i].part \in Parts(i)
    <3>1. CASE q = r /\ i \in S
      BY <3>1, <1>9, <1>11
    <3>2. CASE q = r /\ i \notin S
      BY <3>2, <1>2, <1>8
    <3>3. CASE q # r
      BY <3>3, <1>8, <1>12
    <3>. QED
      BY <3>1, <3>2, <3>3
  <2>. QED
    BY <2>1
<1>. QED
  BY <1>7, <1>10, <1>13

(* The rows.  What Finished and Requeued make of a row.                      *)
LEMMA RowFields ==
  ASSUME TypeOK, NEW j \in Jobs
  PROVE  /\ row[j] \in Row
         /\ row[j].status \in Status /\ row[j].retry \in Nat
         /\ row[j].delayed \in BOOLEAN /\ row[j].error \in ErrorText
         /\ row[j].status = "absent" => row[j].retry = 0 /\ ~row[j].delayed
BY DEF TypeOK, Row

(* How the end of a job moves its retry_count: one more failure ends it, or    *)
(* puts a RUNNING row back if the claim read a count below the limit.        *)
RetryMoves(old, new, n) ==
  \/ new.retry = old.retry /\ (new.status = "PENDING" => old.status \in {"RUNNING", "PENDING"})
  \/ new.retry = old.retry + 1 /\ new.status = "FAILED"
  \/ /\ new.retry = old.retry + 1 /\ new.status = "PENDING"
     /\ old.status = "RUNNING" /\ n < MaxTransportRetry

LEMMA FinishedRow ==
  ASSUME NEW old \in Row, NEW how \in Outcome, NEW n \in Nat
  PROVE  /\ Finished(old, how, n) \in Row
         /\ Finished(old, how, n).status # "RUNNING"
         /\ Finished(old, how, n).status = "absent" => Finished(old, how, n) = old
         /\ Finished(old, how, n).status = "DONE" => how = "done" \/ old.status = "DONE"
         /\ RetryMoves(old, Finished(old, how, n), n)
<1>1. CASE how = "done"
  BY <1>1 DEF Finished, Row, Status, ErrorText, RetryMoves
<1>2. CASE how = "reset" \/ (how = "TRANSPORT" /\ n < MaxTransportRetry)
  <2>1. CASE old.status # "RUNNING"
    BY <1>2, <2>1 DEF Finished, RetryMoves
  <2>2. CASE old.status = "RUNNING" /\ how = "reset"
    BY <2>2 DEF Finished, Row, Status, RetryMoves
  <2>3. CASE old.status = "RUNNING" /\ how = "TRANSPORT"
    <3>1. old.retry + 1 \in Nat
      BY DEF Row
    <3>2. Finished(old, how, n) = [old EXCEPT !.status = "PENDING", !.delayed = TRUE,
                                     !.retry = old.retry + 1, !.error = how]
      BY <1>2, <2>3 DEF Finished
    <3>. QED
      BY <1>2, <2>3, <3>1, <3>2 DEF Row, Status, ErrorText, RetryMoves
  <2>. QED
    BY <1>2, <2>1, <2>2, <2>3
<1>3. CASE /\ how # "done"
           /\ ~(how = "reset" \/ (how = "TRANSPORT" /\ n < MaxTransportRetry))
  <2>1. old.retry + 1 \in Nat
    BY DEF Row
  <2>2. how \in ErrorText
    BY <1>3 DEF Outcome, ErrorText
  <2>3. Finished(old, how, n) = [old EXCEPT !.status = "FAILED", !.retry = old.retry + 1,
                                            !.error = how]
    BY <1>3 DEF Finished
  <2>. QED
    BY <2>1, <2>2, <2>3 DEF Row, Status, RetryMoves
<1>. QED
  BY <1>1, <1>2, <1>3

LEMMA RequeuedRow ==
  ASSUME TypeOK, NEW j \in Jobs
  PROVE  /\ Requeued(j) \in Row /\ Requeued(j).status = "PENDING"
         /\ Requeued(j).retry = row[j].retry
         /\ [Requeued(j) EXCEPT !.retry = 0] \in Row
         /\ [Requeued(j) EXCEPT !.retry = 0].status = "PENDING"
         /\ [Requeued(j) EXCEPT !.retry = 0].retry = 0
<1>1. Requeued(j) \in Row /\ Requeued(j).status = "PENDING" /\ Requeued(j).retry = row[j].retry
  BY RowFields DEF Requeued, Row, Status, ErrorText
<1>. QED
  BY <1>1 DEF Row

LEMMA RunningRow ==
  ASSUME TypeOK, NEW j \in Jobs
  PROVE  /\ [row[j] EXCEPT !.status = "RUNNING"] \in Row
         /\ [row[j] EXCEPT !.status = "PENDING"] \in Row
         /\ [row[j] EXCEPT !.delayed = FALSE] \in Row
         /\ [row[j] EXCEPT !.status = "PENDING"].status = "PENDING"
         /\ [row[j] EXCEPT !.status = "PENDING"].retry = row[j].retry
         /\ [row[j] EXCEPT !.delayed = FALSE].status = row[j].status
         /\ [row[j] EXCEPT !.delayed = FALSE].retry = row[j].retry
BY RowFields DEF Row, Status

(* Type correctness, in the groups of variables that one step can disturb.   *)
RowsOK ==
  /\ row \in [Jobs -> Row]
  /\ \A j \in Jobs : row[j].status = "absent" => row[j].retry = 0 /\ ~row[j].delayed

TasksOK ==
  /\ task \in [Runs -> [Jobs -> Task]]
  /\ \A r \in Runs, j \in Jobs : task[r][j].part \in Parts(j)
  /\ exhausted \in [Runs -> BOOLEAN]

BronzeOK == bronze \subseteq {a \in Artifacts : a[2] \in Parts(a[1])}

Recollecting == [step : {"none", "delete", "lookup", "reset"}, job : Jobs \cup {"none"},
                 part : 1 .. 2, seen : Status \cup {"none"}, reset_running : BOOLEAN]

OperatorsOK ==
  /\ recollect \in Recollecting
  /\ recollect.step # "none" => recollect.job \in Jobs
  /\ recollect.step = "delete" => recollect.part \in Parts(recollect.job)
  /\ resync \in [step : {"none", "lookup", "reset"}, job : Jobs \cup {"none"}]
  /\ resync.step # "none" => resync.job \in Jobs

HistoryOK ==
  /\ manual \in [Jobs -> Nat]
  /\ lost \subseteq Jobs /\ stolen \subseteq Jobs /\ invalidated \subseteq Jobs

LEMMA TypeParts ==
  TypeOK <=> RowsOK /\ TasksOK /\ BronzeOK /\ OperatorsOK /\ HistoryOK
BY DEF TypeOK, RowsOK, TasksOK, BronzeOK, OperatorsOK, HistoryOK, Recollecting

LEMMA TypePartsNext ==
  RowsOK' /\ TasksOK' /\ BronzeOK' /\ OperatorsOK' /\ HistoryOK' => TypeOK'
BY DEF TypeOK, RowsOK, TasksOK, BronzeOK, OperatorsOK, HistoryOK, Recollecting

LEMMA InitType == Init => TypeOK
BY JobsAssumption
DEF Init, TypeOK, Row, Task, Status, ErrorText, Step, Outcome, NoTask, NoRecollect,
    NoResync, Parts

LEMMA LocalType ==
  ASSUME TypeOK, NEW r \in Runs, NEW j \in Jobs, Local(r, j)
  PROVE  TypeOK'
<1>1. PICK t \in Task : Goes(j, task[r][j], t) /\ Works(r, j, t)
  BY LocalGoes
<1>2. UNCHANGED <<queue, operators, history>>
  BY DEF Local, StartJob, SkipJob, CheckBronze, ApiAnswers, ApiLimited, JobFails, LogRequest
<1>3. exhausted' = exhausted \/ exhausted' = [exhausted EXCEPT ![r] = TRUE]
  BY DEF Local, StartJob, SkipJob, CheckBronze, ApiAnswers, ApiLimited, JobFails, LogRequest
<1>4. TasksOK'
  <2>1. /\ task' \in [Runs -> [Jobs -> Task]]
        /\ \A q \in Runs, i \in Jobs : task'[q][i].part \in Parts(i)
    BY <1>1, WorksType DEF Goes
  <2>2. exhausted' \in [Runs -> BOOLEAN]
    BY <1>3 DEF TypeOK
  <2>. QED
    BY <2>1, <2>2 DEF TasksOK, Parts
<1>5. RowsOK' /\ BronzeOK' /\ OperatorsOK' /\ HistoryOK'
  BY <1>2, TypeParts
  DEF queue, operators, history, RowsOK, BronzeOK, OperatorsOK, HistoryOK, Parts, Artifacts
<1>. QED
  BY <1>4, <1>5, TypePartsNext

LEMMA WriteType ==
  ASSUME TypeOK, NEW r \in Runs, NEW j \in Jobs, WriteBronze(r, j)
  PROVE  /\ TypeOK'
         /\ \E t \in Task : /\ t.step = "log" /\ t.part = task[r][j].part
                           /\ t.retry = task[r][j].retry
                           /\ Works(r, j, t)
<1>1. PICK t \in Task : /\ t.step = "log" /\ t.part = task[r][j].part
                       /\ t.retry = task[r][j].retry
                       /\ Works(r, j, t)
  BY MovesWorks DEF WriteBronze, Step
<1>2. TasksOK'
  BY <1>1, WorksType, TaskFields DEF TasksOK, TypeOK, WriteBronze, Parts
<1>3. BronzeOK'
  <2>1. task[r][j].part \in 1 .. 2 /\ task[r][j].part \in Parts(j)
    BY TaskFields
  <2>. QED
    BY <2>1, TypeParts DEF BronzeOK, WriteBronze, Artifacts, Parts
<1>4. RowsOK' /\ OperatorsOK' /\ HistoryOK'
  BY TypeParts DEF WriteBronze, operators, RowsOK, OperatorsOK, HistoryOK, Parts
<1>. QED
  BY <1>1, <1>2, <1>3, <1>4, TypePartsNext

LEMMA StolenType ==
  ASSUME TypeOK, NEW r \in Runs, NEW S
  PROVE  StillStolen(r, S) \subseteq stolen
BY DEF StillStolen

LEMMA FinishType ==
  ASSUME TypeOK, NEW r \in Runs, NEW j \in Jobs, FinishJob(r, j)
  PROVE  TypeOK' /\ Works(r, j, NoTask)
<1>1. NoTask \in Task /\ NoTask.part \in Parts(j)
  BY DEF NoTask, Task, Step, Outcome, Parts
<1>2. Works(r, j, NoTask)
  BY DEF FinishJob, Works
<1>3. TasksOK'
  BY <1>1, <1>2, WorksType DEF TasksOK, TypeOK, FinishJob, Parts
<1>4. RowsOK'
  <2>. DEFINE new == Finished(row[j], task[r][j].outcome, task[r][j].retry)
  <2>1. new \in Row /\ (new.status = "absent" => new = row[j])
    BY RowFields, TaskFields, FinishedRow
  <2>2. row' = [row EXCEPT ![j] = new] /\ row \in [Jobs -> Row]
    BY DEF FinishJob, TypeOK
  <2>3. row' \in [Jobs -> Row] /\ \A i \in Jobs : row'[i] = IF i = j THEN new ELSE row[i]
    BY <2>1, <2>2
  <2>. QED
    BY <2>1, <2>3, RowFields DEF RowsOK
<1>5. BronzeOK' /\ OperatorsOK' /\ HistoryOK'
  BY TypeParts, StolenType
  DEF FinishJob, operators, BronzeOK, OperatorsOK, HistoryOK, Parts, Artifacts
<1>. QED
  BY <1>2, <1>3, <1>4, <1>5, TypePartsNext

LEMMA DropType ==
  ASSUME TypeOK, NEW r \in Runs, NEW S \in SUBSET Jobs, Drop(r, S)
  PROVE  TypeOK'
<1>1. TasksOK'
  BY DropTasks DEF TasksOK, TypeOK, Drop, Parts
<1>2. RowsOK' /\ BronzeOK' /\ OperatorsOK' /\ HistoryOK'
  BY TypeParts, StolenType
  DEF Drop, queue, operators, RowsOK, BronzeOK, OperatorsOK, HistoryOK, Parts, Artifacts
<1>. QED
  BY <1>1, <1>2, TypePartsNext

(* FinishFails and Crash drop jobs that the run has.                         *)
LEMMA Drops ==
  ASSUME TypeOK, NEW r \in Runs, Crash(r) \/ \E j \in Jobs : FinishFails(r, j)
  PROVE  \E S \in SUBSET Held(r) : Drop(r, S)
<1>1. CASE Crash(r)
  BY <1>1 DEF Crash
<1>2. ASSUME NEW j \in Jobs, FinishFails(r, j) PROVE \E S \in SUBSET Held(r) : Drop(r, S)
  <2>1. PICK C \in SUBSET Queued(r) : Drop(r, C \cup {j})
    BY <1>2 DEF FinishFails
  <2>2. C \cup {j} \subseteq Held(r)
    BY <1>2 DEF FinishFails, Queued, Held
  <2>. QED
    BY <2>1, <2>2
<1>. QED
  BY <1>1, <1>2

LEMMA ClaimType ==
  ASSUME TypeOK, NEW r \in Runs, ClaimPendingJobs(r)
  PROVE  TypeOK'
<1>1. TasksOK'
  <2>1. exhausted' \in [Runs -> BOOLEAN]
    BY DEF ClaimPendingJobs, TypeOK
  <2>. QED
    BY <2>1, ClaimTasks DEF TasksOK, Parts
<1>2. RowsOK'
  <2>1. PICK S \in SUBSET Jobs : Claims(r, S)
    BY ClaimTasks
  <2>2. \A i \in Jobs : /\ row[i] \in Row /\ [row[i] EXCEPT !.status = "RUNNING"] \in Row
                        /\ [row[i] EXCEPT !.status = "RUNNING"].status = "RUNNING"
    BY RunningRow, RowFields DEF Row
  <2>. QED
    BY <2>1, <2>2, RowFields DEF RowsOK, Claims
<1>3. BronzeOK' /\ OperatorsOK' /\ HistoryOK'
  <2>1. UNCHANGED <<bronze, operators, history>>
    BY DEF ClaimPendingJobs
  <2>. QED
    BY <2>1, TypeParts
    DEF operators, history, BronzeOK, OperatorsOK, HistoryOK, Parts, Artifacts
<1>. QED
  BY <1>1, <1>2, <1>3, TypePartsNext

(* The steps of the queue and of the requeue jobs.                           *)
QueueStep ==
  \/ \E j \in Jobs : Enqueue(j) \/ DelayEnds(j)
  \/ RequeueTransportFailedJobs \/ RequeueQuotaFailedJobs

LEMMA QueueType ==
  ASSUME TypeOK, QueueStep
  PROVE  TypeOK'
<1>1. RowsOK'
  <2>1. ASSUME NEW j \in Jobs, Enqueue(j) PROVE RowsOK'
    BY <2>1, RunningRow, RowFields DEF Enqueue, RowsOK, Row, TypeOK
  <2>2. ASSUME NEW j \in Jobs, DelayEnds(j) PROVE RowsOK'
    <3>. DEFINE new == [row[j] EXCEPT !.delayed = FALSE]
    <3>1. new \in Row /\ new.status # "absent"
      BY <2>2, RunningRow, RowFields DEF DelayEnds
    <3>2. row' = [row EXCEPT ![j] = new] /\ RowsOK
      BY <2>2 DEF DelayEnds, TypeOK, RowsOK
    <3>. HIDE DEF new
    <3>. QED
      BY <3>1, <3>2 DEF RowsOK
  <2>3. ASSUME NEW failed \in SUBSET Jobs,
               row' = [j \in Jobs |-> IF j \in failed THEN Requeued(j) ELSE row[j]]
        PROVE  RowsOK'
    BY <2>3, RequeuedRow, RowFields DEF RowsOK
  <2>4. CASE RequeueTransportFailedJobs
    BY <2>3, <2>4 DEF RequeueTransportFailedJobs
  <2>5. CASE RequeueQuotaFailedJobs
    BY <2>3, <2>5 DEF RequeueQuotaFailedJobs
  <2>. QED
    BY <2>1, <2>2, <2>4, <2>5 DEF QueueStep
<1>2. UNCHANGED <<bronze, workers, operators, lost, stolen, invalidated>>
  BY DEF QueueStep, Enqueue, DelayEnds, RequeueTransportFailedJobs, RequeueQuotaFailedJobs,
         history
<1>3. manual' \in [Jobs -> Nat]
  <2>1. CASE RequeueQuotaFailedJobs
    BY <2>1 DEF RequeueQuotaFailedJobs, TypeOK
  <2>2. CASE ~RequeueQuotaFailedJobs
    BY <2>2 DEF QueueStep, Enqueue, DelayEnds, RequeueTransportFailedJobs, history, TypeOK
  <2>. QED
    BY <2>1, <2>2
<1>4. TasksOK' /\ BronzeOK' /\ OperatorsOK' /\ HistoryOK'
  BY <1>2, <1>3, TypeParts
  DEF workers, operators, TasksOK, BronzeOK, OperatorsOK, HistoryOK, Parts, Artifacts
<1>. QED
  BY <1>1, <1>4, TypePartsNext

(* The steps of the operator and of the replay leave the workers alone.      *)
LEMMA RecollectType ==
  ASSUME TypeOK, RecollectStep
  PROVE  TypeOK'
<1>1. ASSUME NEW j \in Jobs, NEW b \in ResetRunning, BeginRecollect(j, b) PROVE TypeOK'
  <2>1. b \in BOOLEAN
    BY JobsAssumption
  <2>2. OperatorsOK'
    <3>1. recollect' = [step |-> "delete", job |-> j, part |-> 1, seen |-> "none",
                        reset_running |-> b]
      BY <1>1 DEF BeginRecollect, NoRecollect
    <3>2. recollect' \in Recollecting
      BY <2>1, <3>1 DEF Recollecting
    <3>3. 1 \in Parts(j)
      BY DEF Parts
    <3>4. recollect'.job \in Jobs /\ recollect'.part \in Parts(recollect'.job)
      BY <3>1, <3>3
    <3>. QED
      BY <1>1, <3>2, <3>4, TypeParts DEF BeginRecollect, OperatorsOK, Parts
  <2>3. RowsOK' /\ TasksOK' /\ BronzeOK' /\ HistoryOK'
    BY <1>1, TypeParts
    DEF BeginRecollect, queue, workers, RowsOK, TasksOK, BronzeOK, HistoryOK, Parts, Artifacts
  <2>. QED
    BY <2>2, <2>3, TypePartsNext
<1>2. CASE DeleteArtifact
  <2>1. recollect.job \in Jobs
    BY <1>2 DEF DeleteArtifact, TypeOK
  <2>2. OperatorsOK'
    BY <1>2, <2>1, TypeParts DEF DeleteArtifact, OperatorsOK, Recollecting, Parts
  <2>3. RowsOK' /\ TasksOK' /\ BronzeOK' /\ HistoryOK'
    BY <1>2, <2>1, TypeParts
    DEF DeleteArtifact, workers, RowsOK, TasksOK, BronzeOK, HistoryOK, Parts, Artifacts
  <2>. QED
    BY <2>2, <2>3, TypePartsNext
<1>3. CASE LookupJob
  <2>1. recollect.job \in Jobs /\ row[recollect.job].status \in Status
    BY <1>3, RowFields DEF LookupJob, TypeOK
  <2>2. OperatorsOK'
    <3>1. CASE recollect' = NoRecollect
      <4>1. NoRecollect \in Recollecting /\ NoRecollect.step = "none"
        BY DEF NoRecollect, Recollecting
      <4>. QED
        BY <1>3, <3>1, <4>1, TypeParts DEF LookupJob, OperatorsOK
    <3>2. CASE recollect' = [recollect EXCEPT !.step = "reset",
                                              !.seen = row[recollect.job].status]
      <4>1. recollect \in Recollecting /\ resync' = resync
        BY <1>3, TypeParts DEF OperatorsOK, LookupJob
      <4>2. /\ recollect' \in Recollecting /\ recollect'.step = "reset"
            /\ recollect'.job = recollect.job
        BY <2>1, <3>2, <4>1 DEF Recollecting
      <4>. QED
        BY <2>1, <4>1, <4>2, TypeParts DEF OperatorsOK
    <3>. QED
      BY <1>3, <3>1, <3>2 DEF LookupJob
  <2>3. RowsOK' /\ TasksOK' /\ BronzeOK' /\ HistoryOK'
    BY <1>3, TypeParts
    DEF LookupJob, queue, workers, history, RowsOK, TasksOK, BronzeOK, HistoryOK, Parts,
        Artifacts
  <2>. QED
    BY <2>2, <2>3, TypePartsNext
<1>4. CASE ResetOrEnqueueJob
  <2>. DEFINE j == recollect.job
  <2>1. j \in Jobs
    BY <1>4 DEF ResetOrEnqueueJob, TypeOK
  <2>2. row' = row \/ row' = [row EXCEPT ![j] = Requeued(j)]
    BY <1>4 DEF ResetOrEnqueueJob
  <2>3. RowsOK'
    BY <2>1, <2>2, TypeParts, RequeuedRow DEF RowsOK
  <2>4. HistoryOK'
    BY <1>4, <2>1, TypeParts DEF ResetOrEnqueueJob, Freed, HistoryOK
  <2>5. TasksOK' /\ BronzeOK' /\ OperatorsOK'
    BY <1>4, TypeParts
    DEF ResetOrEnqueueJob, workers, NoRecollect, TasksOK, BronzeOK, OperatorsOK,
        Recollecting, Parts,
        Artifacts
  <2>. QED
    BY <2>3, <2>4, <2>5, TypePartsNext
<1>5. CASE RecollectDies
  BY <1>5, TypeParts, TypePartsNext
  DEF RecollectDies, NoRecollect, queue, workers, history, RowsOK, TasksOK, BronzeOK,
      OperatorsOK, Recollecting, HistoryOK, Parts, Artifacts
<1>. QED
  BY <1>1, <1>2, <1>3, <1>4, <1>5 DEF RecollectStep

LEMMA ResyncType ==
  ASSUME TypeOK, ResyncStep
  PROVE  TypeOK'
<1>1. ASSUME NEW j \in Jobs, ResyncFindsMissing(j) PROVE TypeOK'
  BY <1>1, TypeParts, TypePartsNext
  DEF ResyncFindsMissing, queue, workers, history, RowsOK, TasksOK, BronzeOK,
      OperatorsOK, HistoryOK, Parts, Artifacts
<1>2. CASE ResyncLooksUp
  <2>. DEFINE j == resync.job
  <2>1. j \in Jobs
    BY <1>2 DEF ResyncLooksUp, TypeOK
  <2>2. RowsOK'
    BY <1>2, <2>1, TypeParts, RunningRow DEF ResyncLooksUp, RowsOK, Row
  <2>3. OperatorsOK'
    BY <1>2, TypeParts DEF ResyncLooksUp, NoResync, OperatorsOK, Parts
  <2>4. TasksOK' /\ BronzeOK' /\ HistoryOK'
    BY <1>2, TypeParts
    DEF ResyncLooksUp, workers, history, TasksOK, BronzeOK, HistoryOK, Parts, Artifacts
  <2>. QED
    BY <2>2, <2>3, <2>4, TypePartsNext
<1>3. CASE ResyncResets
  <2>. DEFINE j == resync.job
  <2>1. j \in Jobs
    BY <1>3 DEF ResyncResets, TypeOK
  <2>2. row' = row \/ row' = [row EXCEPT ![j] = [Requeued(j) EXCEPT !.retry = 0]]
    BY <1>3 DEF ResyncResets
  <2>3. RowsOK'
    BY <2>1, <2>2, TypeParts, RequeuedRow DEF RowsOK
  <2>4. OperatorsOK' /\ HistoryOK'
    BY <1>3, TypeParts DEF ResyncResets, NoResync, Freed, OperatorsOK, HistoryOK, Parts
  <2>5. TasksOK' /\ BronzeOK'
    BY <1>3, TypeParts DEF ResyncResets, workers, TasksOK, BronzeOK, Parts, Artifacts
  <2>. QED
    BY <2>3, <2>4, <2>5, TypePartsNext
<1>. QED
  BY <1>1, <1>2, <1>3 DEF ResyncStep

(* The kinds of steps a proof about the queue tells apart.                   *)
LEMMA StepKinds ==
  ASSUME Next
  PROVE  \/ \E r \in Runs : ClaimPendingJobs(r)
         \/ \E r \in Runs : Crash(r) \/ \E j \in Jobs : FinishFails(r, j)
         \/ \E r \in Runs, j \in Jobs : Local(r, j) \/ WriteBronze(r, j) \/ FinishJob(r, j)
         \/ QueueStep \/ RecollectStep \/ ResyncStep
BY WorkerCases DEF Next, QueueStep

LEMMA TypeStep == TypeOK /\ [Next]_vars => TypeOK'
<1>. SUFFICES ASSUME TypeOK, [Next]_vars PROVE TypeOK'
  OBVIOUS
<1>1. ASSUME NEW r \in Runs, ClaimPendingJobs(r) PROVE TypeOK'
  BY <1>1, ClaimType
<1>2. ASSUME NEW r \in Runs, Crash(r) \/ \E j \in Jobs : FinishFails(r, j) PROVE TypeOK'
  BY <1>2, Drops, DropType DEF Held
<1>3. ASSUME NEW r \in Runs, NEW j \in Jobs,
             Local(r, j) \/ WriteBronze(r, j) \/ FinishJob(r, j)
      PROVE  TypeOK'
  BY <1>3, LocalType, WriteType, FinishType
<1>4. CASE QueueStep \/ RecollectStep \/ ResyncStep
  BY <1>4, QueueType, RecollectType, ResyncType
<1>5. CASE UNCHANGED vars
  BY <1>5, TypeParts, TypePartsNext
  DEF vars, queue, workers, operators, history, RowsOK, TasksOK, BronzeOK, OperatorsOK,
      HistoryOK, Parts, Artifacts
<1>. QED
  BY <1>1, <1>2, <1>3, <1>4, <1>5, StepKinds

(* The queue, the Bronze files, every worker's task and the history of resets *)
(* keep their types, and a row that was never inserted stays untouched.      *)
THEOREM TypeCorrect == Spec => []TypeOK
BY InitType, TypeStep, PTL DEF Spec
=============================================================================
