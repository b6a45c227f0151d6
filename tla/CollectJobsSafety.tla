------------------------- MODULE CollectJobsSafety -------------------------
(***************************************************************************)
(* The safety theorems of CollectJobs: a job is in one run, a RUNNING row    *)
(* has a run, nothing in Bronze is fetched again, DONE means collected, and   *)
(* failures are retried a bounded number of times; and the implementation of *)
(* JobLifecycle.                                                             *)
(***************************************************************************)
EXTENDS CollectJobsProofs

(* One run per job --------------------------------------------------------- *)

(* OneHolder without cardinalities.                                          *)
Single == \A j \in Jobs \ stolen : \A q, r \in Holders(j) : q = r

HeldInv == Single /\ RunningIsHeld

LEMMA SingleMeansOne == Single => OneHolder
<1>. SUFFICES ASSUME Single, NEW j \in Jobs \ stolen PROVE Cardinality(Holders(j)) <= 1
  BY DEF OneHolder
<1>1. CASE Holders(j) = {}
  BY <1>1, FS_EmptySet
<1>2. CASE Holders(j) # {}
  <2>1. PICK r : r \in Holders(j)
    BY <1>2
  <2>2. Holders(j) = {r}
    BY <2>1 DEF Single
  <2>3. Cardinality({r}) = 1
    BY FS_Singleton
  <2>. QED
    BY <2>2, <2>3
<1>. QED
  BY <1>1, <1>2

(* A step that moves no job between runs and no row in or out of RUNNING.     *)
LEMMA HeldKept ==
  ASSUME HeldInv,
         \A i \in Jobs : Holders(i)' = Holders(i),
         \A i \in Jobs : row'[i].status = "RUNNING" <=> row[i].status = "RUNNING",
         lost' = lost, stolen' = stolen
  PROVE  HeldInv'
BY DEF HeldInv, Single, RunningIsHeld

LEMMA SameTasks ==
  ASSUME task' = task
  PROVE  \A i \in Jobs : Holders(i)' = Holders(i)
BY DEF Holders

LEMMA WorksHolders ==
  ASSUME TypeOK, NEW r \in Runs, NEW j \in Jobs, NEW t \in Task, t.part \in Parts(j),
         Works(r, j, t), task[r][j].step # "none", t.step # "none"
  PROVE  \A i \in Jobs : Holders(i)' = Holders(i)
BY WorksType DEF Holders

LEMMA HeldWork ==
  ASSUME TypeOK, HeldInv, NEW r \in Runs, NEW j \in Jobs, Local(r, j) \/ WriteBronze(r, j)
  PROVE  HeldInv'
<1>1. \A i \in Jobs : Holders(i)' = Holders(i)
  <2>1. CASE Local(r, j)
    BY <2>1, LocalGoes, WorksHolders DEF Goes
  <2>2. CASE WriteBronze(r, j)
    <3>1. task[r][j].step = "write"
      BY <2>2 DEF WriteBronze
    <3>. QED
      BY <2>2, <3>1, WriteType, WorksHolders, TaskFields
  <2>. QED
    BY <2>1, <2>2
<1>2. row' = row /\ lost' = lost /\ stolen' = stolen
  BY DEF Local, StartJob, SkipJob, CheckBronze, ApiAnswers, ApiLimited, JobFails, LogRequest,
         WriteBronze, queue, history
<1>. QED
  BY <1>1, <1>2, HeldKept

(* A run that lets go of the jobs of S.                                      *)
LetsGo(r, S) == \A i \in Jobs : Holders(i)' = Holders(i) \ (IF i \in S THEN {r} ELSE {})

LEMMA HeldFinish ==
  ASSUME TypeOK, HeldInv, NEW r \in Runs, NEW j \in Jobs, FinishJob(r, j)
  PROVE  HeldInv'
<1>1. NoTask \in Task /\ NoTask.part \in Parts(j) /\ NoTask.step = "none"
  BY DEF NoTask, Task, Step, Outcome, Parts
<1>2. LetsGo(r, {j})
  BY <1>1, FinishType, WorksType DEF Holders, LetsGo
<1>3. stolen' = {i \in stolen : Holders(i)' # {}}
  BY <1>2 DEF FinishJob, StillStolen, LetsGo, TypeOK
<1>4. r \in Holders(j)
  BY DEF FinishJob, Holders
<1>5. /\ \A i \in Jobs \ {j} : row'[i] = row[i]
      /\ row'[j].status # "RUNNING"
      /\ lost' = lost \ {j}
  BY FinishedRow, RowFields, TaskFields DEF FinishJob, TypeOK
<1>6. Single'
  BY <1>2, <1>3 DEF HeldInv, Single, LetsGo
<1>7. RunningIsHeld'
  <2>. SUFFICES ASSUME NEW i \in Jobs
       PROVE  /\ row'[i].status = "RUNNING" => Holders(i)' # {} \/ i \in lost'
              /\ Holders(i)' # {} /\ i \notin stolen' => row'[i].status = "RUNNING"
    BY DEF RunningIsHeld
  <2>1. CASE i = j
    <3>1. Holders(i)' # {} => i \in stolen'
      BY <1>2, <1>3, <1>4, <2>1 DEF HeldInv, Single, LetsGo
    <3>. QED
      BY <1>5, <2>1, <3>1
  <2>2. CASE i # j
    BY <1>2, <1>3, <1>5, <2>2 DEF HeldInv, RunningIsHeld, LetsGo
  <2>. QED
    BY <2>1, <2>2
<1>. QED
  BY <1>6, <1>7 DEF HeldInv

LEMMA HeldDrop ==
  ASSUME TypeOK, HeldInv, NEW r \in Runs, NEW S \in SUBSET Held(r), Drop(r, S)
  PROVE  HeldInv'
<1>1. \A i \in S : i \in Jobs /\ r \in Holders(i)
  BY DEF Held, Holders
<1>2. LetsGo(r, S)
  BY DropTasks DEF Holders, LetsGo, NoTask
<1>3. stolen' = {i \in stolen : Holders(i)' # {}}
  BY <1>2 DEF Drop, StillStolen, LetsGo, TypeOK
<1>4. row' = row
  BY DEF Drop, queue
<1>5. Single'
  BY <1>2, <1>3 DEF HeldInv, Single, LetsGo
<1>6. RunningIsHeld'
  <2>. SUFFICES ASSUME NEW i \in Jobs
       PROVE  /\ row[i].status = "RUNNING" => Holders(i)' # {} \/ i \in lost'
              /\ Holders(i)' # {} /\ i \notin stolen' => row[i].status = "RUNNING"
    BY <1>4 DEF RunningIsHeld
  <2>1. row[i].status = "RUNNING" => Holders(i)' # {} \/ i \in lost'
    BY <1>1, <1>2 DEF HeldInv, RunningIsHeld, LetsGo, Drop
  <2>2. Holders(i)' # {} /\ i \notin stolen' => row[i].status = "RUNNING"
    BY <1>2, <1>3 DEF HeldInv, RunningIsHeld, LetsGo
  <2>. QED
    BY <2>1, <2>2
<1>. QED
  BY <1>5, <1>6 DEF HeldInv

LEMMA HeldClaim ==
  ASSUME TypeOK, HeldInv, NEW r \in Runs, ClaimPendingJobs(r)
  PROVE  HeldInv'
<1>1. PICK S \in SUBSET Jobs : Claims(r, S)
  BY ClaimTasks
<1>2. \A i \in Jobs : r \notin Holders(i)
  BY <1>1 DEF Claims, Held, Holders
<1>3. \A i \in Jobs : Holders(i)' = Holders(i) \cup (IF i \in S THEN {r} ELSE {})
  BY <1>1, <1>2 DEF Claims, Holders, NoTask
<1>4. lost' = lost /\ stolen' = stolen
  BY DEF ClaimPendingJobs, history
<1>5. \A i \in S : Holders(i) = {} \/ i \in stolen
  BY <1>1 DEF Claims, Ready, HeldInv, RunningIsHeld
<1>6. /\ \A i \in S : row'[i].status = "RUNNING"
      /\ \A i \in Jobs \ S : row'[i] = row[i]
  BY <1>1, RowFields DEF Claims, Row
<1>7. Single'
  BY <1>3, <1>4, <1>5 DEF HeldInv, Single
<1>8. RunningIsHeld'
  BY <1>3, <1>4, <1>6 DEF HeldInv, RunningIsHeld
<1>. QED
  BY <1>7, <1>8 DEF HeldInv

LEMMA HeldQueue ==
  ASSUME TypeOK, HeldInv, QueueStep
  PROVE  HeldInv'
<1>1. task' = task /\ lost' = lost /\ stolen' = stolen
  BY DEF QueueStep, Enqueue, DelayEnds, RequeueTransportFailedJobs, RequeueQuotaFailedJobs,
         workers, history
<1>2. \A i \in Jobs : row'[i].status = "RUNNING" <=> row[i].status = "RUNNING"
  <2>1. ASSUME NEW j \in Jobs, Enqueue(j)
        PROVE  \A i \in Jobs : row'[i].status = "RUNNING" <=> row[i].status = "RUNNING"
    BY <2>1, RowFields DEF Enqueue, TypeOK, Row
  <2>2. ASSUME NEW j \in Jobs, DelayEnds(j)
        PROVE  \A i \in Jobs : row'[i].status = "RUNNING" <=> row[i].status = "RUNNING"
    <3>1. row \in [Jobs -> Row] /\ row' = [row EXCEPT ![j] = [row[j] EXCEPT !.delayed = FALSE]]
      BY <2>2 DEF DelayEnds, TypeOK
    <3>2. [row[j] EXCEPT !.delayed = FALSE].status = row[j].status
      BY RowFields DEF Row
    <3>. QED
      BY <3>1, <3>2
  <2>3. CASE RequeueTransportFailedJobs
    BY <2>3, RequeuedRow DEF RequeueTransportFailedJobs, Requeueable
  <2>4. CASE RequeueQuotaFailedJobs
    BY <2>4, RequeuedRow DEF RequeueQuotaFailedJobs
  <2>. QED
    BY <2>1, <2>2, <2>3, <2>4 DEF QueueStep
<1>. QED
  BY <1>1, <1>2, SameTasks, HeldKept

LEMMA HeldRecollect ==
  ASSUME TypeOK, HeldInv, RecollectStep
  PROVE  HeldInv'
<1>1. CASE ~ResetOrEnqueueJob
  BY <1>1, SameTasks, HeldKept
  DEF RecollectStep, BeginRecollect, DeleteArtifact, LookupJob, RecollectDies, queue, workers,
      history
<1>2. CASE ResetOrEnqueueJob
  <2>. DEFINE j == recollect.job
  <2>1. j \in Jobs /\ task' = task
    BY <1>2 DEF ResetOrEnqueueJob, TypeOK, workers
  <2>2. \A i \in Jobs : Holders(i)' = Holders(i)
    BY <2>1, SameTasks
  <2>3. CASE row' = row /\ lost' = lost /\ stolen' = stolen
    BY <2>2, <2>3, HeldKept
  <2>4. CASE /\ row' = [row EXCEPT ![j] = Requeued(j)]
             /\ lost' = lost \ {j}
             /\ stolen' = IF Holders(j) # {} THEN stolen \cup {j} ELSE stolen
    <3>1. row'[j].status = "PENDING" /\ \A i \in Jobs \ {j} : row'[i] = row[i]
      BY <2>1, <2>4, RequeuedRow DEF TypeOK
    <3>2. Single'
      BY <2>2, <2>4 DEF HeldInv, Single
    <3>3. RunningIsHeld'
      BY <2>2, <2>4, <3>1 DEF HeldInv, RunningIsHeld
    <3>. QED
      BY <3>2, <3>3 DEF HeldInv
  <2>. QED
    BY <1>2, <2>3, <2>4 DEF ResetOrEnqueueJob
<1>. QED
  BY <1>1, <1>2

LEMMA HeldResync ==
  ASSUME TypeOK, HeldInv, ResyncStep
  PROVE  HeldInv'
<1>1. task' = task /\ lost' = lost /\ stolen' = stolen
  BY DEF ResyncStep, ResyncFindsMissing, ResyncLooksUp, ResyncResets, workers, history
<1>2. \A i \in Jobs : row'[i].status = "RUNNING" <=> row[i].status = "RUNNING"
  <2>1. CASE \E j \in Jobs : ResyncFindsMissing(j)
    BY <2>1 DEF ResyncFindsMissing, queue
  <2>2. CASE ResyncLooksUp
    BY <2>2, RowFields DEF ResyncLooksUp, TypeOK, Row
  <2>3. CASE ResyncResets
    <3>1. resync.job \in Jobs
      BY <2>3 DEF ResyncResets, TypeOK
    <3>. QED
      BY <2>3, <3>1, RequeuedRow DEF ResyncResets, TypeOK
  <2>. QED
    BY <2>1, <2>2, <2>3 DEF ResyncStep
<1>. QED
  BY <1>1, <1>2, SameTasks, HeldKept

LEMMA HeldStep == TypeOK /\ HeldInv /\ [Next]_vars => HeldInv'
<1>. SUFFICES ASSUME TypeOK, HeldInv, [Next]_vars PROVE HeldInv'
  OBVIOUS
<1>1. ASSUME NEW r \in Runs, Crash(r) \/ \E j \in Jobs : FinishFails(r, j) PROVE HeldInv'
  BY <1>1, Drops, HeldDrop
<1>2. ASSUME NEW r \in Runs, NEW j \in Jobs,
             Local(r, j) \/ WriteBronze(r, j) \/ FinishJob(r, j)
      PROVE  HeldInv'
  BY <1>2, HeldWork, HeldFinish
<1>3. CASE UNCHANGED vars
  BY <1>3, SameTasks, HeldKept DEF vars, queue, workers, history
<1>. QED
  BY <1>1, <1>2, <1>3, StepKinds, HeldClaim, HeldQueue, HeldRecollect, HeldResync

LEMMA HeldInit == Init => HeldInv
BY DEF Init, HeldInv, Single, RunningIsHeld, Holders, NoTask

LEMMA HeldAlways == Spec => [](TypeOK /\ HeldInv)
BY InitType, TypeStep, HeldInit, HeldStep, PTL DEF Spec

(* SKIP LOCKED and the RUNNING status keep a job in one run at a time,        *)
(* whatever the runs, crashes and resets, but for a job reset under a run.    *)
THEOREM HolderCorrect == Spec => []OneHolder
BY HeldAlways, SingleMeansOne, PTL DEF HeldInv

(* Every way a run ends a job, and every reset that races with it, leaves no   *)
(* RUNNING row without a run but those of a dead run, and no job in a run     *)
(* whose row is not RUNNING but those reset under the run.                   *)
THEOREM RunningCorrect == Spec => []RunningIsHeld
BY HeldAlways, PTL DEF HeldInv

(* No file is fetched twice ------------------------------------------------ *)

(* A step after which only tasks it left alone are about to fetch, with no    *)
(* file more and no job less stolen.                                         *)
LEMMA FetchedKept ==
  ASSUME FetchedOnce, bronze' \subseteq bronze,
         \A i \in Jobs \ stolen', q \in Runs :
           task'[q][i].step \in {"call", "write"} => i \notin stolen /\ task'[q][i] = task[q][i]
  PROVE  FetchedOnce'
BY DEF FetchedOnce

LEMMA FetchedLocal ==
  ASSUME TypeOK, FetchedOnce, NEW r \in Runs, NEW j \in Jobs, Local(r, j)
  PROVE  FetchedOnce'
<1>1. PICK t \in Task : Goes(j, task[r][j], t) /\ Works(r, j, t)
  BY LocalGoes
<1>2. bronze' = bronze /\ stolen' = stolen
  BY DEF Local, StartJob, SkipJob, CheckBronze, ApiAnswers, ApiLimited, JobFails, LogRequest,
         queue, history
<1>3. \A q \in Runs, i \in Jobs : task'[q][i] = IF q = r /\ i = j THEN t ELSE task[q][i]
  BY <1>1, WorksType DEF Goes
<1>. QED
  BY <1>1, <1>2, <1>3 DEF FetchedOnce, Goes

(* The file that is written is the one the run was about to write, and no     *)
(* other run has the job.                                                    *)
LEMMA FetchedWrite ==
  ASSUME TypeOK, HeldInv, FetchedOnce, NEW r \in Runs, NEW j \in Jobs, WriteBronze(r, j)
  PROVE  FetchedOnce'
<1>1. PICK t \in Task : t.step = "log" /\ t.part = task[r][j].part /\ Works(r, j, t)
  BY WriteType
<1>2. \A q \in Runs, i \in Jobs : task'[q][i] = IF q = r /\ i = j THEN t ELSE task[q][i]
  BY <1>1, WorksType, TaskFields
<1>3. stolen' = stolen /\ bronze' = bronze \cup {<<j, task[r][j].part>>}
  BY DEF WriteBronze
<1>4. r \in Holders(j)
  BY DEF WriteBronze, Holders
<1>. SUFFICES ASSUME NEW i \in Jobs \ stolen, NEW q \in Runs,
                     task'[q][i].step \in {"call", "write"}
              PROVE  <<i, task'[q][i].part>> \notin bronze'
  BY <1>3 DEF FetchedOnce
<1>5. ~(q = r /\ i = j) /\ task'[q][i] = task[q][i]
  BY <1>1, <1>2
<1>6. <<i, task[q][i].part>> \notin bronze
  BY <1>5 DEF FetchedOnce
<1>7. i # j
  BY <1>4, <1>5 DEF HeldInv, Single, Holders
<1>. QED
  BY <1>3, <1>5, <1>6, <1>7

LEMMA FetchedGone ==
  ASSUME TypeOK, FetchedOnce, NEW r \in Runs, NEW S, bronze' = bronze,
         stolen' = StillStolen(r, S),
         \A q \in Runs, i \in Jobs :
           task'[q][i] = IF q = r /\ i \in S THEN NoTask ELSE task[q][i]
  PROVE  FetchedOnce'
<1>. SUFFICES ASSUME NEW i \in Jobs \ stolen', NEW q \in Runs,
                     task'[q][i].step \in {"call", "write"}
              PROVE  i \notin stolen /\ task'[q][i] = task[q][i]
  BY FetchedKept
<1>1. task'[q][i] = task[q][i] /\ ~(q = r /\ i \in S)
  BY DEF NoTask
<1>2. q \in Holders(i) \ (IF i \in S THEN {r} ELSE {})
  BY <1>1 DEF Holders
<1>. QED
  BY <1>1, <1>2 DEF StillStolen

LEMMA FetchedStep == TypeOK /\ HeldInv /\ FetchedOnce /\ [Next]_vars => FetchedOnce'
<1>. SUFFICES ASSUME TypeOK, HeldInv, FetchedOnce, [Next]_vars PROVE FetchedOnce'
  OBVIOUS
<1>1. ASSUME NEW r \in Runs, Crash(r) \/ \E j \in Jobs : FinishFails(r, j)
      PROVE  FetchedOnce'
  <2>1. PICK S \in SUBSET Held(r) : Drop(r, S)
    BY <1>1, Drops
  <2>. QED
    BY <2>1, DropTasks, FetchedGone DEF Drop, queue
<1>2. ASSUME NEW r \in Runs, NEW j \in Jobs, FinishJob(r, j)
      PROVE  FetchedOnce'
  <2>1. NoTask \in Task /\ NoTask.part \in Parts(j)
    BY DEF NoTask, Task, Step, Outcome, Parts
  <2>2. \A q \in Runs, i \in Jobs :
          task'[q][i] = IF q = r /\ i \in {j} THEN NoTask ELSE task[q][i]
    BY <1>2, <2>1, FinishType, WorksType
  <2>. QED
    BY <1>2, <2>2, FetchedGone DEF FinishJob
<1>3. ASSUME NEW r \in Runs, ClaimPendingJobs(r) PROVE FetchedOnce'
  <2>1. PICK S \in SUBSET Jobs : Claims(r, S)
    BY <1>3, ClaimTasks
  <2>2. bronze' = bronze /\ stolen' = stolen
    BY <1>3 DEF ClaimPendingJobs, history
  <2>. QED
    BY <2>1, <2>2, FetchedKept DEF Claims, NoTask
<1>4. CASE QueueStep \/ RecollectStep \/ ResyncStep
  <2>1. task' = task /\ bronze' \subseteq bronze /\ stolen \subseteq stolen'
    BY <1>4
    DEF QueueStep, Enqueue, DelayEnds, RequeueTransportFailedJobs, RequeueQuotaFailedJobs,
        RecollectStep, BeginRecollect, DeleteArtifact, LookupJob, ResetOrEnqueueJob,
        RecollectDies, ResyncStep, ResyncFindsMissing, ResyncLooksUp, ResyncResets, queue,
        workers, history
  <2>. QED
    BY <2>1, FetchedKept
<1>5. CASE UNCHANGED vars
  BY <1>5, FetchedKept DEF vars, queue, workers, history
<1>. QED
  BY <1>1, <1>2, <1>3, <1>4, <1>5, StepKinds, FetchedLocal, FetchedWrite

(* However a job comes back to the queue, no run calls OpenDART for a file    *)
(* that is in Bronze, unless the job was reset under a run.                  *)
THEOREM FetchedCorrect == Spec => []FetchedOnce
<1>1. Init => FetchedOnce
  BY DEF Init, FetchedOnce
<1>. QED
  BY <1>1, HeldAlways, FetchedStep, PTL DEF Spec

(* DONE means collected ---------------------------------------------------- *)

(* The file is there, or the job is one whose files an operator deleted.      *)
Kept(j, p) == <<j, p>> \in bronze \/ j \in invalidated

(* What a run has behind it: the files of the parts before the one it is at,  *)
(* and all of them once the collector is through.                            *)
Behind(r, j) ==
  LET t == task[r][j] IN
  t.step # "none" =>
    /\ \A p \in Parts(j) : p < t.part => Kept(j, p)
    /\ t.step = "log" => Kept(j, t.part)
    /\ t.step = "finish" /\ t.outcome = "done" => \A p \in Parts(j) : Kept(j, p)

CollectInv == DoneHasBronze /\ \A r \in Runs, j \in Jobs : Behind(r, j)

(* A step keeps what is kept of a job, or nobody relies on it any more.       *)
StaysKept(j) ==
  \/ \A p \in Parts(j) : Kept(j, p) => Kept(j, p)'
  \/ Holders(j)' = {} /\ row'[j].status # "DONE"

LEMMA DoneKept ==
  DoneHasBronze <=> \A j \in Jobs : row[j].status = "DONE" => \A p \in Parts(j) : Kept(j, p)
BY DEF DoneHasBronze, Collected, Kept, Parts

LEMMA DoneKeptNext ==
  DoneHasBronze' <=>
    \A j \in Jobs : row'[j].status = "DONE" => \A p \in Parts(j) : Kept(j, p)'
BY DEF DoneHasBronze, Collected, Kept, Parts

LEMMA BehindKept ==
  ASSUME TypeOK, CollectInv, NEW r \in Runs, NEW j \in Jobs, StaysKept(j),
         task'[r][j] = task[r][j]
  PROVE  Behind(r, j)'
<1>1. CASE task[r][j].step = "none"
  BY <1>1 DEF Behind
<1>2. CASE task[r][j].step # "none"
  <2>1. r \in Holders(j)'
    BY <1>2 DEF Holders
  <2>2. \A p \in Parts(j) : Kept(j, p) => Kept(j, p)'
    BY <2>1 DEF StaysKept
  <2>. QED
    BY <1>2, <2>2, TaskFields DEF CollectInv, Behind, Parts, Kept
<1>. QED
  BY <1>1, <1>2

LEMMA CollectLocal ==
  ASSUME TypeOK, CollectInv, NEW r \in Runs, NEW j \in Jobs, Local(r, j)
  PROVE  CollectInv'
<1>1. PICK t \in Task : Goes(j, task[r][j], t) /\ Works(r, j, t)
  BY LocalGoes
<1>2. bronze' = bronze /\ invalidated' = invalidated /\ row' = row
  BY DEF Local, StartJob, SkipJob, CheckBronze, ApiAnswers, ApiLimited, JobFails, LogRequest,
         queue, history
<1>3. \A q \in Runs, i \in Jobs : task'[q][i] = IF q = r /\ i = j THEN t ELSE task[q][i]
  BY <1>1, WorksType DEF Goes
<1>4. \A i, p : Kept(i, p)' <=> Kept(i, p)
  BY <1>2 DEF Kept
<1>5. DoneHasBronze'
  BY <1>2 DEF CollectInv, DoneHasBronze, Collected
<1>6. Behind(r, j)'
  <2>. DEFINE old == task[r][j]
  <2>1. /\ \A p \in Parts(j) : p < old.part => Kept(j, p)
        /\ old.step = "log" => Kept(j, old.part)
    BY <1>1 DEF CollectInv, Behind, Goes
  <2>2. \A p \in Parts(j) : p \in Int
    BY DEF Parts
  <2>3. old.part \in Parts(j) /\ old.part \in Int
    BY TaskFields
  <2>4. old.step = "log" \/ <<j, old.part>> \in bronze => Kept(j, old.part)
    BY <2>1 DEF Kept
  <2>5. \A p \in Parts(j) : p < t.part => Kept(j, p)
    BY <1>1, <2>1, <2>2, <2>3, <2>4 DEF Goes
  <2>6. t.step = "finish" /\ t.outcome = "done" => \A p \in Parts(j) : Kept(j, p)
    <3>1. old.part + 1 \notin Parts(j) => \A p \in Parts(j) : p < old.part \/ p = old.part
      BY <2>3 DEF Parts
    <3>. QED
      BY <1>1, <2>1, <2>4, <3>1 DEF Goes
  <2>7. t.step # "log" /\ task'[r][j] = t
    BY <1>1, <1>3 DEF Goes
  <2>. QED
    BY <1>2, <2>5, <2>6, <2>7 DEF Behind, Kept, Parts
<1>7. ASSUME NEW q \in Runs, NEW i \in Jobs PROVE Behind(q, i)'
  <2>1. StaysKept(i)
    BY <1>4 DEF StaysKept
  <2>. QED
    BY <1>3, <1>6, <2>1, BehindKept
<1>. QED
  BY <1>5, <1>7 DEF CollectInv

LEMMA CollectWrite ==
  ASSUME TypeOK, CollectInv, NEW r \in Runs, NEW j \in Jobs, WriteBronze(r, j)
  PROVE  CollectInv'
<1>. DEFINE part == task[r][j].part
<1>1. PICK t \in Task : t.step = "log" /\ t.part = part /\ Works(r, j, t)
  BY WriteType
<1>2. \A q \in Runs, i \in Jobs : task'[q][i] = IF q = r /\ i = j THEN t ELSE task[q][i]
  BY <1>1, WorksType, TaskFields
<1>3. /\ bronze' = bronze \cup {<<j, part>>} /\ row' = row
      /\ \/ invalidated' = invalidated
         \/ /\ invalidated' = invalidated \ {j}
            /\ \A p \in Parts(j) : <<j, p>> \in bronze'
  BY DEF WriteBronze
<1>4. \A i \in Jobs : \A p \in Parts(i) : Kept(i, p) => Kept(i, p)'
  BY <1>3 DEF Kept
<1>5. DoneHasBronze'
  BY <1>3, <1>4, DoneKept, DoneKeptNext DEF CollectInv
<1>6. Behind(r, j)'
  <2>1. task'[r][j] = t
    BY <1>2
  <2>3. <<j, part>> \in bronze'
    BY <1>3
  <2>2. \A p \in Parts(j) : p < part => Kept(j, p)'
    BY <1>4 DEF CollectInv, Behind, WriteBronze
  <2>. QED
    BY <1>1, <2>1, <2>2, <2>3 DEF Behind, Kept, Parts
<1>7. ASSUME NEW q \in Runs, NEW i \in Jobs PROVE Behind(q, i)'
  <2>1. StaysKept(i)
    BY <1>4 DEF StaysKept
  <2>. QED
    BY <1>2, <1>6, <2>1, BehindKept
<1>. QED
  BY <1>5, <1>7 DEF CollectInv

(* The steps that take tasks away or put new ones in their place.            *)
LEMMA CollectTasks ==
  ASSUME TypeOK, CollectInv, bronze' = bronze, invalidated' = invalidated,
         \A i \in Jobs : row'[i].status = "DONE" =>
                           row[i].status = "DONE" \/ \A p \in Parts(i) : Kept(i, p),
         \A q \in Runs, i \in Jobs :
           \/ task'[q][i] = task[q][i]
           \/ task'[q][i].step = "none"
           \/ task'[q][i].step = "queued" /\ task'[q][i].part = 1
  PROVE  CollectInv'
<1>1. \A i \in Jobs : \A p \in Parts(i) : Kept(i, p)' <=> Kept(i, p)
  BY DEF Kept
<1>2. DoneHasBronze'
  BY <1>1, DoneKept, DoneKeptNext DEF CollectInv
<1>3. ASSUME NEW q \in Runs, NEW i \in Jobs PROVE Behind(q, i)'
  <2>1. CASE task'[q][i] = task[q][i]
    <3>1. StaysKept(i)
      BY <1>1 DEF StaysKept
    <3>. QED
      BY <2>1, <3>1, BehindKept
  <2>2. CASE task'[q][i].step = "none"
    BY <2>2 DEF Behind
  <2>3. CASE task'[q][i].step = "queued" /\ task'[q][i].part = 1
    <3>1. \A p \in Parts(i) : ~(p < 1)
      BY DEF Parts
    <3>. QED
      BY <2>3, <3>1 DEF Behind, Parts
  <2>. QED
    BY <2>1, <2>2, <2>3
<1>. QED
  BY <1>2, <1>3 DEF CollectInv

LEMMA CollectFinish ==
  ASSUME TypeOK, CollectInv, NEW r \in Runs, NEW j \in Jobs, FinishJob(r, j)
  PROVE  CollectInv'
<1>1. NoTask \in Task /\ NoTask.part \in Parts(j) /\ NoTask.step = "none"
  BY DEF NoTask, Task, Step, Outcome, Parts
<1>2. \A q \in Runs, i \in Jobs :
        task'[q][i] = IF q = r /\ i = j THEN NoTask ELSE task[q][i]
  BY <1>1, FinishType, WorksType
<1>3. bronze' = bronze /\ invalidated' = invalidated
  BY DEF FinishJob
<1>4. \A i \in Jobs : row'[i].status = "DONE" =>
                        row[i].status = "DONE" \/ \A p \in Parts(i) : Kept(i, p)
  <2>1. task[r][j].outcome = "done" => \A p \in Parts(j) : Kept(j, p)
    BY DEF CollectInv, Behind, FinishJob
  <2>2. row'[j].status = "DONE" => task[r][j].outcome = "done" \/ row[j].status = "DONE"
    BY FinishedRow, RowFields, TaskFields DEF FinishJob, TypeOK
  <2>3. \A i \in Jobs \ {j} : row'[i] = row[i]
    BY DEF FinishJob, TypeOK
  <2>. QED
    BY <2>1, <2>2, <2>3
<1>. QED
  BY <1>1, <1>2, <1>3, <1>4, CollectTasks

LEMMA CollectDrop ==
  ASSUME TypeOK, CollectInv, NEW r \in Runs, NEW S, Drop(r, S)
  PROVE  CollectInv'
<1>1. row' = row /\ bronze' = bronze /\ invalidated' = invalidated
  BY DEF Drop, queue
<1>. QED
  BY <1>1, DropTasks, CollectTasks DEF NoTask

LEMMA CollectClaim ==
  ASSUME TypeOK, CollectInv, NEW r \in Runs, ClaimPendingJobs(r)
  PROVE  CollectInv'
<1>1. PICK S \in SUBSET Jobs : Claims(r, S)
  BY ClaimTasks
<1>2. bronze' = bronze /\ invalidated' = invalidated
  BY DEF ClaimPendingJobs, history
<1>3. \A i \in Jobs : row'[i].status = "DONE" => row[i].status = "DONE"
  <2>1. \A i \in S : row'[i].status = "RUNNING"
    BY <1>1, RowFields DEF Claims, Row
  <2>. QED
    BY <1>1, <2>1 DEF Claims
<1>4. \A q \in Runs, i \in Jobs :
        \/ task'[q][i] = task[q][i]
        \/ task'[q][i].step = "none"
        \/ task'[q][i].step = "queued" /\ task'[q][i].part = 1
  BY <1>1 DEF Claims, NoTask
<1>. QED
  BY <1>2, <1>3, <1>4, CollectTasks

LEMMA CollectQueue ==
  ASSUME TypeOK, CollectInv, QueueStep
  PROVE  CollectInv'
<1>1. bronze' = bronze /\ invalidated' = invalidated /\ task' = task
  BY DEF QueueStep, Enqueue, DelayEnds, RequeueTransportFailedJobs, RequeueQuotaFailedJobs,
         workers, history
<1>2. \A i \in Jobs : row'[i].status = "DONE" => row[i].status = "DONE"
  <2>1. ASSUME NEW j \in Jobs, Enqueue(j)
        PROVE  \A i \in Jobs : row'[i].status = "DONE" => row[i].status = "DONE"
    BY <2>1, RowFields DEF Enqueue, TypeOK, Row
  <2>2. ASSUME NEW j \in Jobs, DelayEnds(j)
        PROVE  \A i \in Jobs : row'[i].status = "DONE" => row[i].status = "DONE"
    <3>1. row \in [Jobs -> Row] /\ row' = [row EXCEPT ![j] = [row[j] EXCEPT !.delayed = FALSE]]
      BY <2>2 DEF DelayEnds, TypeOK
    <3>2. [row[j] EXCEPT !.delayed = FALSE].status = row[j].status
      BY RowFields DEF Row
    <3>. QED
      BY <3>1, <3>2
  <2>3. CASE RequeueTransportFailedJobs
    BY <2>3, RequeuedRow DEF RequeueTransportFailedJobs
  <2>4. CASE RequeueQuotaFailedJobs
    BY <2>4, RequeuedRow DEF RequeueQuotaFailedJobs
  <2>. QED
    BY <2>1, <2>2, <2>3, <2>4 DEF QueueStep
<1>. QED
  BY <1>1, <1>2, CollectTasks

(* Deleting files, queueing a job again: what is kept may only be lost for a  *)
(* job that no run has and that is not DONE.                                 *)
LEMMA CollectReset ==
  ASSUME TypeOK, CollectInv, task' = task, \A i \in Jobs : StaysKept(i),
         \A i \in Jobs : row'[i].status = "DONE" => row[i].status = "DONE"
  PROVE  CollectInv'
<1>1. DoneHasBronze'
  BY DoneKept, DoneKeptNext DEF CollectInv, StaysKept
<1>2. \A r \in Runs, i \in Jobs : Behind(r, i)'
  BY BehindKept
<1>. QED
  BY <1>1, <1>2 DEF CollectInv

LEMMA CollectRecollect ==
  ASSUME TypeOK, CollectInv, RecollectStep
  PROVE  CollectInv'
<1>. DEFINE j == recollect.job
<1>1. CASE \/ \E i \in Jobs, b \in ResetRunning : BeginRecollect(i, b)
           \/ LookupJob \/ RecollectDies
  <2>1. bronze' = bronze /\ invalidated' = invalidated /\ task' = task /\ row' = row
    BY <1>1 DEF BeginRecollect, LookupJob, RecollectDies, queue, workers, history
  <2>. QED
    BY <2>1, CollectTasks
<1>2. CASE DeleteArtifact
  <2>1. /\ task' = task /\ row' = row /\ j \in Jobs
        /\ bronze' = bronze \ {<<j, recollect.part>>} /\ invalidated' = invalidated \cup {j}
    BY <1>2 DEF DeleteArtifact, workers, TypeOK
  <2>2. \A i \in Jobs : StaysKept(i)
    BY <2>1 DEF StaysKept, Kept
  <2>. QED
    BY <2>1, <2>2, CollectReset
<1>3. CASE ResetOrEnqueueJob
  <2>1. task' = task /\ bronze' = bronze /\ j \in Jobs
    BY <1>3 DEF ResetOrEnqueueJob, workers, TypeOK
  <2>2. CASE row' = row /\ invalidated' = invalidated
    BY <2>1, <2>2, CollectTasks
  <2>3. CASE row' = [row EXCEPT ![j] = Requeued(j)] /\ invalidated' = Freed(j)
    <3>1. row'[j].status = "PENDING" /\ \A i \in Jobs \ {j} : row'[i] = row[i]
      BY <2>1, <2>3, RequeuedRow DEF TypeOK
    <3>2. \A i \in Jobs : Holders(i)' = Holders(i)
      BY <2>1, SameTasks
    <3>3. \A i \in Jobs : StaysKept(i)
      BY <2>1, <2>3, <3>1, <3>2 DEF StaysKept, Kept, Freed
    <3>. QED
      BY <2>1, <3>1, <3>3, CollectReset
  <2>. QED
    BY <1>3, <2>2, <2>3 DEF ResetOrEnqueueJob
<1>. QED
  BY <1>1, <1>2, <1>3 DEF RecollectStep

LEMMA CollectResync ==
  ASSUME TypeOK, CollectInv, ResyncStep
  PROVE  CollectInv'
<1>. DEFINE j == resync.job
<1>1. CASE \E i \in Jobs : ResyncFindsMissing(i)
  <2>1. bronze' = bronze /\ invalidated' = invalidated /\ task' = task /\ row' = row
    BY <1>1 DEF ResyncFindsMissing, queue, workers, history
  <2>. QED
    BY <2>1, CollectTasks
<1>2. CASE ResyncLooksUp
  <2>1. bronze' = bronze /\ invalidated' = invalidated /\ task' = task
    BY <1>2 DEF ResyncLooksUp, workers, history
  <2>2. \A i \in Jobs : row'[i].status = "DONE" => row[i].status = "DONE"
    BY <1>2, RowFields DEF ResyncLooksUp, TypeOK, Row
  <2>. QED
    BY <2>1, <2>2, CollectTasks
<1>3. CASE ResyncResets
  <2>1. task' = task /\ bronze' = bronze /\ j \in Jobs
    BY <1>3 DEF ResyncResets, workers, TypeOK
  <2>2. CASE row' = row /\ invalidated' = invalidated
    BY <2>1, <2>2, CollectTasks
  <2>3. CASE /\ row' = [row EXCEPT ![j] = [Requeued(j) EXCEPT !.retry = 0]]
             /\ invalidated' = Freed(j)
    <3>1. row'[j].status = "PENDING" /\ \A i \in Jobs \ {j} : row'[i] = row[i]
      BY <2>1, <2>3, RequeuedRow DEF TypeOK
    <3>2. \A i \in Jobs : Holders(i)' = Holders(i)
      BY <2>1, SameTasks
    <3>3. \A i \in Jobs : StaysKept(i)
      BY <2>1, <2>3, <3>1, <3>2 DEF StaysKept, Kept, Freed
    <3>. QED
      BY <2>1, <3>1, <3>3, CollectReset
  <2>. QED
    BY <1>3, <2>2, <2>3 DEF ResyncResets
<1>. QED
  BY <1>1, <1>2, <1>3 DEF ResyncStep

LEMMA CollectStep == TypeOK /\ CollectInv /\ [Next]_vars => CollectInv'
<1>. SUFFICES ASSUME TypeOK, CollectInv, [Next]_vars PROVE CollectInv'
  OBVIOUS
<1>1. ASSUME NEW r \in Runs, Crash(r) \/ \E j \in Jobs : FinishFails(r, j)
      PROVE  CollectInv'
  BY <1>1, Drops, CollectDrop
<1>2. ASSUME NEW r \in Runs, NEW j \in Jobs,
             Local(r, j) \/ WriteBronze(r, j) \/ FinishJob(r, j)
      PROVE  CollectInv'
  BY <1>2, CollectLocal, CollectWrite, CollectFinish
<1>3. CASE UNCHANGED vars
  BY <1>3, CollectTasks DEF vars, queue, workers, history
<1>. QED
  BY <1>1, <1>2, <1>3, StepKinds, CollectClaim, CollectQueue, CollectRecollect, CollectResync

(* DONE means that every file of the job is in Bronze, for any order of        *)
(* crashes, failures between two files, requeues and resets, except for jobs *)
(* whose files were deleted under a run or without queueing them again.      *)
THEOREM DoneCorrect == Spec => []DoneHasBronze
<1>1. Init => CollectInv
  BY DEF Init, CollectInv, DoneHasBronze, Behind, NoTask
<1>2. CollectInv => DoneHasBronze
  BY DEF CollectInv
<1>. QED
  BY <1>1, <1>2, InitType, TypeStep, CollectStep, PTL DEF Spec

(* Retries end ------------------------------------------------------------- *)

(* The runs that have j and may still reschedule it, and the operator resets  *)
(* of j that are through with it.                                            *)
Stale(j) == {q \in Holders(j) : task[q][j].retry < MaxTransportRetry}
Resets(j) == manual[j] - (IF recollect.step # "none" /\ recollect.job = j THEN 1 ELSE 0)

(* Every run that has a job beyond the first was let in by a reset.  Past the  *)
(* limit each run may fail once, one that may still reschedule lets in one    *)
(* failure more, and so does a row that waits to be claimed.                 *)
Bounded(runs, stale, status, retry, resets) ==
  /\ runs + (IF status = "RUNNING" THEN 0 ELSE 1) <= 1 + resets
  /\ retry >= MaxTransportRetry =>
       retry + runs + stale + (IF status \in {"PENDING", "absent"} THEN 1 ELSE 0)
         <= MaxTransportRetry + 1 + 2 * resets

BoundedJob(j) ==
  Bounded(Cardinality(Holders(j)), Cardinality(Stale(j)), row[j].status, row[j].retry,
          Resets(j))

RetryInv == \A j \in Jobs : BoundedJob(j)

(* Bounded under what the steps do to a row.                                 *)
LEMMA BoundedLeave ==
  ASSUME NEW runs \in Nat \ {0}, NEW stale \in Nat, NEW resets \in Int, NEW d \in {0, 1},
         NEW old \in Row, Bounded(runs, stale, old.status, old.retry, resets),
         d <= stale, stale - d <= runs - 1
  PROVE  /\ Bounded(runs - 1, stale - d, old.status, old.retry, resets)
         /\ \A new \in Row, n \in Nat :
              (/\ RetryMoves(old, new, n) /\ (d = 1 <=> n < MaxTransportRetry)
               /\ new.status # "RUNNING" /\ (new.status = "absent" => new = old)) =>
              Bounded(runs - 1, stale - d, new.status, new.retry, resets)
<1>1. old.retry \in Nat /\ MaxTransportRetry \in Nat
  BY JobsAssumption DEF Row
<1>2. Bounded(runs - 1, stale - d, old.status, old.retry, resets)
  BY <1>1 DEF Bounded
<1>3. ASSUME NEW new \in Row, NEW n \in Nat, RetryMoves(old, new, n),
             d = 1 <=> n < MaxTransportRetry,
             new.status # "RUNNING", new.status = "absent" => new = old
      PROVE  Bounded(runs - 1, stale - d, new.status, new.retry, resets)
  <2>1. new.retry \in Nat
    BY DEF Row
  <2>2. CASE new = old
    BY <1>2, <2>2
  <2>3. CASE new.retry = old.retry /\ new.status # "absent"
    BY <1>1, <1>3, <2>1, <2>3 DEF Bounded, RetryMoves
  <2>4. CASE new.retry = old.retry + 1 /\ new.status = "FAILED"
    BY <1>1, <2>1, <2>4 DEF Bounded
  <2>5. CASE /\ new.retry = old.retry + 1 /\ new.status = "PENDING"
             /\ old.status = "RUNNING" /\ n < MaxTransportRetry
    BY <1>1, <1>3, <2>1, <2>5 DEF Bounded
  <2>. QED
    BY <1>3, <2>3, <2>4, <2>5, <2>2 DEF RetryMoves
<1>. QED
  BY <1>2, <1>3

LEMMA BoundedMoves ==
  ASSUME NEW runs \in Nat, NEW stale \in Nat, stale <= runs, NEW retry \in Nat,
         NEW resets \in Int, NEW status \in Status,
         Bounded(runs, stale, status, retry, resets)
  PROVE  /\ \A more \in Int : more >= resets => Bounded(runs, stale, status, retry, more)
         /\ \A more \in Int : more >= resets + 1 =>
              Bounded(runs, stale, "PENDING", retry, more)
         /\ status \in {"absent", "FAILED"} /\ (status = "FAILED" => retry < MaxTransportRetry) =>
              Bounded(runs, stale, "PENDING", retry, resets)
         /\ status # "RUNNING" => Bounded(runs, stale, "PENDING", 0, resets)
         /\ status = "PENDING" =>
              Bounded(runs + 1, IF retry < MaxTransportRetry THEN stale + 1 ELSE stale,
                      "RUNNING", retry, resets)
<1>. MaxTransportRetry \in Nat
  BY JobsAssumption
<1>1. \A more \in Int : more >= resets => Bounded(runs, stale, status, retry, more)
  BY DEF Bounded
<1>2. \A more \in Int : more >= resets + 1 => Bounded(runs, stale, "PENDING", retry, more)
  BY DEF Bounded
<1>3. status \in {"absent", "FAILED"} /\ (status = "FAILED" => retry < MaxTransportRetry) =>
        Bounded(runs, stale, "PENDING", retry, resets)
  BY DEF Bounded
<1>4. status # "RUNNING" => Bounded(runs, stale, "PENDING", 0, resets)
  BY DEF Bounded
<1>5. status = "PENDING" =>
        Bounded(runs + 1, IF retry < MaxTransportRetry THEN stale + 1 ELSE stale,
                "RUNNING", retry, resets)
  BY DEF Bounded
<1>. QED
  BY <1>1, <1>2, <1>3, <1>4, <1>5

(* How many runs a job has.                                                  *)
LEMMA RunCounts ==
  ASSUME NEW j \in Jobs
  PROVE  /\ IsFiniteSet(Holders(j)) /\ IsFiniteSet(Stale(j))
         /\ Cardinality(Holders(j)) \in Nat /\ Cardinality(Stale(j)) \in Nat
         /\ Cardinality(Stale(j)) <= Cardinality(Holders(j))
<1>1. Holders(j) \subseteq Runs /\ Stale(j) \subseteq Holders(j)
  BY DEF Holders, Stale
<1>2. IsFiniteSet(Holders(j))
  BY <1>1, JobsAssumption, FS_Subset
<1>. QED
  BY <1>1, <1>2, FS_Subset, FS_CardinalityType

LEMMA LeaveCounts ==
  ASSUME NEW j \in Jobs, NEW r \in Holders(j),
         Holders(j)' = Holders(j) \ {r}, Stale(j)' = Stale(j) \ {r}
  PROVE  LET d == IF r \in Stale(j) THEN 1 ELSE 0 IN
         /\ Cardinality(Holders(j)) \in Nat \ {0}
         /\ Cardinality(Holders(j)') = Cardinality(Holders(j)) - 1
         /\ Cardinality(Stale(j)') = Cardinality(Stale(j)) - d
         /\ d <= Cardinality(Stale(j))
         /\ Cardinality(Stale(j)) - d <= Cardinality(Holders(j)) - 1
<1>1. Cardinality(Holders(j)) \in Nat \ {0}
  BY RunCounts, FS_EmptySet
<1>2. Cardinality(Holders(j)') = Cardinality(Holders(j)) - 1
  BY RunCounts, FS_RemoveElement
<1>3. CASE r \in Stale(j)
  <2>1. Cardinality(Stale(j)') = Cardinality(Stale(j)) - 1
    BY <1>3, RunCounts, FS_RemoveElement
  <2>2. Cardinality(Stale(j)) # 0
    BY <1>3, RunCounts, FS_EmptySet
  <2>. QED
    BY <1>1, <1>2, <1>3, <2>1, <2>2, RunCounts
<1>4. CASE r \notin Stale(j)
  <2>1. Stale(j)' = Stale(j)
    BY <1>4
  <2>2. Stale(j) \subseteq Holders(j) \ {r}
    BY <1>4 DEF Stale
  <2>3. Cardinality(Stale(j)) <= Cardinality(Holders(j) \ {r})
    BY <2>2, RunCounts, FS_Subset, FS_RemoveElement
  <2>. QED
    BY <1>1, <1>2, <1>4, <2>1, <2>3, RunCounts
<1>. QED
  BY <1>3, <1>4

(* A step that leaves the runs of j alone: its row and its resets decide.    *)
SameRuns(j) == Holders(j)' = Holders(j) /\ Stale(j)' = Stale(j)

LEMMA TasksSameRuns ==
  ASSUME NEW j \in Jobs,
         \A q \in Runs : /\ task'[q][j].step # "none" <=> task[q][j].step # "none"
                         /\ task'[q][j].retry = task[q][j].retry
  PROVE  SameRuns(j)
BY DEF SameRuns, Holders, Stale

LEMMA ResetsInt ==
  ASSUME TypeOK, NEW j \in Jobs
  PROVE  Resets(j) \in Int
BY DEF TypeOK, Resets

LEMMA BoundedSame ==
  ASSUME TypeOK, NEW j \in Jobs, BoundedJob(j), SameRuns(j),
         row'[j].status = row[j].status, row'[j].retry = row[j].retry,
         Resets(j)' \in Int, Resets(j)' >= Resets(j)
  PROVE  BoundedJob(j)'
<1>1. Bounded(Cardinality(Holders(j)), Cardinality(Stale(j)), row[j].status, row[j].retry,
              Resets(j)')
  BY RunCounts, ResetsInt, RowFields, BoundedMoves DEF BoundedJob
<1>. QED
  BY <1>1 DEF BoundedJob, SameRuns, Bounded

LEMMA BoundedQueued ==
  ASSUME TypeOK, NEW j \in Jobs, BoundedJob(j), SameRuns(j), row'[j].status = "PENDING",
         Resets(j)' \in Int,
         \/ row'[j].retry = row[j].retry /\ Resets(j)' >= Resets(j) + 1
         \/ /\ row'[j].retry = row[j].retry /\ Resets(j)' = Resets(j)
            /\ \/ row[j].status = "absent"
               \/ row[j].status = "FAILED" /\ row[j].retry < MaxTransportRetry
         \/ row'[j].retry = 0 /\ Resets(j)' = Resets(j) /\ row[j].status # "RUNNING"
  PROVE  BoundedJob(j)'
<1>1. Bounded(Cardinality(Holders(j)), Cardinality(Stale(j)), "PENDING", row'[j].retry,
              Resets(j)')
  BY RunCounts, ResetsInt, RowFields, BoundedMoves DEF BoundedJob
<1>. QED
  BY <1>1 DEF BoundedJob, SameRuns, Bounded

LEMMA RetryWork ==
  ASSUME TypeOK, RetryInv, NEW r \in Runs, NEW j \in Jobs, Local(r, j) \/ WriteBronze(r, j)
  PROVE  RetryInv'
<1>1. row' = row /\ manual' = manual /\ recollect' = recollect
  BY DEF Local, StartJob, SkipJob, CheckBronze, ApiAnswers, ApiLimited, JobFails, LogRequest,
         WriteBronze, queue, operators, history
<1>2. ASSUME NEW i \in Jobs PROVE SameRuns(i)
  <2>1. CASE Local(r, j)
    <3>1. PICK t \in Task : Goes(j, task[r][j], t) /\ Works(r, j, t)
      BY <2>1, LocalGoes
    <3>2. \A q \in Runs : task'[q][i] = IF q = r /\ i = j THEN t ELSE task[q][i]
      BY <3>1, WorksType DEF Goes
    <3>. QED
      BY <3>1, <3>2, TasksSameRuns DEF Goes
  <2>2. CASE WriteBronze(r, j)
    <3>1. PICK t \in Task : /\ t.step = "log" /\ t.part = task[r][j].part
                            /\ t.retry = task[r][j].retry
                            /\ Works(r, j, t)
      BY <2>2, WriteType
    <3>2. \A q \in Runs : task'[q][i] = IF q = r /\ i = j THEN t ELSE task[q][i]
      BY <3>1, WorksType, TaskFields
    <3>3. task[r][j].step # "none"
      BY <2>2 DEF WriteBronze
    <3>. QED
      BY <3>1, <3>2, <3>3, TasksSameRuns
  <2>. QED
    BY <2>1, <2>2
<1>3. ASSUME NEW i \in Jobs PROVE BoundedJob(i)'
  <2>1. Resets(i)' = Resets(i)
    BY <1>1 DEF Resets
  <2>. QED
    BY <1>1, <1>2, <2>1, ResetsInt, BoundedSame DEF RetryInv
<1>. QED
  BY <1>3 DEF RetryInv

(* What a run that lets go of a job leaves of its counts.                    *)
LEMMA GoneRuns ==
  ASSUME TypeOK, NEW r \in Runs, NEW S, NEW i \in Jobs,
         \A q \in Runs : task'[q][i] = IF q = r /\ i \in S THEN NoTask ELSE task[q][i]
  PROVE  /\ i \notin S => SameRuns(i)
         /\ i \in S => Holders(i)' = Holders(i) \ {r} /\ Stale(i)' = Stale(i) \ {r}
<1>1. CASE i \notin S
  BY <1>1, TasksSameRuns
<1>2. CASE i \in S
  BY <1>2 DEF Holders, Stale, NoTask
<1>. QED
  BY <1>1, <1>2

LEMMA RetryFinish ==
  ASSUME TypeOK, RetryInv, NEW r \in Runs, NEW j \in Jobs, FinishJob(r, j)
  PROVE  RetryInv'
<1>. DEFINE n == task[r][j].retry
            new == Finished(row[j], task[r][j].outcome, n)
<1>1. NoTask \in Task /\ NoTask.part \in Parts(j)
  BY DEF NoTask, Task, Step, Outcome, Parts
<1>2. \A q \in Runs, i \in Jobs :
        task'[q][i] = IF q = r /\ i \in {j} THEN NoTask ELSE task[q][i]
  BY <1>1, FinishType, WorksType
<1>3. row' = [row EXCEPT ![j] = new] /\ manual' = manual /\ recollect' = recollect
  BY DEF FinishJob, operators
<1>4. ASSUME NEW i \in Jobs PROVE Resets(i)' = Resets(i)
  BY <1>3 DEF Resets
<1>5. ASSUME NEW i \in Jobs \ {j} PROVE BoundedJob(i)'
  <2>1. row'[i] = row[i]
    BY <1>3 DEF TypeOK
  <2>2. SameRuns(i)
    BY <1>2, GoneRuns
  <2>. QED
    BY <1>4, <2>1, <2>2, ResetsInt, BoundedSame DEF RetryInv
<1>6. BoundedJob(j)'
  <2>. DEFINE d == IF r \in Stale(j) THEN 1 ELSE 0
  <2>1. r \in Holders(j)
    BY DEF FinishJob, Holders
  <2>2. Holders(j)' = Holders(j) \ {r} /\ Stale(j)' = Stale(j) \ {r}
    BY <1>2, GoneRuns
  <2>3. /\ new \in Row /\ RetryMoves(row[j], new, n) /\ n \in Nat
        /\ new.status # "RUNNING" /\ (new.status = "absent" => new = row[j])
    BY FinishedRow, RowFields, TaskFields
  <2>4. d \in {0, 1} /\ (d = 1 <=> n < MaxTransportRetry)
    BY <2>1 DEF Stale
  <2>5. Bounded(Cardinality(Holders(j)) - 1, Cardinality(Stale(j)) - d, new.status,
                new.retry, Resets(j))
    <3>. HIDE DEF new, n, d
    <3>. QED
      BY <2>1, <2>2, <2>3, <2>4, LeaveCounts, BoundedLeave, RowFields, ResetsInt, RunCounts
      DEF RetryInv, BoundedJob, d
  <2>6. row'[j] = new
    BY <1>3 DEF TypeOK
  <2>7. /\ Cardinality(Holders(j)') = Cardinality(Holders(j)) - 1
        /\ Cardinality(Stale(j)') = Cardinality(Stale(j)) - d
    BY <2>1, <2>2, LeaveCounts
  <2>. QED
    BY <1>4, <2>5, <2>6, <2>7 DEF BoundedJob, Bounded
<1>. QED
  BY <1>5, <1>6 DEF RetryInv

LEMMA RetryDrop ==
  ASSUME TypeOK, RetryInv, NEW r \in Runs, NEW S \in SUBSET Held(r), Drop(r, S)
  PROVE  RetryInv'
<1>1. row' = row /\ manual' = manual /\ recollect' = recollect
  BY DEF Drop, queue, operators
<1>2. ASSUME NEW i \in Jobs PROVE BoundedJob(i)'
  <2>1. Resets(i)' = Resets(i)
    BY <1>1 DEF Resets
  <2>2. CASE i \notin S
    <3>1. SameRuns(i)
      BY <2>2, DropTasks, GoneRuns
    <3>. QED
      BY <1>1, <2>1, <3>1, ResetsInt, BoundedSame DEF RetryInv
  <2>3. CASE i \in S
    <3>. DEFINE d == IF r \in Stale(i) THEN 1 ELSE 0
    <3>1. r \in Holders(i)
      BY <2>3 DEF Held, Holders
    <3>2. Holders(i)' = Holders(i) \ {r} /\ Stale(i)' = Stale(i) \ {r}
      BY <2>3, DropTasks, GoneRuns
    <3>3. Bounded(Cardinality(Holders(i)) - 1, Cardinality(Stale(i)) - d, row[i].status,
                  row[i].retry, Resets(i))
      <4>1. d \in {0, 1}
        OBVIOUS
      <4>. HIDE DEF d
      <4>. QED
        BY <3>1, <3>2, <4>1, LeaveCounts, BoundedLeave, RowFields, ResetsInt, RunCounts
        DEF RetryInv, BoundedJob, d
    <3>4. /\ Cardinality(Holders(i)') = Cardinality(Holders(i)) - 1
          /\ Cardinality(Stale(i)') = Cardinality(Stale(i)) - d
      BY <3>1, <3>2, LeaveCounts
    <3>. QED
      BY <1>1, <2>1, <3>3, <3>4 DEF BoundedJob, Bounded
  <2>. QED
    BY <2>2, <2>3
<1>. QED
  BY <1>2 DEF RetryInv

LEMMA RetryClaim ==
  ASSUME TypeOK, RetryInv, NEW r \in Runs, ClaimPendingJobs(r)
  PROVE  RetryInv'
<1>1. PICK S \in SUBSET Jobs : Claims(r, S)
  BY ClaimTasks
<1>2. manual' = manual /\ recollect' = recollect
  BY DEF ClaimPendingJobs, operators, history
<1>3. ASSUME NEW i \in Jobs PROVE BoundedJob(i)'
  <2>1. Resets(i)' = Resets(i)
    BY <1>2 DEF Resets
  <2>2. r \notin Holders(i) /\ r \notin Stale(i)
    BY <1>1 DEF Claims, Held, Holders, Stale
  <2>3. CASE i \notin S
    <3>1. SameRuns(i)
      BY <1>1, <2>2, <2>3 DEF Claims, SameRuns, Holders, Stale, NoTask
    <3>2. row'[i] = row[i]
      BY <1>1, <2>3 DEF Claims
    <3>. QED
      BY <2>1, <3>1, <3>2, ResetsInt, BoundedSame DEF RetryInv
  <2>4. CASE i \in S
    <3>1. Holders(i)' = Holders(i) \cup {r}
      BY <1>1, <2>2, <2>4 DEF Claims, Holders
    <3>2. Stale(i)' = IF row[i].retry < MaxTransportRetry THEN Stale(i) \cup {r} ELSE Stale(i)
      BY <1>1, <2>2, <2>4 DEF Claims, Holders, Stale
    <3>3. /\ Cardinality(Holders(i)') = Cardinality(Holders(i)) + 1
          /\ Cardinality(Stale(i)') = IF row[i].retry < MaxTransportRetry
                                      THEN Cardinality(Stale(i)) + 1 ELSE Cardinality(Stale(i))
      BY <2>2, <3>1, <3>2, RunCounts, FS_AddElement
    <3>4. row'[i].status = "RUNNING" /\ row'[i].retry = row[i].retry
      BY <1>1, <2>4, RowFields DEF Claims, Row
    <3>5. Bounded(Cardinality(Holders(i)) + 1,
                  IF row[i].retry < MaxTransportRetry
                  THEN Cardinality(Stale(i)) + 1 ELSE Cardinality(Stale(i)),
                  "RUNNING", row[i].retry, Resets(i))
      <4>1. row[i].status = "PENDING"
        BY <1>1, <2>4 DEF Claims, Ready
      <4>. QED
        BY <4>1, BoundedMoves, RunCounts, RowFields, ResetsInt DEF RetryInv, BoundedJob
    <3>. QED
      BY <2>1, <3>3, <3>4, <3>5 DEF BoundedJob, Bounded
  <2>. QED
    BY <2>3, <2>4
<1>. QED
  BY <1>3 DEF RetryInv

LEMMA TasksAlone ==
  ASSUME task' = task, NEW j \in Jobs
  PROVE  SameRuns(j)
BY DEF SameRuns, Holders, Stale

LEMMA RetryQueue ==
  ASSUME TypeOK, RetryInv, QueueStep
  PROVE  RetryInv'
<1>1. task' = task /\ recollect' = recollect
  BY DEF QueueStep, Enqueue, DelayEnds, RequeueTransportFailedJobs, RequeueQuotaFailedJobs,
         workers, operators
<1>2. row \in [Jobs -> Row] /\ manual \in [Jobs -> Nat]
  BY DEF TypeOK
<1>. SUFFICES ASSUME NEW i \in Jobs PROVE BoundedJob(i)'
  BY DEF RetryInv
<1>3. SameRuns(i) /\ BoundedJob(i) /\ Resets(i) \in Int
  BY <1>1, TasksAlone, ResetsInt DEF RetryInv
<1>4. manual' = manual => Resets(i)' = Resets(i)
  BY <1>1 DEF Resets
<1>5. ASSUME NEW j \in Jobs, Enqueue(j) PROVE BoundedJob(i)'
  <2>1. manual' = manual /\ row[j].status = "absent"
        /\ row' = [row EXCEPT ![j] = [row[j] EXCEPT !.status = "PENDING"]]
    BY <1>5 DEF Enqueue, history
  <2>2. CASE i = j
    BY <1>2, <1>3, <1>4, <2>1, <2>2, RunningRow, BoundedQueued
  <2>3. CASE i # j
    BY <1>2, <1>3, <1>4, <2>1, <2>3, BoundedSame
  <2>. QED
    BY <2>2, <2>3
<1>6. ASSUME NEW j \in Jobs, DelayEnds(j) PROVE BoundedJob(i)'
  <2>1. manual' = manual /\ row' = [row EXCEPT ![j] = [row[j] EXCEPT !.delayed = FALSE]]
    BY <1>6 DEF DelayEnds, history
  <2>2. row'[i].status = row[i].status /\ row'[i].retry = row[i].retry
    BY <1>2, <2>1, RunningRow
  <2>. QED
    BY <1>3, <1>4, <2>1, <2>2, BoundedSame
<1>7. CASE RequeueTransportFailedJobs
  <2>1. PICK failed \in SUBSET Jobs :
          /\ failed = {j \in Jobs : Requeueable(j) /\ row[j].retry < MaxTransportRetry}
          /\ row' = [j \in Jobs |-> IF j \in failed THEN Requeued(j) ELSE row[j]]
          /\ manual' = manual
    BY <1>7 DEF RequeueTransportFailedJobs, history
  <2>2. CASE i \in failed
    BY <1>3, <1>4, <2>1, <2>2, RequeuedRow, BoundedQueued DEF Requeueable
  <2>3. CASE i \notin failed
    BY <1>3, <1>4, <2>1, <2>3, BoundedSame
  <2>. QED
    BY <2>2, <2>3
<1>8. CASE RequeueQuotaFailedJobs
  <2>1. PICK failed \in SUBSET Jobs :
          /\ row' = [j \in Jobs |-> IF j \in failed THEN Requeued(j) ELSE row[j]]
          /\ manual' = [j \in Jobs |-> IF j \in failed THEN manual[j] + 1 ELSE manual[j]]
    BY <1>8 DEF RequeueQuotaFailedJobs
  <2>2. CASE i \in failed
    <3>1. Resets(i)' \in Int /\ Resets(i)' >= Resets(i) + 1
      BY <1>1, <1>2, <2>1, <2>2 DEF Resets
    <3>2. row'[i].status = "PENDING" /\ row'[i].retry = row[i].retry
      BY <2>1, <2>2, RequeuedRow
    <3>. QED
      BY <1>3, <3>1, <3>2, BoundedQueued
  <2>3. CASE i \notin failed
    <3>1. Resets(i)' = Resets(i)
      BY <1>1, <1>2, <2>1, <2>3 DEF Resets
    <3>. QED
      BY <1>3, <2>1, <2>3, <3>1, BoundedSame
  <2>. QED
    BY <2>2, <2>3
<1>. QED
  BY <1>5, <1>6, <1>7, <1>8 DEF QueueStep

(* A recollection counts as a reset of its job once it is over.              *)
LEMMA RetryRecollect ==
  ASSUME TypeOK, RetryInv, RecollectStep
  PROVE  RetryInv'
<1>1. task' = task
  BY DEF RecollectStep, BeginRecollect, DeleteArtifact, LookupJob, ResetOrEnqueueJob,
         RecollectDies, workers
<1>2. row \in [Jobs -> Row] /\ manual \in [Jobs -> Nat]
  BY DEF TypeOK
<1>. SUFFICES ASSUME NEW i \in Jobs PROVE BoundedJob(i)'
  BY DEF RetryInv
<1>3. SameRuns(i) /\ BoundedJob(i) /\ Resets(i) \in Int
  BY <1>1, TasksAlone, ResetsInt DEF RetryInv
<1>4. ASSUME NEW j \in Jobs, NEW b \in ResetRunning, BeginRecollect(j, b)
      PROVE  BoundedJob(i)'
  <2>1. /\ recollect.step = "none" /\ row' = row
        /\ recollect'.step = "delete" /\ recollect'.job = j
        /\ manual' = [manual EXCEPT ![j] = manual[j] + 1]
    BY <1>4 DEF BeginRecollect, NoRecollect, queue
  <2>2. Resets(i)' = Resets(i)
    BY <1>2, <2>1 DEF Resets
  <2>. QED
    BY <1>3, <2>1, <2>2, BoundedSame
<1>5. ASSUME row' = row, manual' = manual,
             \/ recollect' = NoRecollect
             \/ recollect'.job = recollect.job /\ recollect.step # "none"
      PROVE  BoundedJob(i)'
  <2>1. Resets(i)' \in Int /\ Resets(i)' >= Resets(i)
    BY <1>2, <1>5 DEF Resets, NoRecollect
  <2>. QED
    BY <1>3, <1>5, <2>1, BoundedSame
<1>6. CASE DeleteArtifact
  BY <1>5, <1>6 DEF DeleteArtifact, TypeOK
<1>7. CASE LookupJob
  BY <1>5, <1>7 DEF LookupJob, queue, history, TypeOK
<1>8. CASE RecollectDies
  BY <1>5, <1>8 DEF RecollectDies, queue, history
<1>9. CASE ResetOrEnqueueJob
  <2>. DEFINE j == recollect.job
  <2>1. /\ j \in Jobs /\ recollect.step = "reset" /\ recollect' = NoRecollect
        /\ manual' = manual
    BY <1>9 DEF ResetOrEnqueueJob, TypeOK
  <2>2. CASE row' = row
    BY <1>5, <2>1, <2>2
  <2>3. CASE row' = [row EXCEPT ![j] = Requeued(j)]
    <3>1. CASE i = j
      <4>1. Resets(i)' \in Int /\ Resets(i)' >= Resets(i) + 1
        BY <1>2, <2>1, <3>1 DEF Resets, NoRecollect
      <4>2. row'[i].status = "PENDING" /\ row'[i].retry = row[i].retry
        BY <1>2, <2>3, <3>1, RequeuedRow
      <4>. QED
        BY <1>3, <4>1, <4>2, BoundedQueued
    <3>2. CASE i # j
      <4>1. Resets(i)' = Resets(i) /\ row'[i] = row[i]
        BY <1>2, <2>1, <2>3, <3>2 DEF Resets, NoRecollect
      <4>. QED
        BY <1>3, <4>1, BoundedSame
    <3>. QED
      BY <3>1, <3>2
  <2>. QED
    BY <1>9, <2>2, <2>3 DEF ResetOrEnqueueJob
<1>. QED
  BY <1>4, <1>6, <1>7, <1>8, <1>9 DEF RecollectStep

LEMMA RetryResync ==
  ASSUME TypeOK, RetryInv, ResyncStep
  PROVE  RetryInv'
<1>. DEFINE j == resync.job
<1>1. task' = task /\ recollect' = recollect /\ manual' = manual
  BY DEF ResyncStep, ResyncFindsMissing, ResyncLooksUp, ResyncResets, workers, history
<1>2. row \in [Jobs -> Row]
  BY DEF TypeOK
<1>. SUFFICES ASSUME NEW i \in Jobs PROVE BoundedJob(i)'
  BY DEF RetryInv
<1>3. /\ SameRuns(i) /\ BoundedJob(i) /\ Resets(i) \in Int
      /\ Resets(i)' = Resets(i)
  BY <1>1, TasksAlone, ResetsInt DEF RetryInv, Resets
<1>4. CASE row'[i] = row[i]
  BY <1>3, <1>4, BoundedSame
<1>5. CASE /\ row[j].status = "absent" /\ j \in Jobs
           /\ row' = [row EXCEPT ![j] = [row[j] EXCEPT !.status = "PENDING"]]
  BY <1>2, <1>3, <1>4, <1>5, RunningRow, BoundedQueued
<1>6. CASE /\ row[j].status # "RUNNING" /\ j \in Jobs
           /\ row' = [row EXCEPT ![j] = [Requeued(j) EXCEPT !.retry = 0]]
  BY <1>2, <1>3, <1>4, <1>6, RequeuedRow, BoundedQueued
<1>. QED
  BY <1>4, <1>5, <1>6
  DEF ResyncStep, ResyncFindsMissing, ResyncLooksUp, ResyncResets, queue, TypeOK

LEMMA RetryStep == TypeOK /\ RetryInv /\ [Next]_vars => RetryInv'
<1>. SUFFICES ASSUME TypeOK, RetryInv, [Next]_vars PROVE RetryInv'
  OBVIOUS
<1>1. ASSUME NEW r \in Runs, Crash(r) \/ \E j \in Jobs : FinishFails(r, j)
      PROVE  RetryInv'
  BY <1>1, Drops, RetryDrop
<1>2. ASSUME NEW r \in Runs, NEW j \in Jobs,
             Local(r, j) \/ WriteBronze(r, j) \/ FinishJob(r, j)
      PROVE  RetryInv'
  BY <1>2, RetryWork, RetryFinish
<1>3. CASE UNCHANGED vars
  <2>1. row' = row /\ task' = task /\ manual' = manual /\ recollect' = recollect
    BY <1>3 DEF vars, queue, workers, operators, history
  <2>. QED
    BY <2>1 DEF RetryInv, BoundedJob, Bounded, Holders, Stale, Resets
<1>. QED
  BY <1>1, <1>2, <1>3, StepKinds, RetryClaim, RetryQueue, RetryRecollect, RetryResync

LEMMA RetryInit == Init => RetryInv
<1>. SUFFICES ASSUME Init, NEW j \in Jobs PROVE BoundedJob(j)
  BY DEF RetryInv
<1>1. Holders(j) = {} /\ Stale(j) = {}
  BY DEF Init, Holders, Stale, NoTask
<1>2. row[j].status = "absent" /\ row[j].retry = 0 /\ Resets(j) = 0
  BY DEF Init, Resets, NoRecollect
<1>. QED
  BY <1>1, <1>2, FS_EmptySet, JobsAssumption DEF BoundedJob, Bounded

LEMMA RetryMeansBounded == TypeOK /\ RetryInv => RetryBounded
<1>. SUFFICES ASSUME TypeOK, RetryInv, NEW j \in Jobs
              PROVE  row[j].retry <= MaxTransportRetry + 1 + 2 * manual[j]
  BY DEF RetryBounded
<1>1. /\ row[j].retry \in Nat /\ manual[j] \in Nat /\ MaxTransportRetry \in Nat
      /\ Resets(j) \in Int /\ Resets(j) <= manual[j]
  BY RowFields, JobsAssumption DEF TypeOK, Resets
<1>2. CASE row[j].retry >= MaxTransportRetry
  BY <1>1, <1>2, RunCounts DEF RetryInv, BoundedJob, Bounded
<1>3. CASE ~(row[j].retry >= MaxTransportRetry)
  BY <1>1, <1>3
<1>. QED
  BY <1>2, <1>3

(* The retry_count of a job is bounded by the limit and the operator resets,  *)
(* however many runs overlap and whatever count each of them read.           *)
THEOREM RetryCorrect == Spec => []RetryBounded
BY InitType, TypeStep, RetryInit, RetryStep, RetryMeansBounded, PTL DEF Spec

-----------------------------------------------------------------------------
(***************************************************************************)
(* CollectJobs implements JobLifecycle, for every set of jobs and runs: each *)
(* of its steps is, under the mapping of Lifecycle, a step of the life cycle  *)
(* of the jobs or leaves it as it is.                                        *)
(***************************************************************************)

(* What the life cycle sees of a state.                                      *)
Statuses == [j \in Jobs |-> row[j].status]
Working == {j \in Jobs : Holders(j) # {}}
Complete == {j \in Jobs : Collected(j)}

Abstract == <<Statuses, Working, Complete, invalidated>>

(* When a step leaves a part of it unchanged ----------------------------- *)

LEMMA SameStatuses ==
  ASSUME \A i \in Jobs : row'[i].status = row[i].status
  PROVE  Statuses' = Statuses
BY DEF Statuses

LEMMA SameWorking ==
  ASSUME \A i \in Jobs : Holders(i)' = Holders(i)
  PROVE  Working' = Working
BY DEF Working

LEMMA SameComplete ==
  ASSUME bronze' = bronze
  PROVE  Complete' = Complete
BY DEF Complete, Collected, Parts

LEMMA Stutters ==
  ASSUME UNCHANGED Abstract
  PROVE  UNCHANGED Lifecycle!vars
BY DEF Abstract, Lifecycle!vars, Statuses, Working, Complete

(* How one status, or those of a set of jobs, changes.                       *)
Becomes(j, s) == \A i \in Jobs : row'[i].status = IF i = j THEN s ELSE row[i].status

LEMMA OneStatus ==
  ASSUME NEW j \in Jobs, NEW s, Becomes(j, s)
  PROVE  Statuses' = [Statuses EXCEPT ![j] = s]
BY DEF Statuses, Becomes

(* The runs ---------------------------------------------------------------- *)

LEMMA LocalRefines ==
  ASSUME TypeOK, NEW r \in Runs, NEW j \in Jobs, Local(r, j)
  PROVE  UNCHANGED Abstract
<1>1. \A i \in Jobs : Holders(i)' = Holders(i)
  BY LocalGoes, WorksHolders DEF Goes
<1>2. row' = row /\ bronze' = bronze /\ invalidated' = invalidated
  BY DEF Local, StartJob, SkipJob, CheckBronze, ApiAnswers, ApiLimited, JobFails, LogRequest,
         queue, history
<1>. QED
  BY <1>1, <1>2, SameStatuses, SameWorking, SameComplete DEF Abstract

(* The file completes the job, or the job stays incomplete.                   *)
LEMMA WriteRefines ==
  ASSUME TypeOK, NEW r \in Runs, NEW j \in Jobs, WriteBronze(r, j)
  PROVE  Lifecycle!Gather(j) \/ UNCHANGED Abstract
<1>1. task[r][j].step = "write"
  BY DEF WriteBronze
<1>2. \A i \in Jobs : Holders(i)' = Holders(i)
  BY <1>1, WriteType, WorksHolders, TaskFields
<1>3. j \in Working
  BY <1>1 DEF Working, Holders
<1>4. Statuses' = Statuses /\ Working' = Working
  BY <1>2, SameStatuses, SameWorking DEF WriteBronze
<1>5. bronze' = bronze \cup {<<j, task[r][j].part>>}
  BY DEF WriteBronze
<1>6. \A i \in Jobs \ {j} : Collected(i)' <=> Collected(i)
  BY <1>5 DEF Collected, Parts
<1>7. Collected(j) => Collected(j)'
  BY <1>5 DEF Collected, Parts
<1>8. Parts(j) \subseteq {p \in 1 .. 2 : <<j, p>> \in bronze'} <=> Collected(j)'
  BY DEF Collected, Parts
<1>9. CASE Collected(j)'
  <2>1. Complete' = Complete \cup {j}
    BY <1>6, <1>9 DEF Complete
  <2>2. invalidated' = invalidated \ {j}
    BY <1>8, <1>9 DEF WriteBronze
  <2>. QED
    BY <1>3, <1>4, <2>1, <2>2 DEF Lifecycle!Gather, Statuses, Working, Complete
<1>10. CASE ~Collected(j)'
  <2>1. Complete' = Complete
    BY <1>6, <1>7, <1>10 DEF Complete
  <2>2. invalidated' = invalidated
    BY <1>8, <1>10 DEF WriteBronze
  <2>. QED
    BY <1>4, <2>1, <2>2 DEF Abstract
<1>. QED
  BY <1>9, <1>10

(* A run ends a job: with its files there or withdrawn when it succeeds.      *)
LEMMA FinishRefines ==
  ASSUME TypeOK, CollectInv, NEW r \in Runs, NEW j \in Jobs, FinishJob(r, j)
  PROVE  Lifecycle!Succeed(j) \/ Lifecycle!Fail(j) \/ Lifecycle!GiveBack(j)
<1>. DEFINE how == task[r][j].outcome
            n == task[r][j].retry
<1>1. NoTask \in Task /\ NoTask.part \in Parts(j) /\ NoTask.step = "none"
  BY DEF NoTask, Task, Step, Outcome, Parts
<1>2. LetsGo(r, {j})
  BY <1>1, FinishType, WorksType DEF Holders, LetsGo
<1>3. task[r][j].step = "finish" /\ r \in Holders(j)
  BY DEF FinishJob, Holders
<1>4. j \in Working /\ Working' \in {Working, Working \ {j}}
  BY <1>2, <1>3 DEF Working, LetsGo
<1>5. Complete' = Complete /\ invalidated' = invalidated
  BY SameComplete DEF FinishJob
<1>6. row' = [row EXCEPT ![j] = Finished(row[j], how, n)]
  BY DEF FinishJob
<1>7. Becomes(j, Finished(row[j], how, n).status)
  BY <1>6 DEF Becomes, TypeOK
<1>8. row[j] \in Row /\ how \in Outcome /\ n \in Nat
  BY RowFields, TaskFields
<1>9. CASE how = "done"
  <2>1. Finished(row[j], how, n).status = "DONE"
    BY <1>8, <1>9 DEF Finished, Row
  <2>2. j \in Complete \cup invalidated
    BY <1>3, <1>9 DEF CollectInv, Behind, Kept, Complete, Collected
  <2>3. Statuses' = [Statuses EXCEPT ![j] = "DONE"]
    BY <1>7, <2>1, OneStatus
  <2>4. Lifecycle!Succeed(j)
    BY <1>4, <1>5, <2>2, <2>3
    DEF Lifecycle!Succeed, Lifecycle!Leaves, Statuses, Working, Complete
  <2>. QED
    BY <2>4
<1>10. CASE how = "reset" \/ (how = "TRANSPORT" /\ n < MaxTransportRetry)
  <2>1. Finished(row[j], how, n).status
          = IF row[j].status = "RUNNING" THEN "PENDING" ELSE row[j].status
    BY <1>8, <1>10 DEF Finished, Row
  <2>2. Statuses' = [Statuses EXCEPT ![j] = IF Statuses[j] = "RUNNING" THEN "PENDING"
                                            ELSE Statuses[j]]
    BY <1>7, <2>1, OneStatus DEF Statuses
  <2>3. Lifecycle!GiveBack(j)
    BY <1>4, <1>5, <2>2 DEF Lifecycle!GiveBack, Lifecycle!Leaves, Statuses, Working, Complete
  <2>. QED
    BY <2>3
<1>11. CASE how # "done" /\ ~(how = "reset" \/ (how = "TRANSPORT" /\ n < MaxTransportRetry))
  <2>1. Finished(row[j], how, n).status = "FAILED"
    BY <1>8, <1>11 DEF Finished, Row
  <2>2. Statuses' = [Statuses EXCEPT ![j] = "FAILED"]
    BY <1>7, <2>1, OneStatus
  <2>3. Lifecycle!Fail(j)
    BY <1>4, <1>5, <2>2 DEF Lifecycle!Fail, Lifecycle!Leaves, Statuses, Working, Complete
  <2>. QED
    BY <2>3
<1>. QED
  BY <1>9, <1>10, <1>11

(* Jobs that a dying run drops vanish where it was the only one.              *)
LEMMA DropRefines ==
  ASSUME TypeOK, NEW r \in Runs, NEW S \in SUBSET Held(r), Drop(r, S)
  PROVE  \E T \in SUBSET Jobs : Lifecycle!Vanish(T)
<1>. DEFINE T == {i \in S : Holders(i) = {r}}
<1>1. \A i \in S : i \in Jobs /\ r \in Holders(i)
  BY DEF Held, Holders
<1>2. LetsGo(r, S)
  BY DropTasks DEF Holders, LetsGo, NoTask
<1>3. T \in SUBSET Jobs /\ T \subseteq Working
  BY <1>1 DEF Working
<1>4. Working' = Working \ T
  BY <1>1, <1>2 DEF Working, LetsGo
<1>5. row' = row /\ bronze' = bronze /\ invalidated' = invalidated
  BY DEF Drop, queue
<1>6. Statuses' = Statuses /\ Complete' = Complete
  BY <1>5, SameStatuses, SameComplete
<1>7. Lifecycle!Vanish(T)
  BY <1>3, <1>4, <1>5, <1>6 DEF Lifecycle!Vanish, Statuses, Working, Complete
<1>. QED
  BY <1>3, <1>7

LEMMA ClaimRefines ==
  ASSUME TypeOK, NEW r \in Runs, ClaimPendingJobs(r)
  PROVE  \E S \in SUBSET Jobs : Lifecycle!Take(S)
<1>1. PICK S \in SUBSET Jobs : Claims(r, S)
  BY ClaimTasks
<1>2. \A i \in Jobs : Holders(i)' = Holders(i) \cup (IF i \in S THEN {r} ELSE {})
  BY <1>1 DEF Claims, Held, Holders, NoTask
<1>3. Working' = Working \cup S
  BY <1>2 DEF Working
<1>4. \A i \in S : Statuses[i] = "PENDING"
  BY <1>1 DEF Claims, Ready, Statuses
<1>5. Statuses' = [i \in Jobs |-> IF i \in S THEN "RUNNING" ELSE Statuses[i]]
  BY <1>1, RowFields DEF Claims, Statuses, Row
<1>6. Complete' = Complete /\ invalidated' = invalidated
  BY SameComplete DEF ClaimPendingJobs, history
<1>7. Lifecycle!Take(S)
  BY <1>3, <1>4, <1>5, <1>6 DEF Lifecycle!Take, Statuses, Working, Complete
<1>. QED
  BY <1>7

(* The queue and the operators --------------------------------------------- *)

(* A step that moves no job between runs and touches no file.                 *)
LEMMA RowStep ==
  ASSUME task' = task, bronze' = bronze
  PROVE  Working' = Working /\ Complete' = Complete
BY SameTasks, SameWorking, SameComplete

LEMMA RequestRefines ==
  ASSUME TypeOK, NEW j \in Jobs, row[j].status = "absent",
         row' = [row EXCEPT ![j].status = "PENDING"],
         task' = task, bronze' = bronze, invalidated' = invalidated
  PROVE  Lifecycle!Request(j)
<1>1. Becomes(j, "PENDING")
  BY RunningRow DEF Becomes, TypeOK
<1>2. Statuses' = [Statuses EXCEPT ![j] = "PENDING"]
  BY <1>1, OneStatus
<1>3. Statuses[j] = "absent"
  BY DEF Statuses
<1>. QED
  BY <1>2, <1>3, RowStep DEF Lifecycle!Request, Statuses, Working, Complete

(* A row that is reset, whatever its retry_count becomes.                     *)
LEMMA ResetRefines ==
  ASSUME TypeOK, NEW j \in Jobs, NEW new, new.status = "PENDING",
         row' = [row EXCEPT ![j] = new],
         task' = task, bronze' = bronze, invalidated' = Freed(j)
  PROVE  Lifecycle!Requeue(j)
<1>1. Becomes(j, "PENDING")
  BY DEF Becomes, TypeOK
<1>2. Statuses' = [Statuses EXCEPT ![j] = "PENDING"]
  BY <1>1, OneStatus
<1>3. invalidated' = IF j \in Working THEN invalidated ELSE invalidated \ {j}
  BY DEF Freed, Working
<1>. QED
  BY <1>2, <1>3, RowStep DEF Lifecycle!Requeue, Statuses, Working, Complete

(* The rows of a set of failed jobs that a requeue job puts back.             *)
LEMMA RetryRefines ==
  ASSUME TypeOK, NEW S \in SUBSET Jobs, \A j \in S : row[j].status = "FAILED",
         row' = [j \in Jobs |-> IF j \in S THEN Requeued(j) ELSE row[j]],
         task' = task, bronze' = bronze, invalidated' = invalidated
  PROVE  Lifecycle!Retry(S)
<1>1. \A j \in Jobs : row'[j].status = IF j \in S THEN "PENDING" ELSE row[j].status
  BY RequeuedRow
<1>2. Statuses' = [j \in Jobs |-> IF j \in S THEN "PENDING" ELSE Statuses[j]]
  BY <1>1 DEF Statuses
<1>3. \A j \in S : Statuses[j] = "FAILED"
  BY DEF Statuses
<1>. QED
  BY <1>2, <1>3, RowStep DEF Lifecycle!Retry, Statuses, Working, Complete

LEMMA QueueRefines ==
  ASSUME TypeOK, QueueStep
  PROVE  \/ \E j \in Jobs : Lifecycle!Request(j)
         \/ \E S \in SUBSET Jobs : Lifecycle!Retry(S)
         \/ UNCHANGED Abstract
<1>1. task' = task /\ bronze' = bronze /\ invalidated' = invalidated
  BY DEF QueueStep, Enqueue, DelayEnds, RequeueTransportFailedJobs, RequeueQuotaFailedJobs,
         workers, history
<1>2. ASSUME NEW j \in Jobs, Enqueue(j) PROVE Lifecycle!Request(j)
  BY <1>1, <1>2, RequestRefines DEF Enqueue
<1>3. ASSUME NEW j \in Jobs, DelayEnds(j) PROVE UNCHANGED Abstract
  <2>1. row \in [Jobs -> Row] /\ row' = [row EXCEPT ![j] = [row[j] EXCEPT !.delayed = FALSE]]
    BY <1>3 DEF DelayEnds, TypeOK
  <2>2. \A i \in Jobs : row'[i].status = row[i].status
    BY <2>1, RunningRow
  <2>. QED
    BY <1>1, <2>2, SameStatuses, RowStep DEF Abstract
<1>4. CASE RequeueTransportFailedJobs
  <2>0. PICK S : S = {j \in Jobs : Requeueable(j) /\ row[j].retry < MaxTransportRetry}
    OBVIOUS
  <2>1. S \in SUBSET Jobs /\ \A j \in S : row[j].status = "FAILED"
    BY <2>0 DEF Requeueable
  <2>2. row' = [j \in Jobs |-> IF j \in S THEN Requeued(j) ELSE row[j]]
    BY <1>4, <2>0 DEF RequeueTransportFailedJobs
  <2>3. Lifecycle!Retry(S)
    BY <1>1, <2>1, <2>2, RetryRefines
  <2>. QED
    BY <2>1, <2>3
<1>5. CASE RequeueQuotaFailedJobs
  <2>0. PICK S : S = {j \in Jobs : row[j].status = "FAILED" /\ row[j].error = "quota"}
    OBVIOUS
  <2>1. S \in SUBSET Jobs /\ \A j \in S : row[j].status = "FAILED"
    BY <2>0
  <2>2. row' = [j \in Jobs |-> IF j \in S THEN Requeued(j) ELSE row[j]]
    BY <1>5, <2>0 DEF RequeueQuotaFailedJobs
  <2>3. Lifecycle!Retry(S)
    BY <1>1, <2>1, <2>2, RetryRefines
  <2>. QED
    BY <2>1, <2>3
<1>. QED
  BY <1>2, <1>3, <1>4, <1>5 DEF QueueStep

(* A deleted file leaves its job incomplete.                                  *)
LEMMA DeleteRefines ==
  ASSUME TypeOK, DeleteArtifact
  PROVE  \E j \in Jobs : Lifecycle!Withdraw(j)
<1>0. PICK j : j = recollect.job
  OBVIOUS
<1>1. j \in Jobs /\ recollect.part \in Parts(j)
  BY <1>0 DEF DeleteArtifact, TypeOK
<1>2. bronze' = bronze \ {<<j, recollect.part>>} /\ task' = task /\ row' = row
  BY <1>0 DEF DeleteArtifact, workers
<1>3. ~Collected(j)' /\ \A i \in Jobs \ {j} : Collected(i)' <=> Collected(i)
  BY <1>1, <1>2 DEF Collected, Parts
<1>4. Complete' = Complete \ {j}
  BY <1>3 DEF Complete
<1>5. Statuses' = Statuses /\ Working' = Working
  BY <1>2, SameStatuses, SameTasks, SameWorking
<1>6. invalidated' = invalidated \cup {j}
  BY <1>0 DEF DeleteArtifact
<1>. QED
  BY <1>1, <1>4, <1>5, <1>6 DEF Lifecycle!Withdraw, Statuses, Working, Complete

LEMMA RecollectRefines ==
  ASSUME TypeOK, RecollectStep
  PROVE  (\E j \in Jobs : Lifecycle!Withdraw(j) \/ Lifecycle!Requeue(j)) \/ UNCHANGED Abstract
<1>1. CASE DeleteArtifact
  BY <1>1, DeleteRefines
<1>2. CASE ~DeleteArtifact /\ ~ResetOrEnqueueJob
  <2>1. row' = row /\ bronze' = bronze /\ task' = task /\ invalidated' = invalidated
    BY <1>2 DEF RecollectStep, BeginRecollect, LookupJob, RecollectDies, queue, workers, history
  <2>. QED
    BY <2>1, SameStatuses, RowStep DEF Abstract
<1>3. CASE ResetOrEnqueueJob
  <2>0. PICK j : j = recollect.job
    OBVIOUS
  <2>1. j \in Jobs /\ task' = task /\ bronze' = bronze
    BY <1>3, <2>0 DEF ResetOrEnqueueJob, TypeOK, workers
  <2>2. CASE row' = row /\ invalidated' = invalidated
    BY <2>1, <2>2, SameStatuses, RowStep DEF Abstract
  <2>3. CASE row' = [row EXCEPT ![j] = Requeued(j)] /\ invalidated' = Freed(j)
    <3>1. Lifecycle!Requeue(j)
      BY <2>1, <2>3, RequeuedRow, ResetRefines
    <3>. QED
      BY <2>1, <3>1
  <2>. QED
    BY <1>3, <2>0, <2>2, <2>3 DEF ResetOrEnqueueJob
<1>. QED
  BY <1>1, <1>2, <1>3

LEMMA ResyncRefines ==
  ASSUME TypeOK, ResyncStep
  PROVE  (\E j \in Jobs : Lifecycle!Request(j) \/ Lifecycle!Requeue(j)) \/ UNCHANGED Abstract
<1>0. PICK j : j = resync.job
  OBVIOUS
<1>1. task' = task /\ bronze' = bronze
  BY DEF ResyncStep, ResyncFindsMissing, ResyncLooksUp, ResyncResets, workers, queue
<1>2. CASE row' = row /\ invalidated' = invalidated
  BY <1>1, <1>2, SameStatuses, RowStep DEF Abstract
<1>3. CASE \E i \in Jobs : ResyncFindsMissing(i)
  <2>1. row' = row /\ invalidated' = invalidated
    BY <1>3 DEF ResyncFindsMissing, queue, history
  <2>. QED
    BY <1>2, <2>1
<1>4. CASE ResyncLooksUp
  <2>1. j \in Jobs /\ invalidated' = invalidated
    BY <1>0, <1>4 DEF ResyncLooksUp, TypeOK, history
  <2>2. CASE row[j].status = "absent"
    <3>1. row' = [row EXCEPT ![j].status = "PENDING"]
      BY <1>0, <1>4, <2>2 DEF ResyncLooksUp
    <3>2. Lifecycle!Request(j)
      BY <1>1, <2>1, <2>2, <3>1, RequestRefines
    <3>. QED
      BY <2>1, <3>2
  <2>3. CASE row[j].status # "absent"
    BY <1>0, <1>2, <1>4, <2>1, <2>3 DEF ResyncLooksUp
  <2>. QED
    BY <2>2, <2>3
<1>5. CASE ResyncResets
  <2>1. j \in Jobs
    BY <1>0, <1>5 DEF ResyncResets, TypeOK
  <2>2. CASE row[j].status = "RUNNING"
    BY <1>0, <1>2, <1>5, <2>2 DEF ResyncResets
  <2>3. CASE row[j].status # "RUNNING"
    <3>1. /\ row' = [row EXCEPT ![j] = [Requeued(j) EXCEPT !.retry = 0]]
          /\ invalidated' = Freed(j)
      BY <1>0, <1>5, <2>3 DEF ResyncResets
    <3>2. Lifecycle!Requeue(j)
      BY <1>1, <2>1, <3>1, RequeuedRow, ResetRefines
    <3>. QED
      BY <2>1, <3>2
  <2>. QED
    BY <2>2, <2>3
<1>. QED
  BY <1>3, <1>4, <1>5 DEF ResyncStep

(* Every step of the queue is a step of the life cycle, or none.              *)
LEMMA StepRefines ==
  TypeOK /\ CollectInv /\ [Next]_vars => [Lifecycle!Next]_Lifecycle!vars
<1>. SUFFICES ASSUME TypeOK, CollectInv, [Next]_vars
              PROVE  Lifecycle!Next \/ UNCHANGED Lifecycle!vars
  OBVIOUS
<1>1. UNCHANGED Abstract => UNCHANGED Lifecycle!vars
  BY Stutters
<1>2. ASSUME NEW r \in Runs, ClaimPendingJobs(r) PROVE Lifecycle!Next
  BY <1>2, ClaimRefines DEF Lifecycle!Next
<1>3. ASSUME NEW r \in Runs, Crash(r) \/ \E j \in Jobs : FinishFails(r, j)
      PROVE  Lifecycle!Next
  BY <1>3, Drops, DropRefines DEF Lifecycle!Next
<1>4. ASSUME NEW r \in Runs, NEW j \in Jobs,
             Local(r, j) \/ WriteBronze(r, j) \/ FinishJob(r, j)
      PROVE  Lifecycle!Next \/ UNCHANGED Lifecycle!vars
  BY <1>1, <1>4, LocalRefines, WriteRefines, FinishRefines DEF Lifecycle!Next
<1>5. CASE QueueStep \/ RecollectStep \/ ResyncStep
  BY <1>1, <1>5, QueueRefines, RecollectRefines, ResyncRefines DEF Lifecycle!Next
<1>6. CASE UNCHANGED vars
  <2>1. row' = row /\ task' = task /\ bronze' = bronze /\ invalidated' = invalidated
    BY <1>6 DEF vars, queue, workers, history
  <2>. QED
    BY <1>1, <2>1, SameStatuses, RowStep DEF Abstract
<1>. QED
  BY <1>2, <1>3, <1>4, <1>5, <1>6, StepKinds

LEMMA InitRefines == Init => Lifecycle!Init
<1>. SUFFICES ASSUME Init PROVE Lifecycle!Init
  OBVIOUS
<1>1. Statuses = [j \in Jobs |-> "absent"]
  BY DEF Init, Statuses
<1>2. Working = {}
  BY DEF Init, Working, Holders, NoTask
<1>3. Complete = {}
  <2>1. \A j \in Jobs : 1 \in Parts(j) /\ <<j, 1>> \notin bronze
    BY DEF Init, Parts
  <2>. QED
    BY <2>1 DEF Complete, Collected
<1>4. invalidated = {}
  BY DEF Init
<1>. QED
  BY <1>1, <1>2, <1>3, <1>4 DEF Lifecycle!Init, Statuses, Working, Complete

(* For every set of jobs and of runs, whatever the crashes, retries, operator  *)
(* resets and backfill replays: the queue does to a job only what its life    *)
(* cycle allows, so that a worker ends a job as DONE only over all its files   *)
(* or files an operator deleted, and files come only from a worker.          *)
THEOREM LifecycleCorrect == Spec => FollowsLifecycle
<1>1. Init => CollectInv
  BY DEF Init, CollectInv, DoneHasBronze, Behind, NoTask
<1>2. Spec => [](TypeOK /\ CollectInv)
  BY <1>1, InitType, TypeStep, CollectStep, PTL DEF Spec
<1>. QED
  BY <1>2, InitRefines, StepRefines, PTL DEF Spec, FollowsLifecycle, Lifecycle!Spec
=============================================================================
