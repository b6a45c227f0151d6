---------------------------- MODULE CollectJobs ----------------------------
(***************************************************************************)
(* The collect_job queue and everything that moves its rows: the runs of    *)
(* run_detail_collector with their worker threads, the two requeue jobs,    *)
(* the operator's run_bronze_recollect_targets and the resync that a        *)
(* backfill replay performs, over the Bronze files the collectors write.    *)
(*                                                                         *)
(* A database transaction is one step; between two transactions, and       *)
(* between a transaction and a storage or API call, every other process may *)
(* move and the process may die.  The order of the queue (priority,         *)
(* scheduled_at) is abstracted: a claim takes any ready rows.               *)
(***************************************************************************)
EXTENDS Integers, FiniteSets

CONSTANTS
  Jobs,               (* the request hashes that may be queued                *)
  Financial,          (* those with two Bronze files, CFS and OFS             *)
  Runs,               (* collector runs that may overlap                      *)
  BatchSize,          (* batch_size                                           *)
  Concurrency,        (* concurrency                                          *)
  MaxTransportRetry,  (* _MAX_TRANSPORT_RETRY                                 *)
  ResetRunning,       (* the values of reset_running that operators pass      *)
  MaxManual           (* bound: operator resets of one job                    *)

ASSUME JobsAssumption ==
  /\ IsFiniteSet(Jobs) /\ IsFiniteSet(Runs)
  /\ Financial \subseteq Jobs
  /\ BatchSize \in Nat \ {0}
  /\ Concurrency \in Nat \ {0}
  /\ MaxTransportRetry \in Nat
  /\ ResetRunning \subseteq BOOLEAN
  /\ MaxManual \in Nat

VARIABLES
  row,          (* the collect_job row of each job: status, retry_count,      *)
                (* whether scheduled_at lies ahead, class of error_message    *)
  bronze,       (* the Bronze files that exist, as <<job, part>>              *)
  task,         (* task[r][j]: what run r does with job j, see Task           *)
  exhausted,    (* quota_exhausted.is_set() of each run's batch               *)
  recollect,    (* the operator's run_bronze_recollect_targets                *)
  resync,       (* _resync_detail_jobs_for_item of a backfill replay          *)
  (* history                                                                 *)
  manual,       (* operator resets of each job                                *)
  lost,         (* jobs left RUNNING by a run that died                       *)
  stolen,       (* jobs put back to PENDING while a run had them, until the   *)
                (* last of their runs is through                             *)
  invalidated   (* jobs whose Bronze was deleted and neither fetched again nor *)
                (* queued again since, free of any run                       *)

queue == <<row, bronze>>
workers == <<task, exhausted>>
operators == <<recollect, resync>>
history == <<manual, lost, stolen, invalidated>>
vars == <<queue, workers, operators, history>>

-----------------------------------------------------------------------------
Status == {"absent", "PENDING", "RUNNING", "DONE", "FAILED"}
ErrorText == {"none", "TRANSPORT", "HTTP_5", "quota", "other"}

(* The files of a job, in the order its collector fetches them.              *)
Parts(j) == IF j \in Financial THEN 1 .. 2 ELSE 1 .. 1
Collected(j) == \A p \in Parts(j) : <<j, p>> \in bronze

(* How far a worker is with a job: queued (claimed, not started), check (the  *)
(* storage.exists test), call (the API request is out), write, log (the      *)
(* transaction after the write), finish (the transaction that ends it).      *)
Step == {"none", "queued", "check", "call", "write", "log", "finish"}
Outcome == {"none", "done", "reset", "TRANSPORT", "HTTP_5", "quota", "other"}
NoTask == [step |-> "none", part |-> 1, outcome |-> "none", retry |-> 0]

Holders(j) == {r \in Runs : task[r][j].step # "none"}
Held(r) == {j \in Jobs : task[r][j].step # "none"}
Queued(r) == {j \in Jobs : task[r][j].step = "queued"}
Started(r) == Held(r) \ Queued(r)

Moves(r, j, s) == task' = [task EXCEPT ![r][j].step = s]
Ends(r, j, how) == task' = [task EXCEPT ![r][j].step = "finish", ![r][j].outcome = how]

(* A row that is ready to be claimed again.                                  *)
Requeued(j) == [row[j] EXCEPT !.status = "PENDING", !.delayed = FALSE, !.error = "none"]

-----------------------------------------------------------------------------
(* enqueue_collect_job: ON CONFLICT (request_hash) DO NOTHING.               *)
Enqueue(j) ==
  /\ row[j].status = "absent"
  /\ row' = [row EXCEPT ![j].status = "PENDING"]
  /\ UNCHANGED <<bronze, workers, operators, history>>

(* scheduled_at of a rescheduled job comes.                                  *)
DelayEnds(j) ==
  /\ row[j].delayed
  /\ row' = [row EXCEPT ![j].delayed = FALSE]
  /\ UNCHANGED <<bronze, workers, operators, history>>

(* run_detail_collector claims when it starts or when its last batch is over, *)
(* whether the loop goes on or another run takes its place.                  *)
BatchOver(r) == Held(r) = {}

Ready(j) == row[j].status = "PENDING" /\ ~row[j].delayed

(* Mutant of ClaimPendingJobs: rows another run has claimed are taken too.    *)
ClaimPendingJobs_AnyActive(r) ==
  \E S \in SUBSET {j \in Jobs : row[j].status \in {"PENDING", "RUNNING"}} :
    /\ S # {} /\ Cardinality(S) <= BatchSize
    /\ BatchOver(r)
    /\ row' = [j \in Jobs |-> IF j \in S THEN [row[j] EXCEPT !.status = "RUNNING"] ELSE row[j]]
    /\ task' = [task EXCEPT ![r] = [j \in Jobs |->
                  IF j \in S THEN [NoTask EXCEPT !.step = "queued", !.retry = row[j].retry]
                             ELSE NoTask]]
    /\ exhausted' = [exhausted EXCEPT ![r] = FALSE]
    /\ UNCHANGED <<bronze, operators, history>>

(* claim_pending_jobs: FOR UPDATE SKIP LOCKED, so any ready rows.             *)
ClaimPendingJobs(r) ==
  \E S \in SUBSET {j \in Jobs : Ready(j)} :
    /\ S # {} /\ Cardinality(S) <= BatchSize
    /\ BatchOver(r)
    /\ row' = [j \in Jobs |-> IF j \in S THEN [row[j] EXCEPT !.status = "RUNNING"] ELSE row[j]]
    /\ task' = [task EXCEPT ![r] = [j \in Jobs |->
                  IF j \in S THEN [NoTask EXCEPT !.step = "queued", !.retry = row[j].retry]
                             ELSE NoTask]]
    /\ exhausted' = [exhausted EXCEPT ![r] = FALSE]
    /\ UNCHANGED <<bronze, operators, history>>

(* process, on a free worker thread: a job not yet started is given back when *)
(* the batch is out of quota, or when the deadline has passed.               *)
StartJob(r, j) ==
  /\ task[r][j].step = "queued"
  /\ Cardinality(Started(r)) < Concurrency
  /\ Moves(r, j, "check")
  /\ ~exhausted[r]
  /\ UNCHANGED <<queue, exhausted, operators, history>>

SkipJob(r, j) ==
  /\ task[r][j].step = "queued"
  /\ Cardinality(Started(r)) < Concurrency
  /\ Ends(r, j, "reset")
  /\ UNCHANGED <<queue, exhausted, operators, history>>

(* Mutant of NextPart: the collector looks for one file more than there is.   *)
NextPart_OffByOne(r, j) ==
  IF task[r][j].part \in Parts(j)
  THEN task' = [task EXCEPT ![r][j].step = "check", ![r][j].part = @ + 1]
  ELSE Ends(r, j, "done")

(* After a part: the next one, or the end of the collector.                  *)
NextPart(r, j) ==
  IF task[r][j].part + 1 \in Parts(j)
  THEN task' = [task EXCEPT ![r][j].step = "check", ![r][j].part = @ + 1]
  ELSE Ends(r, j, "done")

(* Mutant of CheckBronze: the collector always calls OpenDART.               *)
CheckBronze_AlwaysCall(r, j) ==
  /\ task[r][j].step = "check"
  /\ Moves(r, j, "call")
  /\ UNCHANGED <<queue, exhausted, operators, history>>

(* Mutant of CheckBronze: one file is enough to take the job for collected.   *)
CheckBronze_AnyFile(r, j) ==
  /\ task[r][j].step = "check"
  /\ IF \E p \in Parts(j) : <<j, p>> \in bronze THEN Ends(r, j, "done")
                                              ELSE Moves(r, j, "call")
  /\ UNCHANGED <<queue, exhausted, operators, history>>

(* storage.exists: a file that is there is not fetched again.                *)
CheckBronze(r, j) ==
  /\ task[r][j].step = "check"
  /\ IF <<j, task[r][j].part>> \in bronze THEN NextPart(r, j) ELSE Moves(r, j, "call")
  /\ UNCHANGED <<queue, exhausted, operators, history>>

(* OpenDART answers with data or with 013 (014 for a document): the file or a *)
(* nodata marker will be written.                                           *)
ApiAnswers(r, j) ==
  /\ task[r][j].step = "call"
  /\ Moves(r, j, "write")
  /\ UNCHANGED <<queue, exhausted, operators, history>>

(* RateLimitExceeded or 020: the batch is out of quota.                      *)
ApiLimited(r, j) ==
  /\ task[r][j].step = "call"
  /\ Ends(r, j, "reset")
  /\ exhausted' = [exhausted EXCEPT ![r] = TRUE]
  /\ UNCHANGED <<queue, operators, history>>

(* Any other error, also of the storage or of a log transaction: the classes  *)
(* are those that process and the requeue jobs tell apart.                   *)
JobFails(r, j) ==
  /\ task[r][j].step \in {"check", "call", "write", "log"}
  /\ \E how \in {"TRANSPORT", "HTTP_5", "quota", "other"} :
       /\ how = "TRANSPORT" => task[r][j].step = "call"
       /\ Ends(r, j, how)
  /\ UNCHANGED <<queue, exhausted, operators, history>>

WriteBronze(r, j) ==
  /\ task[r][j].step = "write"
  /\ bronze' = bronze \cup {<<j, task[r][j].part>>}
  /\ Moves(r, j, "log")
  /\ invalidated' = IF Parts(j) \subseteq {p \in 1 .. 2 : <<j, p>> \in bronze'}
                    THEN invalidated \ {j} ELSE invalidated
  /\ UNCHANGED <<row, exhausted, operators, manual, lost, stolen>>

LogRequest(r, j) ==
  /\ task[r][j].step = "log"
  /\ NextPart(r, j)
  /\ UNCHANGED <<queue, exhausted, operators, history>>

(* Mutant of Finished: every TRANSPORT failure is rescheduled (the count is   *)
(* capped to keep the model finite).                                         *)
Finished_AlwaysReschedule(old, how, retry) ==
  IF how = "done" THEN [old EXCEPT !.status = "DONE", !.error = "none"]
  ELSE IF how \in {"reset", "TRANSPORT"}
  THEN IF old.status # "RUNNING" THEN old
       ELSE IF how = "reset" THEN [old EXCEPT !.status = "PENDING"]
       ELSE [old EXCEPT !.status = "PENDING", !.delayed = TRUE, !.error = how,
                        !.retry = IF @ < MaxTransportRetry THEN @ + 1 ELSE @]
  ELSE [old EXCEPT !.status = "FAILED", !.retry = @ + 1, !.error = how]

(* The row after the transaction that ends a job whose claim read `retry`:    *)
(* mark_job_done and mark_job_failed whatever the status is by then,         *)
(* reset_job_to_pending and reschedule_job_to_pending only if still RUNNING. *)
Finished(old, how, retry) ==
  IF how = "done" THEN [old EXCEPT !.status = "DONE", !.error = "none"]
  ELSE IF how = "reset" \/ (how = "TRANSPORT" /\ retry < MaxTransportRetry)
  THEN IF old.status # "RUNNING" THEN old
       ELSE IF how = "reset" THEN [old EXCEPT !.status = "PENDING"]
       ELSE [old EXCEPT !.status = "PENDING", !.delayed = TRUE, !.retry = @ + 1,
                        !.error = how]
  ELSE [old EXCEPT !.status = "FAILED", !.retry = @ + 1, !.error = how]

(* What the history says once the run r has let go of the jobs of S.          *)
StillStolen(r, S) == {j \in stolen : Holders(j) \ (IF j \in S THEN {r} ELSE {}) # {}}

FinishJob(r, j) ==
  /\ task[r][j].step = "finish"
  /\ row' = [row EXCEPT ![j] = Finished(@, task[r][j].outcome, task[r][j].retry)]
  /\ task' = [task EXCEPT ![r][j] = NoTask]
  /\ lost' = IF row'[j].status # "RUNNING" THEN lost \ {j} ELSE lost
  /\ stolen' = StillStolen(r, {j})
  /\ UNCHANGED <<bronze, exhausted, operators, manual, invalidated>>

(* The run r drops the jobs of S with their rows as they are: a row RUNNING   *)
(* that no other run has stays RUNNING for good.                             *)
Drop(r, S) ==
  /\ task' = [task EXCEPT ![r] = [j \in Jobs |-> IF j \in S THEN NoTask ELSE @[j]]]
  /\ lost' = lost \cup {j \in S : row[j].status = "RUNNING" /\ Holders(j) = {r}}
  /\ stolen' = StillStolen(r, S)
  /\ UNCHANGED <<queue, exhausted, operators, manual, invalidated>>

(* The transaction that ends a job fails: process raises.  The run ends after *)
(* the jobs that are under way, and the jobs that pool.map has not started by *)
(* then are cancelled (all of them when the batch runs in one thread).       *)
FinishFails(r, j) ==
  /\ task[r][j].step = "finish"
  /\ \E C \in SUBSET Queued(r) :
       /\ Concurrency = 1 => C = Queued(r)
       /\ Drop(r, C \cup {j})

(* The process of the run dies.                                              *)
Crash(r) ==
  /\ Held(r) # {}
  /\ Drop(r, Held(r))

-----------------------------------------------------------------------------
Requeueable(j) == row[j].status = "FAILED" /\ row[j].error \in {"TRANSPORT", "HTTP_5"}

(* Mutant of RequeueTransportFailedJobs: no retry_count limit (but one that   *)
(* keeps the model finite).                                                  *)
RequeueTransportFailedJobs_NoLimit ==
  LET failed == {j \in Jobs : Requeueable(j) /\ row[j].retry < MaxTransportRetry + 4} IN
  /\ failed # {}
  /\ row' = [j \in Jobs |-> IF j \in failed THEN Requeued(j) ELSE row[j]]
  /\ UNCHANGED <<bronze, workers, operators, history>>

(* run_requeue_transport_failed_jobs, from the periodic reconciliation.       *)
RequeueTransportFailedJobs ==
  LET failed == {j \in Jobs : Requeueable(j) /\ row[j].retry < MaxTransportRetry} IN
  /\ failed # {}
  /\ row' = [j \in Jobs |-> IF j \in failed THEN Requeued(j) ELSE row[j]]
  /\ UNCHANGED <<bronze, workers, operators, history>>

(* run_requeue_quota_failed_jobs, by an operator: no retry_count limit.       *)
RequeueQuotaFailedJobs ==
  LET failed == {j \in Jobs : row[j].status = "FAILED" /\ row[j].error = "quota"} IN
  /\ failed # {}
  /\ \A j \in failed : manual[j] < MaxManual
  /\ row' = [j \in Jobs |-> IF j \in failed THEN Requeued(j) ELSE row[j]]
  /\ manual' = [j \in Jobs |-> IF j \in failed THEN manual[j] + 1 ELSE manual[j]]
  /\ UNCHANGED <<bronze, workers, operators, lost, stolen, invalidated>>

-----------------------------------------------------------------------------
(* run_bronze_recollect_targets on one job: its files are quarantined and     *)
(* deleted, then one transaction reads the row's status and resets the row.  *)
NoRecollect == [step |-> "none", job |-> "none", part |-> 1, seen |-> "none",
                reset_running |-> FALSE]

BeginRecollect(j, reset_running) ==
  /\ recollect.step = "none"
  /\ manual[j] < MaxManual
  /\ recollect' = [NoRecollect EXCEPT !.step = "delete", !.job = j,
                                      !.reset_running = reset_running]
  /\ manual' = [manual EXCEPT ![j] = @ + 1]
  /\ UNCHANGED <<queue, workers, resync, lost, stolen, invalidated>>

DeleteArtifact ==
  LET j == recollect.job IN
  /\ recollect.step = "delete"
  /\ bronze' = bronze \ {<<j, recollect.part>>}
  /\ recollect' = IF recollect.part + 1 \in Parts(j)
                  THEN [recollect EXCEPT !.part = @ + 1]
                  ELSE [recollect EXCEPT !.step = "lookup"]
  /\ invalidated' = invalidated \cup {j}
  /\ UNCHANGED <<row, workers, resync, manual, lost, stolen>>

(* SELECT id, status: no lock is taken on the row.                           *)
LookupJob ==
  /\ recollect.step = "lookup"
  /\ recollect' = IF row[recollect.job].status = "RUNNING" /\ ~recollect.reset_running
                  THEN NoRecollect
                  ELSE [recollect EXCEPT !.step = "reset",
                                         !.seen = row[recollect.job].status]
  /\ UNCHANGED <<queue, workers, resync, history>>

(* What is left invalidated once j is queued.                                *)
Freed(j) == IF Holders(j) = {} THEN invalidated \ {j} ELSE invalidated

(* The UPDATE has no condition on the status; retry_count is kept.  A row     *)
(* that was absent at the lookup is inserted, if it still is absent.         *)
ResetOrEnqueueJob ==
  LET j == recollect.job IN
  /\ recollect.step = "reset"
  /\ recollect' = NoRecollect
  /\ IF recollect.seen = "absent" /\ row[j].status # "absent"
     THEN UNCHANGED <<row, lost, stolen, invalidated>>
     ELSE /\ row' = [row EXCEPT ![j] = Requeued(j)]
          /\ lost' = lost \ {j}
          /\ stolen' = IF Holders(j) # {} THEN stolen \cup {j} ELSE stolen
          /\ invalidated' = Freed(j)
  /\ UNCHANGED <<bronze, workers, resync, manual>>

RecollectDies ==
  /\ recollect.step # "none"
  /\ recollect' = NoRecollect
  /\ UNCHANGED <<queue, workers, resync, history>>

-----------------------------------------------------------------------------
(* _resync_detail_jobs_for_item on one job: a job with a missing file is       *)
(* inserted, or reset with retry_count 0 unless it waits or runs.            *)
NoResync == [step |-> "none", job |-> "none"]

ResyncFindsMissing(j) ==
  /\ resync.step = "none"
  /\ ~Collected(j)
  /\ resync' = [step |-> "lookup", job |-> j]
  /\ UNCHANGED <<queue, workers, recollect, history>>

ResyncLooksUp ==
  LET j == resync.job IN
  /\ resync.step = "lookup"
  /\ row' = IF row[j].status = "absent" THEN [row EXCEPT ![j].status = "PENDING"] ELSE row
  /\ resync' = IF row[j].status \in {"DONE", "FAILED"}
               THEN [resync EXCEPT !.step = "reset"] ELSE NoResync
  /\ UNCHANGED <<bronze, workers, recollect, history>>

(* Mutant of ResyncResets: without AND status <> 'RUNNING'.                   *)
ResyncResets_Unguarded ==
  LET j == resync.job IN
  /\ resync.step = "reset"
  /\ resync' = NoResync
  /\ row' = [row EXCEPT ![j] = [Requeued(j) EXCEPT !.retry = 0]]
  /\ invalidated' = Freed(j)
  /\ UNCHANGED <<bronze, workers, recollect, manual, lost, stolen>>

ResyncResets ==
  LET j == resync.job IN
  /\ resync.step = "reset"
  /\ resync' = NoResync
  /\ IF row[j].status = "RUNNING"
     THEN UNCHANGED <<row, invalidated>>
     ELSE /\ row' = [row EXCEPT ![j] = [Requeued(j) EXCEPT !.retry = 0]]
          /\ invalidated' = Freed(j)
  /\ UNCHANGED <<bronze, workers, recollect, manual, lost, stolen>>

-----------------------------------------------------------------------------
Artifacts == {<<j, p>> : j \in Jobs, p \in 1 .. 2}

Init ==
  /\ row = [j \in Jobs |-> [status |-> "absent", retry |-> 0, delayed |-> FALSE,
                            error |-> "none"]]
  /\ bronze = {}
  /\ task = [r \in Runs |-> [j \in Jobs |-> NoTask]]
  /\ exhausted = [r \in Runs |-> FALSE]
  /\ recollect = NoRecollect
  /\ resync = NoResync
  /\ manual = [j \in Jobs |-> 0]
  /\ lost = {}
  /\ stolen = {}
  /\ invalidated = {}

WorkerStep(r, j) ==
  \/ StartJob(r, j) \/ SkipJob(r, j)
  \/ CheckBronze(r, j) \/ ApiAnswers(r, j) \/ ApiLimited(r, j) \/ JobFails(r, j)
  \/ WriteBronze(r, j) \/ LogRequest(r, j)
  \/ FinishJob(r, j) \/ FinishFails(r, j)

RecollectStep ==
  \/ \E j \in Jobs, reset_running \in ResetRunning : BeginRecollect(j, reset_running)
  \/ DeleteArtifact \/ LookupJob \/ ResetOrEnqueueJob \/ RecollectDies

ResyncStep ==
  \/ \E j \in Jobs : ResyncFindsMissing(j)
  \/ ResyncLooksUp \/ ResyncResets

Next ==
  \/ \E j \in Jobs : Enqueue(j) \/ DelayEnds(j)
  \/ \E r \in Runs : ClaimPendingJobs(r) \/ Crash(r)
  \/ \E r \in Runs, j \in Jobs : WorkerStep(r, j)
  \/ RequeueTransportFailedJobs \/ RequeueQuotaFailedJobs
  \/ RecollectStep \/ ResyncStep

Spec == Init /\ [][Next]_vars

-----------------------------------------------------------------------------
Task == [step : Step, part : 1 .. 2, outcome : Outcome, retry : Nat]
Row == [status : Status, retry : Nat, delayed : BOOLEAN, error : ErrorText]

(* Types.  A row that was never inserted is as it was at the start.          *)
TypeOK ==
  /\ row \in [Jobs -> Row]
  /\ \A j \in Jobs : row[j].status = "absent" => row[j].retry = 0 /\ ~row[j].delayed
  /\ bronze \subseteq {a \in Artifacts : a[2] \in Parts(a[1])}
  /\ task \in [Runs -> [Jobs -> Task]]
  /\ \A r \in Runs, j \in Jobs : task[r][j].part \in Parts(j)
  /\ exhausted \in [Runs -> BOOLEAN]
  /\ recollect \in [step : {"none", "delete", "lookup", "reset"},
                    job : Jobs \cup {"none"}, part : 1 .. 2,
                    seen : Status \cup {"none"}, reset_running : BOOLEAN]
  /\ recollect.step # "none" => recollect.job \in Jobs
  /\ recollect.step = "delete" => recollect.part \in Parts(recollect.job)
  /\ resync \in [step : {"none", "lookup", "reset"}, job : Jobs \cup {"none"}]
  /\ resync.step # "none" => resync.job \in Jobs
  /\ manual \in [Jobs -> Nat]
  /\ lost \subseteq Jobs /\ stolen \subseteq Jobs /\ invalidated \subseteq Jobs

(* SKIP LOCKED and the RUNNING status keep a job in one run at a time: only a  *)
(* reset of a RUNNING row lets a second one in, and no longer than its runs   *)
(* last.                                                                     *)
OneHolder == \A j \in Jobs \ stolen : Cardinality(Holders(j)) <= 1

(* A job a run works on has a RUNNING row, so that the unconditional UPDATEs  *)
(* of mark_job_done and mark_job_failed end this run's claim and no other;   *)
(* and a RUNNING row has a run unless the run died: every normal way out of   *)
(* process, and every reset racing with it, leaves no RUNNING row behind.    *)
RunningIsHeld ==
  \A j \in Jobs :
    /\ row[j].status = "RUNNING" => Holders(j) # {} \/ j \in lost
    /\ Holders(j) # {} /\ j \notin stolen => row[j].status = "RUNNING"

(* DONE means that every Bronze file is there, whatever order of crashes,     *)
(* partial collections and resets led to it, except for a job whose files    *)
(* an operator deleted while a run had it or without queueing it again.      *)
DoneHasBronze ==
  \A j \in Jobs : row[j].status = "DONE" => Collected(j) \/ j \in invalidated

(* A file that is in Bronze is never fetched again, whichever run, crash or   *)
(* requeue brought the job back: the existence test of a collector is not     *)
(* outdated by the time of the call, as long as no second run has the job.   *)
FetchedOnce ==
  \A j \in Jobs \ stolen, r \in Runs :
    task[r][j].step \in {"call", "write"} => <<j, task[r][j].part>> \notin bronze

(* Failures do not retry without end: reschedules and the periodic requeue    *)
(* stop at _MAX_TRANSPORT_RETRY, and past it an operator reset allows two     *)
(* failures more, that of the run it takes the job from and that of the run   *)
(* that claims it next, however many runs overlap.                           *)
RetryBounded == \A j \in Jobs : row[j].retry <= MaxTransportRetry + 1 + 2 * manual[j]

(* run_detail_collector's docstring: "동시 worker 중복은 SKIP LOCKED claim으로    *)
(* 방지", no two workers have one job.                                        *)
NoDuplicateWork == \A j \in Jobs : Cardinality(Holders(j)) <= 1

-----------------------------------------------------------------------------
(* The refinement mapping: a job is worked on while some run has it.          *)
Lifecycle == INSTANCE JobLifecycle WITH
  status <- [j \in Jobs |-> row[j].status],
  working <- {j \in Jobs : Holders(j) # {}},
  complete <- {j \in Jobs : Collected(j)},
  withdrawn <- invalidated

(* Runs, threads, crashes, retries and operators together do nothing to a job *)
(* but what its life cycle allows: above all, it is never DONE by a worker    *)
(* whose files are not there, and no file comes from nowhere.                *)
FollowsLifecycle == Lifecycle!Spec

-----------------------------------------------------------------------------
(* A run that has a job goes on with it, the collector is started again and    *)
(* again, and delays come to an end.  Nothing makes the operators act.       *)
Fairness ==
  /\ \A j \in Jobs : WF_vars(DelayEnds(j))
  /\ \A r \in Runs : WF_vars(ClaimPendingJobs(r))
  /\ \A r \in Runs, j \in Jobs : WF_vars(WorkerStep(r, j))

FairSpec == Spec /\ Fairness

(* No run dies, is out of quota or past its deadline, and nobody resets jobs. *)
Undisturbed ==
  \/ \E j \in Jobs : Enqueue(j) \/ DelayEnds(j)
  \/ \E r \in Runs : ClaimPendingJobs(r)
  \/ \E r \in Runs, j \in Jobs :
       \/ StartJob(r, j) \/ CheckBronze(r, j) \/ ApiAnswers(r, j) \/ JobFails(r, j)
       \/ WriteBronze(r, j) \/ LogRequest(r, j) \/ FinishJob(r, j)
  \/ RequeueTransportFailedJobs

(* A queued job is DONE or FAILED in the end if the disturbances end: the      *)
(* delays and retries of a failing API are finite, and no job is left in the  *)
(* queue or with a run, but for those that a dead run left RUNNING.          *)
Settles ==
  <>[][Undisturbed]_vars =>
    \A j \in Jobs : row[j].status = "PENDING"
                       ~> row[j].status \in {"DONE", "FAILED"} \/ j \in lost
=============================================================================
