---------------------------- MODULE JobLifecycle ----------------------------
(***************************************************************************)
(* What the collection of detail jobs promises to those who read its        *)
(* results, without runs, threads, retries or quotas: a job is requested,    *)
(* worked on, and collected only when all its files are in Bronze, unless an *)
(* operator took them away.  CollectJobs implements it.                      *)
(***************************************************************************)
EXTENDS FiniteSets

CONSTANT Jobs          (* the request hashes that may be queued               *)

VARIABLES
  status,      (* the status column of each job, "absent" before the insert  *)
  working,     (* the jobs that some worker is busy with                      *)
  complete,    (* the jobs whose files are all in Bronze                      *)
  withdrawn    (* the jobs whose files an operator deleted and that nothing   *)
               (* has fetched or queued again since                           *)

vars == <<status, working, complete, withdrawn>>

Status == {"absent", "PENDING", "RUNNING", "DONE", "FAILED"}

Init ==
  /\ status = [j \in Jobs |-> "absent"]
  /\ working = {}
  /\ complete = {}
  /\ withdrawn = {}

(* A disclosure asks for the job.                                            *)
Request(j) ==
  /\ status[j] = "absent"
  /\ status' = [status EXCEPT ![j] = "PENDING"]
  /\ UNCHANGED <<working, complete, withdrawn>>

(* A run takes waiting jobs.                                                 *)
Take(S) ==
  /\ \A j \in S : status[j] = "PENDING"
  /\ status' = [j \in Jobs |-> IF j \in S THEN "RUNNING" ELSE status[j]]
  /\ working' = working \cup S
  /\ UNCHANGED <<complete, withdrawn>>

(* The last missing file of a job arrives; only a worker brings it.          *)
Gather(j) ==
  /\ j \in working
  /\ complete' = complete \cup {j}
  /\ withdrawn' = withdrawn \ {j}
  /\ UNCHANGED <<status, working>>

(* A worker ends a job: with its files there, with a failure, or by giving it *)
(* back.  Another worker may still be busy with it.                          *)
Leaves(j) == working' \in {working, working \ {j}}

Succeed(j) ==
  /\ j \in working
  /\ j \in complete \cup withdrawn
  /\ status' = [status EXCEPT ![j] = "DONE"]
  /\ Leaves(j)
  /\ UNCHANGED <<complete, withdrawn>>

Fail(j) ==
  /\ j \in working
  /\ status' = [status EXCEPT ![j] = "FAILED"]
  /\ Leaves(j)
  /\ UNCHANGED <<complete, withdrawn>>

GiveBack(j) ==
  /\ j \in working
  /\ status' = [status EXCEPT ![j] = IF @ = "RUNNING" THEN "PENDING" ELSE @]
  /\ Leaves(j)
  /\ UNCHANGED <<complete, withdrawn>>

(* Workers vanish and leave the rows as they are.                            *)
Vanish(S) ==
  /\ S \subseteq working
  /\ working' = working \ S
  /\ UNCHANGED <<status, complete, withdrawn>>

(* The requeue jobs give failed jobs another chance.                         *)
Retry(S) ==
  /\ \A j \in S : status[j] = "FAILED"
  /\ status' = [j \in Jobs |-> IF j \in S THEN "PENDING" ELSE status[j]]
  /\ UNCHANGED <<working, complete, withdrawn>>

(* An operator deletes files, or queues a job again whatever its status.     *)
Withdraw(j) ==
  /\ complete' = complete \ {j}
  /\ withdrawn' = withdrawn \cup {j}
  /\ UNCHANGED <<status, working>>

Requeue(j) ==
  /\ status' = [status EXCEPT ![j] = "PENDING"]
  /\ withdrawn' = IF j \in working THEN withdrawn ELSE withdrawn \ {j}
  /\ UNCHANGED <<working, complete>>

Next ==
  \/ \E j \in Jobs :
       \/ Request(j) \/ Gather(j) \/ Succeed(j) \/ Fail(j) \/ GiveBack(j)
       \/ Withdraw(j) \/ Requeue(j)
  \/ \E S \in SUBSET Jobs : Take(S) \/ Vanish(S) \/ Retry(S)

Spec == Init /\ [][Next]_vars

-----------------------------------------------------------------------------
(* What a reader of the queue may rely on: a DONE job has its files, but for   *)
(* those an operator deleted.                                                *)
DoneIsComplete == \A j \in Jobs : status[j] = "DONE" => j \in complete \cup withdrawn
=============================================================================
