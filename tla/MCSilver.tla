------------------------------ MODULE MCSilver ------------------------------
(* The instance of Silver that TLC checks: every job serves every disclosure   *)
(* and leads the incremental pass to it.  The schedules hold every pair of     *)
(* procedures but those of the incremental pass with anything else than the    *)
(* completion pass.                                                          *)
EXTENDS Silver, TLC

MCNeeds == [d \in Discs |-> Jobs]
MCLeads == [j \in Jobs |-> Discs]
MCSchedules ==
  {{"completion", "raw_to_silver", "recollect"},
   {"raw_to_silver", "rebuild", "replay"},
   {"completion", "rebuild"}, {"rebuild", "recollect"},
   {"completion", "replay"}, {"recollect", "replay"},
   {"incremental", "completion"}}

(* Bound of the run: no second worker is busy with a job that is DONE.         *)
OneWorker == \A j \in Jobs : status[j] = "DONE" => j \notin working

Symmetry == Permutations(Metas)
=============================================================================
