--------------------------- MODULE MCCollectJobs ---------------------------
(* The instances of CollectJobs that TLC checks.                             *)
EXTENDS CollectJobs, TLC

Symmetry == Permutations(Runs)
=============================================================================
