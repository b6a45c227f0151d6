----------------------------- MODULE MCKeyPool -----------------------------
(* TLC instance of KeyPool.  Worker threads are interchangeable; no liveness  *)
(* property is checked on it, so the symmetry is sound.                      *)
EXTENDS KeyPool, TLC

Symmetry == Permutations(Threads)
=============================================================================
