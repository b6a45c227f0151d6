----------------------------- MODULE MCBackfill -----------------------------
(* The instance of Backfill that TLC checks: a calendar of short months.      *)
EXTENDS Backfill

MCMonthDays == <<3, 2, 3, 2, 3, 3, 2>>
MCFirstNight == <<5, 1>>
MCNoRange == <<>>
=============================================================================
