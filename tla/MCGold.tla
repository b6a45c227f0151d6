------------------------------- MODULE MCGold -------------------------------
(* The instance of Gold that TLC checks.                                     *)
EXTENDS Gold

MCReports == 1 .. 4
MCMaxContent == <<2, 1, 1, 1>>
=============================================================================
