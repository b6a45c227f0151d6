------------------------------ MODULE Backfill ------------------------------
(***************************************************************************)
(* The nightly backfill: from 20:00 to 23:50 it discovers the windows of the  *)
(* backfill range from the latest to the earliest, one month each, and keeps  *)
(* in run state how far it came (run_nightly_backfill, dates.py).            *)
(***************************************************************************)
EXTENDS Naturals, Sequences

CONSTANTS
  MonthDays,       (* the days of each month of the calendar                   *)
  FirstNight,      (* the date of the first night                              *)
  BackfillMonths,  (* DART_BACKFILL_MONTHS                                     *)
  ExplicitRange    (* DART_BACKFILL_START_DATE and _END_DATE, or <<>>          *)

VARIABLES
  today,      (* a date: month and day                                       *)
  status,     (* backfill_status                                              *)
  frontier,   (* backfill_nightly_frontier, or None                           *)
  pending,    (* the windows that the running backfill is still to do          *)
  processed,  (* the window that it has discovered and not yet recorded, or    *)
              (* None                                                        *)
  discovered  (* the days that the nightly runs have discovered                *)

vars == <<today, status, frontier, pending, processed, discovered>>

None == <<>>
Dates == {<<m, d>> : m \in 1 .. Len(MonthDays), d \in 1 .. 31}

-----------------------------------------------------------------------------
(* dates.py.  A month later is the same day, or the last one of that month.    *)
Before(a, b) == a[1] < b[1] \/ (a[1] = b[1] /\ a[2] < b[2])
Earlier(a, b) == IF Before(a, b) THEN a ELSE b
Lesser(m, n) == IF m < n THEN m ELSE n
AtMonth(m, d) == <<m, Lesser(d, MonthDays[m])>>
AddMonth(date) == AtMonth(date[1] + 1, date[2])
SubtractMonths(date, n) == AtMonth(date[1] - n, date[2])
DayBefore(date) ==
  IF date[2] > 1 THEN <<date[1], date[2] - 1>> ELSE <<date[1] - 1, MonthDays[date[1] - 1]>>

DateRangeWindows(start, end) ==
  LET from[cursor \in Dates] ==
        IF Before(end, cursor) THEN {}
        ELSE {[start |-> cursor, end |-> Earlier(DayBefore(AddMonth(cursor)), end)]}
             \cup from[AddMonth(cursor)]
  IN from[start]

BackfillWindows ==
  IF ExplicitRange # <<>> THEN DateRangeWindows(ExplicitRange[1], ExplicitRange[2])
  ELSE DateRangeWindows(SubtractMonths(today, BackfillMonths), today)

Days(w) == {date \in Dates : date[2] <= MonthDays[date[1]]
                             /\ ~Before(date, w.start) /\ ~Before(w.end, date)}

Latest(windows) == CHOOSE w \in windows : \A v \in windows : ~Before(w.start, v.start)

-----------------------------------------------------------------------------
(* run_backfill_discovery has come to its end.                               *)
DiscoveryCompletes ==
  /\ status = "NONE"
  /\ status' = "COMPLETED"
  /\ UNCHANGED <<today, frontier, pending, processed, discovered>>

StartNight ==
  /\ status = "COMPLETED"
  /\ pending = {} /\ processed = None
  /\ pending' = {w \in BackfillWindows : frontier # None => Before(w.end, frontier)}
  /\ UNCHANGED <<today, status, frontier, processed, discovered>>

(* _discover_window; what it stores may be there without the frontier.        *)
ProcessWindow ==
  /\ pending # {} /\ processed = None
  /\ processed' = Latest(pending)
  /\ pending' = pending \ {Latest(pending)}
  /\ discovered' = discovered \cup Days(Latest(pending))
  /\ UNCHANGED <<today, status, frontier>>

SaveFrontier ==
  /\ processed # None
  /\ frontier' = processed.start
  /\ processed' = None
  /\ UNCHANGED <<today, status, pending, discovered>>

(* 23:50, or the end of the process.                                         *)
StopNight ==
  /\ pending # {}
  /\ processed = None
  /\ pending' = {}
  /\ UNCHANGED <<today, status, frontier, processed, discovered>>

CrashNight ==
  /\ processed # None
  /\ pending' = {} /\ processed' = None
  /\ UNCHANGED <<today, status, frontier, discovered>>

NextDay ==
  /\ pending = {} /\ processed = None
  /\ today[1] < Len(MonthDays) - 1
  /\ today' = IF today[2] < MonthDays[today[1]] THEN <<today[1], today[2] + 1>>
              ELSE <<today[1] + 1, 1>>
  /\ UNCHANGED <<status, frontier, pending, processed, discovered>>

Init ==
  /\ today = FirstNight
  /\ status = "NONE"
  /\ frontier = None
  /\ pending = {} /\ processed = None
  /\ discovered = {}

Next ==
  \/ DiscoveryCompletes \/ StartNight \/ ProcessWindow \/ SaveFrontier
  \/ StopNight \/ CrashNight \/ NextDay

Spec == Init /\ [][Next]_vars

-----------------------------------------------------------------------------
(* workflows.py: the frontier is the start of the last window processed, and   *)
(* the next run goes on with what lies before it.  Then no day between the     *)
(* frontier and the latest day discovered is left out.                       *)
NightlyResumes ==
  frontier # None =>
    \A last \in discovered : Days([start |-> frontier, end |-> last]) \subseteq discovered
=============================================================================
