---------------------------- MODULE RateLimiter ----------------------------
(***************************************************************************)
(* The OpenDART quota table (api_quota_counter) and the transactions that   *)
(* DbRateLimiter runs on it: reserve, release, mark_external_daily_limit.   *)
(* Each transaction is one atomic operator: reserve takes its counter rows  *)
(* FOR UPDATE and then the global advisory lock, so two reservations of a   *)
(* key, and the sum-then-increment of the global window, are serialised.    *)
(*                                                                         *)
(* Every transaction works on a `now` its caller read BEFORE the locks were *)
(* granted: the parameter s (or r) below may lie behind the clock.          *)
(*                                                                         *)
(* Time is counted in seconds; a window is named by the number of its      *)
(* minute or its day.  The clock stops at MaxClock, a bound of the model.   *)
(***************************************************************************)
EXTENDS Integers, FiniteSets, Functions

CONSTANTS
  NumKeys,                (* len(api_keys); a key is its index in the pool    *)
  Threads,                (* the workers that share the limiter               *)
  DailyEmergencyLimit,    (* limits.daily_emergency_limit                     *)
  MinuteSafeLimit,        (* limits.minute_safe_limit, per key                *)
  MinuteGlobalSafeLimit,  (* limits.minute_global_safe_limit, all keys        *)
  SecondsPerMinute,       (* _GLOBAL_WINDOW_SECONDS, and a minute's length    *)
  SecondsPerDay,
  MaxClock                (* bound: the last second of the model              *)

ASSUME LimiterAssumption ==
  /\ NumKeys \in Nat \ {0}
  /\ IsFiniteSet(Threads)
  /\ DailyEmergencyLimit \in Nat \ {0}
  /\ MinuteSafeLimit \in Nat \ {0}
  /\ MinuteGlobalSafeLimit \in Nat \ {0}
  /\ SecondsPerMinute \in Nat \ {0}
  /\ SecondsPerDay \in Nat \ {0}
  /\ MaxClock \in Nat

VARIABLES
  clock,                (* datetime.now(KST)                                  *)
  daily_all,            (* count of dart:daily:key:K:all_api:D                *)
  daily_quota_counted,  (* count of dart:daily:key:K:quota_counted:D          *)
  minute_all,           (* count of dart:minute:key:K:all_api:M               *)
  minute_global_sec,    (* count of dart:secwin:global:all_api:S, 0 if no row *)
  daily_attempts,       (* count of dart:daily:global:attempts:D              *)
  (* What really happened, which no row of the table keeps (history only):  *)
  billed_day,           (* reservations of K on D by a counted API, not       *)
                        (* released: what DART charges to day D               *)
  billed_minute,        (* the same for K and minute M, every API             *)
  late_day,             (* threads whose release on D undid another day's     *)
  late_minute,          (* threads whose release in M undid another minute's  *)
  issued,               (* reservations committed in second S, whatever their   *)
                        (* now: the requests that leave for OpenDART          *)
  marked_020,           (* the <<K, D>> that mark_external_daily_limit closed *)
  reserved_after_020,   (* counted reservations of K on D after the mark      *)
  released_after_020    (* counted releases of K on D after the mark          *)

counters == <<daily_all, daily_quota_counted, minute_all, minute_global_sec,
              daily_attempts>>
history == <<billed_day, billed_minute, late_day, late_minute, issued,
             marked_020, reserved_after_020, released_after_020>>
limiterVars == <<clock, counters, history>>

-----------------------------------------------------------------------------
Keys == 0 .. NumKeys - 1
Api == {"list", "detail"}

Seconds == 0 .. MaxClock
MinuteOf(s) == s \div SecondsPerMinute
DayOf(s) == s \div SecondsPerDay
Minutes == 0 .. MinuteOf(MaxClock)
Days == 0 .. DayOf(MaxClock)

(* quota_policy_for: only "list" is free of the daily quota.                *)
DailyAndMinute(api) == api # "list"

(* _global_per_second_safe_limit                                            *)
PerSecondSafeLimit ==
  IF MinuteGlobalSafeLimit \div SecondsPerMinute > 1
  THEN MinuteGlobalSafeLimit \div SecondsPerMinute ELSE 1

(* The sum of f over the 60 one-second buckets that end with second s.      *)
WindowTotal(f, s) ==
  SumFunctionOnSet(f, {b \in Seconds : s - SecondsPerMinute < b /\ b <= s})

(* Mutants of RateLimitExceeded: a counter blocks one call too late; the      *)
(* global window is not checked.                                            *)
RateLimitExceeded_OffByOne(api, k, s) ==
  IF minute_all[k][MinuteOf(s)] > MinuteSafeLimit
  THEN "minute_all"
  ELSE IF DailyAndMinute(api) /\ daily_quota_counted[k][DayOf(s)] > DailyEmergencyLimit
  THEN "daily_quota_counted"
  ELSE "none"

RateLimitExceeded_NoWindow(api, k, s) ==
  IF minute_all[k][MinuteOf(s)] >= MinuteSafeLimit
  THEN "minute_all"
  ELSE IF DailyAndMinute(api) /\ daily_quota_counted[k][DayOf(s)] >= DailyEmergencyLimit
  THEN "daily_quota_counted"
  ELSE "none"

(* _check_counters, then _check_global_minute_sliding: the quota_type of the *)
(* RateLimitExceeded that reserve raises, "none" when every check passes.    *)
(* The daily_all counter has no safe limit and never blocks.                *)
RateLimitExceeded(api, k, s) ==
  IF minute_all[k][MinuteOf(s)] >= MinuteSafeLimit
  THEN "minute_all"
  ELSE IF DailyAndMinute(api) /\ daily_quota_counted[k][DayOf(s)] >= DailyEmergencyLimit
  THEN "daily_quota_counted"
  ELSE IF \/ WindowTotal(minute_global_sec, s) >= MinuteGlobalSafeLimit
          \/ minute_global_sec[s] >= PerSecondSafeLimit
  THEN "minute_global"
  ELSE "none"

(* A bucket that _increment_global_minute_sliding deletes at second s: the   *)
(* one that just left the window and, once a minute, every older one.        *)
Dropped(b, s) ==
  \/ b = s - SecondsPerMinute
  \/ s % SecondsPerMinute = 0 /\ b + 1 < s - 2 * SecondsPerMinute

Plus1(f, k, w) == [f EXCEPT ![k][w] = @ + 1]
Minus1(f, k, w) == [f EXCEPT ![k][w] = IF @ > 0 THEN @ - 1 ELSE 0]

(* The committing branch of reserve at time s: _increment_counters and       *)
(* _increment_global_minute_sliding.                                        *)
ReserveCounters(api, k, s) ==
  /\ daily_all' = Plus1(daily_all, k, DayOf(s))
  /\ minute_all' = Plus1(minute_all, k, MinuteOf(s))
  /\ daily_quota_counted' = IF DailyAndMinute(api)
                            THEN Plus1(daily_quota_counted, k, DayOf(s))
                            ELSE daily_quota_counted
  /\ minute_global_sec' = [b \in Seconds |->
                             IF Dropped(b, s) THEN 0
                             ELSE IF b = s THEN minute_global_sec[b] + 1
                             ELSE minute_global_sec[b]]
  /\ daily_attempts' = [daily_attempts EXCEPT ![DayOf(s)] = @ + 1]

ReserveHistory(api, k, s) ==
  /\ billed_minute' = Plus1(billed_minute, k, MinuteOf(s))
  /\ billed_day' = IF DailyAndMinute(api) THEN Plus1(billed_day, k, DayOf(s))
                                          ELSE billed_day
  /\ reserved_after_020' = IF DailyAndMinute(api) /\ <<k, DayOf(s)>> \in marked_020
                           THEN Plus1(reserved_after_020, k, DayOf(s))
                           ELSE reserved_after_020
  /\ issued' = [issued EXCEPT ![clock] = @ + 1]
  /\ UNCHANGED <<late_day, late_minute, marked_020, released_after_020>>

Reserve(api, k, s) ==
  /\ RateLimitExceeded(api, k, s) = "none"
  /\ ReserveCounters(api, k, s)
  /\ ReserveHistory(api, k, s)

(* Mutant of ReleaseCounters: quota_policy_for is not consulted.              *)
ReleaseCounters_EveryApi(api, k, r) ==
  /\ daily_all' = Minus1(daily_all, k, DayOf(r))
  /\ minute_all' = Minus1(minute_all, k, MinuteOf(r))
  /\ daily_quota_counted' = Minus1(daily_quota_counted, k, DayOf(r))
  /\ UNCHANGED <<minute_global_sec, daily_attempts>>

(* release at time r.  The keys it decrements are those of r, whenever the   *)
(* reservation (made at time s by thread t) was counted.                    *)
ReleaseCounters(api, k, r) ==
  /\ daily_all' = Minus1(daily_all, k, DayOf(r))
  /\ minute_all' = Minus1(minute_all, k, MinuteOf(r))
  /\ daily_quota_counted' = IF DailyAndMinute(api)
                            THEN Minus1(daily_quota_counted, k, DayOf(r))
                            ELSE daily_quota_counted
  /\ UNCHANGED <<minute_global_sec, daily_attempts>>

AddTo(f, k, w, t) == [f EXCEPT ![k][w] = @ \cup {t}]

ReleaseHistory(t, api, k, r, s) ==
  /\ billed_minute' = [billed_minute EXCEPT ![k][MinuteOf(s)] = @ - 1]
  /\ late_minute' = IF MinuteOf(r) # MinuteOf(s)
                    THEN AddTo(late_minute, k, MinuteOf(r), t) ELSE late_minute
  /\ IF DailyAndMinute(api)
     THEN /\ billed_day' = [billed_day EXCEPT ![k][DayOf(s)] = @ - 1]
          /\ late_day' = IF DayOf(r) # DayOf(s)
                         THEN AddTo(late_day, k, DayOf(r), t) ELSE late_day
          /\ released_after_020' = IF <<k, DayOf(r)>> \in marked_020
                                   THEN Plus1(released_after_020, k, DayOf(r))
                                   ELSE released_after_020
     ELSE UNCHANGED <<billed_day, late_day, released_after_020>>
  /\ UNCHANGED <<issued, marked_020, reserved_after_020>>

Release(t, api, k, r, s) ==
  /\ ReleaseCounters(api, k, r)
  /\ ReleaseHistory(t, api, k, r, s)

(* Mutant of RaiseToLimit: ON CONFLICT DO NOTHING.                            *)
RaiseToLimit_DoNothing(f, k, d) == f

(* mark_external_daily_limit at time r: GREATEST(count, emergency limit).    *)
RaiseToLimit(f, k, d) ==
  [f EXCEPT ![k][d] = IF @ > DailyEmergencyLimit THEN @ ELSE DailyEmergencyLimit]

MarkExternalDailyLimit(api, k, r) ==
  /\ daily_all' = RaiseToLimit(daily_all, k, DayOf(r))
  /\ IF DailyAndMinute(api)
     THEN /\ daily_quota_counted' = RaiseToLimit(daily_quota_counted, k, DayOf(r))
          /\ marked_020' = marked_020 \cup {<<k, DayOf(r)>>}
     ELSE UNCHANGED <<daily_quota_counted, marked_020>>
  /\ UNCHANGED <<minute_all, minute_global_sec, daily_attempts, billed_day,
                 billed_minute, late_day, late_minute, issued,
                 reserved_after_020, released_after_020>>

(* retry_after_seconds: the second (one, as a set) at which a thread that met *)
(* a minute limit at time n tries again.                                    *)
RetryTimes(quota_type, n) ==
  LET live == {b \in Seconds : /\ n - SecondsPerMinute < b /\ b <= n
                               /\ minute_global_sec[b] > 0}
      oldest == {b \in live : \A c \in live : b <= c}
  IN IF quota_type = "minute_all"
     THEN {(MinuteOf(n) + 1) * SecondsPerMinute}
     ELSE IF WindowTotal(minute_global_sec, n) >= MinuteGlobalSafeLimit
     THEN {b + SecondsPerMinute : b \in oldest}
     ELSE IF minute_global_sec[n] >= PerSecondSafeLimit
     THEN {n + 1}
     ELSE {n}

-----------------------------------------------------------------------------
LimiterInit ==
  /\ clock = 0
  /\ daily_all = [k \in Keys |-> [d \in Days |-> 0]]
  /\ daily_quota_counted = [k \in Keys |-> [d \in Days |-> 0]]
  /\ minute_all = [k \in Keys |-> [m \in Minutes |-> 0]]
  /\ minute_global_sec = [b \in Seconds |-> 0]
  /\ daily_attempts = [d \in Days |-> 0]
  /\ billed_day = [k \in Keys |-> [d \in Days |-> 0]]
  /\ billed_minute = [k \in Keys |-> [m \in Minutes |-> 0]]
  /\ late_day = [k \in Keys |-> [d \in Days |-> {}]]
  /\ late_minute = [k \in Keys |-> [m \in Minutes |-> {}]]
  /\ issued = [b \in Seconds |-> 0]
  /\ marked_020 = {}
  /\ reserved_after_020 = [k \in Keys |-> [d \in Days |-> 0]]
  /\ released_after_020 = [k \in Keys |-> [d \in Days |-> 0]]

Tick ==
  /\ clock < MaxClock
  /\ clock' = clock + 1

LimiterTypeOK ==
  /\ clock \in Seconds
  /\ daily_all \in [Keys -> [Days -> Nat]]
  /\ daily_quota_counted \in [Keys -> [Days -> Nat]]
  /\ minute_all \in [Keys -> [Minutes -> Nat]]
  /\ minute_global_sec \in [Seconds -> Nat]
  /\ daily_attempts \in [Days -> Nat]
  /\ billed_day \in [Keys -> [Days -> Int]]
  /\ billed_minute \in [Keys -> [Minutes -> Int]]
  /\ late_day \in [Keys -> [Days -> SUBSET Threads]]
  /\ late_minute \in [Keys -> [Minutes -> SUBSET Threads]]
  /\ issued \in [Seconds -> Nat]
  /\ marked_020 \in SUBSET (Keys \X Days)
  /\ reserved_after_020 \in [Keys -> [Days -> Nat]]
  /\ released_after_020 \in [Keys -> [Days -> Nat]]
=============================================================================
