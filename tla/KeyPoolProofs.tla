--------------------------- MODULE KeyPoolProofs ---------------------------
(* Theorems about KeyPool for every pool size, thread set, limit and horizon. *)
EXTENDS KeyPool, FiniteSetTheorems, TLAPS

(* Window numbers are typed and grow with the clock.                          *)
LEMMA Windows ==
  ASSUME NEW s \in Seconds
  PROVE  MinuteOf(s) \in Minutes /\ DayOf(s) \in Days
<1>1. s \in Nat /\ MaxClock \in Nat /\ s <= MaxClock
  BY LimiterAssumption DEF Seconds
<1>2. ASSUME NEW n \in Nat \ {0}
      PROVE  s \div n \in 0 .. (MaxClock \div n)
  BY <1>1
<1>. QED
  BY <1>2, LimiterAssumption DEF MinuteOf, DayOf, Minutes, Days

LEMMA WindowsMonotone ==
  ASSUME NEW r \in Seconds, NEW s \in Seconds, s <= r
  PROVE  MinuteOf(s) <= MinuteOf(r) /\ DayOf(s) <= DayOf(r)
<1>1. r \in Nat /\ s \in Nat
  BY LimiterAssumption DEF Seconds
<1>2. ASSUME NEW n \in Nat \ {0}
      PROVE  s \div n <= r \div n
  BY <1>1
<1>. QED
  BY <1>2, LimiterAssumption DEF MinuteOf, DayOf

(* The round robin never leaves the pool.                                     *)
LEMMA CandidateInPool ==
  ASSUME NEW i \in Keys, NEW o \in Keys
  PROVE  Candidate(i, o) \in Keys
BY LimiterAssumption DEF Candidate, Keys

-----------------------------------------------------------------------------
(* The three transactions keep the types of the quota table.                  *)
LEMMA ReserveType ==
  ASSUME LimiterTypeOK, clock' = clock,
         NEW a \in Api, NEW k \in Keys, NEW s \in Seconds, Reserve(a, k, s)
  PROVE  LimiterTypeOK'
<1>1. MinuteOf(s) \in Minutes /\ DayOf(s) \in Days
  BY Windows
<1>2. ReserveCounters(a, k, s) /\ ReserveHistory(a, k, s)
  BY DEF Reserve
<1>3. /\ daily_all' \in [Keys -> [Days -> Nat]]
      /\ daily_quota_counted' \in [Keys -> [Days -> Nat]]
      /\ minute_all' \in [Keys -> [Minutes -> Nat]]
  BY <1>1, <1>2 DEF ReserveCounters, LimiterTypeOK, Plus1
<1>4. minute_global_sec' \in [Seconds -> Nat] /\ daily_attempts' \in [Days -> Nat]
  BY <1>1, <1>2 DEF ReserveCounters, LimiterTypeOK
<1>5. /\ billed_day' \in [Keys -> [Days -> Int]]
      /\ billed_minute' \in [Keys -> [Minutes -> Int]]
      /\ reserved_after_020' \in [Keys -> [Days -> Nat]]
      /\ issued' \in [Seconds -> Nat]
  BY <1>1, <1>2 DEF ReserveHistory, LimiterTypeOK, Plus1
<1>. QED
  BY <1>2, <1>3, <1>4, <1>5 DEF ReserveHistory, LimiterTypeOK

LEMMA ReleaseType ==
  ASSUME LimiterTypeOK, clock' = clock, NEW t \in Threads,
         NEW a \in Api, NEW k \in Keys, NEW r \in Seconds, NEW s \in Seconds,
         Release(t, a, k, r, s)
  PROVE  LimiterTypeOK'
<1>1. /\ MinuteOf(s) \in Minutes /\ DayOf(s) \in Days
      /\ MinuteOf(r) \in Minutes /\ DayOf(r) \in Days
  BY Windows
<1>2. ReleaseCounters(a, k, r) /\ ReleaseHistory(t, a, k, r, s)
  BY DEF Release
<1>3. /\ daily_all' \in [Keys -> [Days -> Nat]]
      /\ daily_quota_counted' \in [Keys -> [Days -> Nat]]
      /\ minute_all' \in [Keys -> [Minutes -> Nat]]
  BY <1>1, <1>2 DEF ReleaseCounters, LimiterTypeOK, Minus1
<1>4. /\ billed_minute' \in [Keys -> [Minutes -> Int]]
      /\ late_minute' \in [Keys -> [Minutes -> SUBSET Threads]]
  BY <1>1, <1>2 DEF ReleaseHistory, LimiterTypeOK, AddTo
<1>5. /\ billed_day' \in [Keys -> [Days -> Int]]
      /\ late_day' \in [Keys -> [Days -> SUBSET Threads]]
      /\ released_after_020' \in [Keys -> [Days -> Nat]]
  <2>1. CASE DailyAndMinute(a)
    <3>1. billed_day' = [billed_day EXCEPT ![k][DayOf(s)] = @ - 1]
      BY <1>2, <2>1 DEF ReleaseHistory
    <3>2. late_day' \in {AddTo(late_day, k, DayOf(r), t), late_day}
      BY <1>2, <2>1 DEF ReleaseHistory
    <3>3. released_after_020' \in {Plus1(released_after_020, k, DayOf(r)),
                                  released_after_020}
      BY <1>2, <2>1 DEF ReleaseHistory
    <3>4. billed_day' \in [Keys -> [Days -> Int]]
      BY <1>1, <3>1 DEF LimiterTypeOK
    <3>5. AddTo(late_day, k, DayOf(r), t) \in [Keys -> [Days -> SUBSET Threads]]
      BY <1>1 DEF LimiterTypeOK, AddTo
    <3>6. Plus1(released_after_020, k, DayOf(r)) \in [Keys -> [Days -> Nat]]
      BY <1>1 DEF LimiterTypeOK, Plus1
    <3>. QED
      BY <3>2, <3>3, <3>4, <3>5, <3>6 DEF LimiterTypeOK
  <2>2. CASE ~DailyAndMinute(a)
    BY <1>2, <2>2 DEF ReleaseHistory, LimiterTypeOK
  <2>. QED
    BY <2>1, <2>2
<1>. QED
  BY <1>2, <1>3, <1>4, <1>5 DEF ReleaseCounters, ReleaseHistory, LimiterTypeOK

LEMMA MarkType ==
  ASSUME LimiterTypeOK, clock' = clock,
         NEW a \in Api, NEW k \in Keys, NEW r \in Seconds,
         MarkExternalDailyLimit(a, k, r)
  PROVE  LimiterTypeOK'
<1>1. DayOf(r) \in Days
  BY Windows
<1>2. \A f \in [Keys -> [Days -> Nat]] :
        RaiseToLimit(f, k, DayOf(r)) \in [Keys -> [Days -> Nat]]
  <2> SUFFICES ASSUME NEW f \in [Keys -> [Days -> Nat]]
               PROVE  RaiseToLimit(f, k, DayOf(r)) \in [Keys -> [Days -> Nat]]
    OBVIOUS
  <2>1. (IF f[k][DayOf(r)] > DailyEmergencyLimit THEN f[k][DayOf(r)]
         ELSE DailyEmergencyLimit) \in Nat
    BY <1>1, LimiterAssumption
  <2>. QED
    BY <1>1, <2>1 DEF RaiseToLimit
<1>3. marked_020' \in SUBSET (Keys \X Days)
  BY <1>1 DEF MarkExternalDailyLimit, LimiterTypeOK
<1>4. /\ daily_all' \in [Keys -> [Days -> Nat]]
      /\ daily_quota_counted' \in [Keys -> [Days -> Nat]]
  BY <1>2 DEF MarkExternalDailyLimit, LimiterTypeOK
<1>. QED
  BY <1>3, <1>4 DEF MarkExternalDailyLimit, LimiterTypeOK

-----------------------------------------------------------------------------
(* The frames that the actions build are frames.                              *)
LEMMA FrameBuilders ==
  ASSUME frame \in [Threads -> Frame], NEW t \in Threads
  PROVE  /\ \A n \in 0 .. MaxCalls, how \in Result : Outside(n, how) \in Frame
         /\ \A label \in PC : InCall(t, label) \in Frame
         /\ \A label \in PC : WithKey(t, label) \in Frame
<1>1. frame[t] \in Frame /\ 0 \in Keys /\ 0 \in Seconds
  BY LimiterAssumption DEF Keys, Seconds
<1>2. \A n \in 0 .. MaxCalls, how \in Result : Outside(n, how) \in Frame
  BY <1>1 DEF Outside, Frame, PC, Api
<1>3. \A label \in PC : InCall(t, label) \in Frame
  BY <1>1 DEF InCall, Outside, Frame, Api, Result
<1>4. \A label \in PC : WithKey(t, label) \in Frame
  BY <1>1 DEF WithKey, InCall, Outside, Frame, Api, Result
<1>. QED
  BY <1>2, <1>3, <1>4

LEMMA WaitOrRaiseType ==
  ASSUME TypeOK, NEW t \in Threads, NEW q, NEW retry \in Frame, WaitOrRaise(t, q, retry)
  PROVE  frame' \in [Threads -> Frame]
<1>1. frame \in [Threads -> Frame] /\ frame[t] \in Frame /\ clock \in Nat
  BY LimiterAssumption DEF TypeOK, LimiterTypeOK, Seconds
<1>2. RetryTimes(q, clock) \subseteq Nat
  <2>1. \A b \in Seconds : b + SecondsPerMinute \in Nat
    BY LimiterAssumption DEF Seconds
  <2>2. (MinuteOf(clock) + 1) * SecondsPerMinute \in Nat
    BY LimiterAssumption, <1>1 DEF MinuteOf
  <2>. QED
    BY <2>1, <2>2, <1>1 DEF RetryTimes
<1>3. \A w \in Nat : [retry EXCEPT !.wake = w] \in Frame
  BY DEF Frame
<1>4. Outside(frame[t].calls, "daily_quota_counted") \in Frame
  BY <1>1, FrameBuilders DEF Frame, Result
<1>. QED
  BY <1>1, <1>2, <1>3, <1>4 DEF WaitOrRaise, Becomes, Leave

LEMMA TypeInit == Init => TypeOK
<1>1. /\ 0 \in Seconds /\ 0 \in Keys
  BY LimiterAssumption DEF Seconds, Keys
<1>2. Outside(0, "none") \in Frame
  BY <1>1, PoolAssumption DEF Outside, Frame, PC, Api, Result
<1>. QED
  BY <1>1, <1>2 DEF Init, LimiterInit, TypeOK, LimiterTypeOK

LEMMA TypeStep == TypeOK /\ [Next]_vars => TypeOK'
<1> SUFFICES ASSUME TypeOK, [Next]_vars
             PROVE  TypeOK'
  OBVIOUS
<1> USE DEF TypeOK
<1>1. ASSUME UNCHANGED <<limiterVars, next_index>>, frame' \in [Threads -> Frame]
      PROVE  TypeOK'
  BY <1>1 DEF limiterVars, counters, history, LimiterTypeOK
<1>2. CASE UNCHANGED vars
  BY <1>1, <1>2 DEF vars
<1>3. CASE ClockTick
  <2>1. clock' \in Seconds
    BY <1>3, LimiterAssumption DEF ClockTick, Tick, Seconds, LimiterTypeOK
  <2>. QED
    BY <1>3, <2>1 DEF ClockTick, counters, history, LimiterTypeOK
<1>4. ASSUME NEW t \in Threads, ThreadStep(t)
      PROVE  TypeOK'
  <2>0. /\ frame[t] \in Frame
        /\ clock \in Seconds
        /\ frame[t].now \in Seconds /\ frame[t].stamp \in Seconds
        /\ frame[t].key \in Keys /\ frame[t].api \in Api
        /\ frame[t].start_index \in Keys /\ frame[t].offset \in Keys
        /\ frame[t].calls \in 0 .. MaxCalls /\ frame[t].result \in Result
    BY DEF Frame, LimiterTypeOK
  <2>1. CASE \E a \in Api : Call(t, a)
    <3>1. PICK a \in Api : Call(t, a)
      BY <2>1
    <3>2. frame[t].calls + 1 \in 0 .. MaxCalls
      BY <3>1, <2>0, PoolAssumption DEF Call
    <3>3. Outside(frame[t].calls + 1, "none") \in Frame
      BY <3>2, FrameBuilders DEF Result
    <3>4. [Outside(frame[t].calls + 1, "none") EXCEPT !.pc = "claim", !.api = a] \in Frame
      BY <3>3 DEF Frame, PC
    <3>. QED
      BY <3>1, <3>4, <1>1 DEF Call, Becomes
  <2>2. CASE ClaimStartIndex(t)
    <3>1. next_index' \in Keys
      BY <2>2, LimiterAssumption DEF ClaimStartIndex, Keys
    <3>2. InCall(t, "reserve") \in Frame
      BY FrameBuilders DEF PC
    <3>3. \A o \in 0 .. NumKeys - 1 :
            [InCall(t, "reserve") EXCEPT !.start_index = next_index, !.offset = o,
                                         !.now = clock] \in Frame
      BY <3>2, <2>0 DEF Frame, Keys
    <3>4. frame' \in [Threads -> Frame]
      BY <2>2, <3>3 DEF ClaimStartIndex, Becomes
    <3>. QED
      BY <2>2, <3>1, <3>4 DEF ClaimStartIndex, limiterVars, counters, history, LimiterTypeOK
  <2>3. CASE SelectKey(t)
    <3>1. [frame[t] EXCEPT !.pc = "reserve", !.now = clock] \in Frame
      BY <2>0 DEF Frame, PC
    <3>. QED
      BY <2>3, <3>1, <1>1 DEF SelectKey, Becomes
  <2>4. CASE ReserveKey(t)
    <3> DEFINE k == Candidate(frame[t].start_index, frame[t].offset)
    <3>1. k \in Keys
      BY <2>0, CandidateInPool
    <3>2. LimiterTypeOK'
      BY <2>0, <2>4, <3>1, ReserveType DEF ReserveKey
    <3>3. InCall(t, "invoke") \in Frame
      BY FrameBuilders DEF PC
    <3>4. [InCall(t, "invoke") EXCEPT !.key = k, !.attempts = 1, !.tried = @ \cup {k},
                                      !.stamp = frame[t].now] \in Frame
      BY <3>1, <3>3, <2>0 DEF Frame
    <3>. QED
      BY <2>4, <3>2, <3>4 DEF ReserveKey, Becomes
  <2>5. CASE ReserveKeyLimited(t)
    <3>1. InCall(t, "claim") \in Frame /\ InCall(t, "select") \in Frame
      BY FrameBuilders DEF PC
    <3>2. \A o \in 0 .. NumKeys - 1 :
            [InCall(t, "select") EXCEPT !.start_index = frame[t].start_index,
                                        !.offset = o] \in Frame
      BY <3>1, <2>0 DEF Frame, Keys
    <3>3. frame' \in [Threads -> Frame]
      BY <2>5, <3>1, <3>2, WaitOrRaiseType DEF ReserveKeyLimited, Becomes
    <3>. QED
      BY <2>5, <3>3, <1>1 DEF ReserveKeyLimited
  <2>6. CASE Answer(t)
    <3>1. Outside(frame[t].calls, "answered") \in Frame
      BY <2>0, FrameBuilders DEF Result
    <3>. QED
      BY <2>6, <3>1, <1>1 DEF Answer, Leave, Becomes
  <2>7. CASE TransportFailure(t) \/ DailyLimitAnswer(t)
    <3>1. \A label \in PC : [frame[t] EXCEPT !.pc = label, !.now = clock] \in Frame
      BY <2>0 DEF Frame
    <3>. QED
      BY <2>7, <3>1, <1>1 DEF TransportFailure, DailyLimitAnswer, Fail, Becomes, PC
  <2>8. CASE ReleaseKey(t)
    <3>1. LimiterTypeOK'
      BY <2>0, <2>8, ReleaseType DEF ReleaseKey
    <3>2. /\ Outside(frame[t].calls, "TRANSPORT") \in Frame
          /\ WithKey(t, "reselect") \in Frame
      BY <2>0, FrameBuilders DEF PC, Result
    <3>. QED
      BY <2>8, <3>1, <3>2 DEF ReleaseKey, Leave, Becomes
  <2>9. CASE SelectSameKey(t)
    <3>1. WithKey(t, "rereserve") \in Frame
      BY FrameBuilders DEF PC
    <3>2. [WithKey(t, "rereserve") EXCEPT !.now = clock] \in Frame
      BY <2>0, <3>1 DEF Frame
    <3>. QED
      BY <2>9, <3>2, <1>1 DEF SelectSameKey, Becomes
  <2>10. CASE ReserveSameKey(t)
    <3>1. LimiterTypeOK'
      BY <2>0, <2>10, ReserveType DEF ReserveSameKey
    <3>2. WithKey(t, "invoke") \in Frame
      BY FrameBuilders DEF PC
    <3>3. WithKey(t, "invoke").attempts + 1 \in Nat
      BY <3>2 DEF Frame
    <3>4. [WithKey(t, "invoke") EXCEPT !.attempts = @ + 1, !.stamp = frame[t].now] \in Frame
      BY <2>0, <3>2, <3>3 DEF Frame
    <3>. QED
      BY <2>10, <3>1, <3>4 DEF ReserveSameKey, Becomes
  <2>11. CASE ReserveSameKeyLimited(t)
    <3>1. WithKey(t, "reselect") \in Frame
      BY FrameBuilders DEF PC
    <3>2. frame' \in [Threads -> Frame]
      BY <2>11, <3>1, WaitOrRaiseType DEF ReserveSameKeyLimited
    <3>. QED
      BY <2>11, <3>2, <1>1 DEF ReserveSameKeyLimited
  <2>12. CASE MarkKey(t)
    <3>1. LimiterTypeOK'
      BY <2>0, <2>12, MarkType DEF MarkKey
    <3>2. Outside(frame[t].calls, "020") \in Frame /\ InCall(t, "claim") \in Frame
      BY <2>0, FrameBuilders DEF PC, Result
    <3>3. [InCall(t, "claim") EXCEPT !.limited = @ \cup {frame[t].key}] \in Frame
      BY <2>0, <3>2 DEF Frame
    <3>. QED
      BY <2>12, <3>1, <3>2, <3>3 DEF MarkKey, Leave, Becomes
  <2>. QED
    BY <1>4, <2>1, <2>2, <2>3, <2>4, <2>5, <2>6, <2>7, <2>8, <2>9, <2>10, <2>11, <2>12
    DEF ThreadStep
<1>. QED
  BY <1>2, <1>3, <1>4 DEF Next

(* The quota table, its history and the threads keep their types.             *)
THEOREM TypeCorrect == Spec => []TypeOK
BY TypeInit, TypeStep, PTL DEF Spec

-----------------------------------------------------------------------------
(***************************************************************************)
(* The safety theorems of KeyPool, for every pool size, thread set, limit   *)
(* and horizon.  Each invariant is strengthened to an inductive one; the    *)
(* actions enter the proofs through two lemmas, Effect (what a step does to *)
(* the quota table) and FrameEffect (what it does to the thread's times).   *)
(***************************************************************************)

(* A step leaves the quota table and its history alone, or is exactly one of  *)
(* the three transactions, run at a time its thread read before.             *)
ReservedKey(t) ==
  IF frame[t].pc = "reserve"
  THEN Candidate(frame[t].start_index, frame[t].offset) ELSE frame[t].key

ReserveBy(t) ==
  /\ frame[t].pc \in {"reserve", "rereserve"}
  /\ Reserve(frame[t].api, ReservedKey(t), frame[t].now)
ReleaseBy(t) ==
  /\ frame[t].pc = "release"
  /\ Release(t, frame[t].api, frame[t].key, frame[t].now, frame[t].stamp)
MarkBy(t) ==
  MarkExternalDailyLimit(frame[t].api, frame[t].key, frame[t].now)

LEMMA Effect ==
  ASSUME TypeOK, [Next]_vars
  PROVE  \/ UNCHANGED <<counters, history>>
         \/ \E t \in Threads :
              ThreadStep(t) /\ (ReserveBy(t) \/ ReleaseBy(t) \/ MarkBy(t))
<1>1. CASE UNCHANGED vars
  BY <1>1 DEF vars, limiterVars
<1>2. CASE ClockTick
  BY <1>2 DEF ClockTick
<1>3. ASSUME NEW t \in Threads, ThreadStep(t)
      PROVE  \/ UNCHANGED <<counters, history>>
             \/ ReserveBy(t) \/ ReleaseBy(t) \/ MarkBy(t)
  <2>1. CASE ReserveKey(t)
    BY <2>1 DEF ReserveKey, ReserveBy, ReservedKey
  <2>2. CASE ReserveSameKey(t)
    BY <2>2 DEF ReserveSameKey, ReserveBy, ReservedKey
  <2>3. CASE ReleaseKey(t)
    BY <2>3 DEF ReleaseKey, ReleaseBy
  <2>4. CASE MarkKey(t)
    BY <2>4 DEF MarkKey, MarkBy
  <2>5. CASE UNCHANGED limiterVars
    BY <2>5 DEF limiterVars
  <2>. QED
    BY <1>3, <2>1, <2>2, <2>3, <2>4, <2>5
    DEF ThreadStep, Call, ClaimStartIndex, SelectKey, ReserveKeyLimited, Answer,
        TransportFailure, DailyLimitAnswer, Fail, SelectSameKey, ReserveSameKeyLimited
<1>. QED
  BY <1>1, <1>2, <1>3 DEF Next

(* What the frame of a thread holds, at the types the lemmas below need.      *)
LEMMA FrameTypes ==
  ASSUME TypeOK, NEW t \in Threads
  PROVE  /\ frame[t].api \in Api
         /\ frame[t].key \in Keys /\ ReservedKey(t) \in Keys
         /\ frame[t].now \in Seconds /\ frame[t].stamp \in Seconds
         /\ MinuteOf(frame[t].now) \in Minutes /\ DayOf(frame[t].now) \in Days
         /\ MinuteOf(frame[t].stamp) \in Minutes /\ DayOf(frame[t].stamp) \in Days
<1>1. frame[t] \in Frame
  BY DEF TypeOK
<1>2. ReservedKey(t) \in Keys
  BY <1>1, CandidateInPool DEF ReservedKey, Frame
<1>. QED
  BY <1>1, <1>2, Windows DEF Frame

-----------------------------------------------------------------------------
LEMMA BoundedInit == Init => CountersBounded
BY LimiterAssumption, Windows DEF Init, LimiterInit, CountersBounded

LEMMA BoundedStep == TypeOK /\ CountersBounded /\ [Next]_vars => CountersBounded'
<1> SUFFICES ASSUME TypeOK, CountersBounded, [Next]_vars
             PROVE  CountersBounded'
  OBVIOUS
<1>0. /\ minute_all \in [Keys -> [Minutes -> Nat]]
      /\ daily_quota_counted \in [Keys -> [Days -> Nat]]
      /\ MinuteSafeLimit \in Nat /\ DailyEmergencyLimit \in Nat
  BY LimiterAssumption DEF TypeOK, LimiterTypeOK
<1>1. CASE UNCHANGED <<counters, history>>
  BY <1>1 DEF CountersBounded, counters
<1>2. ASSUME NEW t \in Threads, ReserveBy(t)
      PROVE  CountersBounded'
  <2> DEFINE a == frame[t].api
             k == ReservedKey(t)
             s == frame[t].now
  <2>1. k \in Keys /\ MinuteOf(s) \in Minutes /\ DayOf(s) \in Days
    BY FrameTypes
  <2>2. RateLimitExceeded(a, k, s) = "none" /\ ReserveCounters(a, k, s)
    BY <1>2 DEF ReserveBy, Reserve
  <2> HIDE DEF a, k, s
  <2>3. /\ minute_all[k][MinuteOf(s)] < MinuteSafeLimit
        /\ DailyAndMinute(a) => daily_quota_counted[k][DayOf(s)] < DailyEmergencyLimit
    BY <2>1, <2>2, <1>0 DEF RateLimitExceeded
  <2>4. \A j \in Keys, m \in Minutes : minute_all'[j][m] <= MinuteSafeLimit
    BY <2>1, <2>2, <2>3, <1>0 DEF ReserveCounters, Plus1, CountersBounded
  <2>5. \A j \in Keys, d \in Days : daily_quota_counted'[j][d] <= DailyEmergencyLimit
    BY <2>1, <2>2, <2>3, <1>0 DEF ReserveCounters, Plus1, CountersBounded
  <2>. QED
    BY <2>4, <2>5 DEF CountersBounded
<1>3. ASSUME NEW t \in Threads, ReleaseBy(t)
      PROVE  CountersBounded'
  <2> DEFINE k == frame[t].key
             r == frame[t].now
  <2>1. k \in Keys /\ MinuteOf(r) \in Minutes /\ DayOf(r) \in Days
    BY FrameTypes
  <2>2. ReleaseCounters(frame[t].api, k, r)
    BY <1>3 DEF ReleaseBy, Release
  <2> HIDE DEF k, r
  <2>3. \A j \in Keys, m \in Minutes : minute_all'[j][m] <= MinuteSafeLimit
    BY <2>1, <2>2, <1>0 DEF ReleaseCounters, Minus1, CountersBounded
  <2>4. \A j \in Keys, d \in Days : daily_quota_counted'[j][d] <= DailyEmergencyLimit
    BY <2>1, <2>2, <1>0 DEF ReleaseCounters, Minus1, CountersBounded
  <2>. QED
    BY <2>3, <2>4 DEF CountersBounded
<1>4. ASSUME NEW t \in Threads, MarkBy(t)
      PROVE  CountersBounded'
  <2> DEFINE k == frame[t].key
             r == frame[t].now
  <2>1. k \in Keys /\ DayOf(r) \in Days
    BY FrameTypes
  <2>2. MarkExternalDailyLimit(frame[t].api, k, r)
    BY <1>4 DEF MarkBy
  <2> HIDE DEF k, r
  <2>3. \A j \in Keys, d \in Days : daily_quota_counted'[j][d] <= DailyEmergencyLimit
    BY <2>1, <2>2, <1>0, SMTT(30) DEF MarkExternalDailyLimit, RaiseToLimit, CountersBounded
  <2>. QED
    BY <2>2, <2>3 DEF MarkExternalDailyLimit, CountersBounded
<1>. QED
  BY <1>1, <1>2, <1>3, <1>4, Effect

(* No interleaving of the workers takes a counter of the quota table past the *)
(* limit that reserve checks.                                               *)
THEOREM BoundedCorrect == Spec => []CountersBounded
BY TypeInit, TypeStep, BoundedInit, BoundedStep, PTL DEF Spec

-----------------------------------------------------------------------------
(* Why a reuse after a 020 needs a release: the mark puts the counter at its   *)
(* limit, and from there on only reservations raise it and releases lower it. *)
Accounted(k, d) ==
  /\ <<k, d>> \in marked_020 =>
       daily_quota_counted[k][d] + released_after_020[k][d]
         >= DailyEmergencyLimit + reserved_after_020[k][d]
  /\ <<k, d>> \notin marked_020 =>
       reserved_after_020[k][d] = 0 /\ released_after_020[k][d] = 0

MarkAccounted == \A k \in Keys, d \in Days : Accounted(k, d)

LEMMA MarkInit == Init => MarkAccounted
BY DEF Init, LimiterInit, MarkAccounted, Accounted

LEMMA MarkStep == TypeOK /\ MarkAccounted /\ [Next]_vars => MarkAccounted'
<1> SUFFICES ASSUME TypeOK, MarkAccounted, [Next]_vars,
                    NEW k \in Keys, NEW d \in Days
             PROVE  Accounted(k, d)'
  BY DEF MarkAccounted
<1>0. /\ daily_quota_counted \in [Keys -> [Days -> Nat]]
      /\ reserved_after_020 \in [Keys -> [Days -> Nat]]
      /\ released_after_020 \in [Keys -> [Days -> Nat]]
      /\ DailyEmergencyLimit \in Nat
  BY LimiterAssumption DEF TypeOK, LimiterTypeOK
<1>. Accounted(k, d)
  BY DEF MarkAccounted
<1>1. CASE UNCHANGED <<counters, history>>
  BY <1>1 DEF Accounted, counters, history
<1>2. ASSUME NEW t \in Threads, ReserveBy(t)
      PROVE  Accounted(k, d)'
  <2> DEFINE j == ReservedKey(t)
             e == DayOf(frame[t].now)
  <2>1. j \in Keys /\ e \in Days
    BY FrameTypes
  <2>2. /\ daily_quota_counted' = daily_quota_counted
           \/ daily_quota_counted' = Plus1(daily_quota_counted, j, e)
        /\ reserved_after_020' = IF /\ daily_quota_counted' # daily_quota_counted
                                    /\ <<j, e>> \in marked_020
                                 THEN Plus1(reserved_after_020, j, e)
                                 ELSE reserved_after_020
        /\ UNCHANGED <<marked_020, released_after_020>>
    <3>1. Plus1(daily_quota_counted, j, e) # daily_quota_counted
      <4>1. Plus1(daily_quota_counted, j, e)[j][e] = daily_quota_counted[j][e] + 1
        BY <2>1, <1>0 DEF Plus1
      <4>. QED
        BY <4>1, <2>1, <1>0
    <3>. QED
      BY <1>2, <3>1 DEF ReserveBy, Reserve, ReserveCounters, ReserveHistory
  <2> HIDE DEF j, e
  <2>3. CASE j = k /\ e = d
    BY <2>1, <2>2, <2>3, <1>0 DEF Accounted, Plus1
  <2>4. CASE ~(j = k /\ e = d)
    BY <2>1, <2>2, <2>4, <1>0 DEF Accounted, Plus1
  <2>. QED
    BY <2>3, <2>4
<1>3. ASSUME NEW t \in Threads, ReleaseBy(t)
      PROVE  Accounted(k, d)'
  <2> DEFINE j == frame[t].key
             e == DayOf(frame[t].now)
  <2>1. j \in Keys /\ e \in Days
    BY FrameTypes
  <2>2. /\ UNCHANGED <<marked_020, reserved_after_020>>
        /\ \/ UNCHANGED <<daily_quota_counted, released_after_020>>
           \/ /\ daily_quota_counted' = Minus1(daily_quota_counted, j, e)
              /\ released_after_020' = IF <<j, e>> \in marked_020
                                       THEN Plus1(released_after_020, j, e)
                                       ELSE released_after_020
    BY <1>3 DEF ReleaseBy, Release, ReleaseCounters, ReleaseHistory
  <2> HIDE DEF j, e
  <2>3. CASE j = k /\ e = d
    BY <2>1, <2>2, <2>3, <1>0 DEF Accounted, Plus1, Minus1
  <2>4. CASE ~(j = k /\ e = d)
    <3>1. /\ daily_quota_counted'[k][d] = daily_quota_counted[k][d]
          /\ released_after_020'[k][d] = released_after_020[k][d]
      <4>1. Plus1(released_after_020, j, e)[k][d] = released_after_020[k][d]
        BY <2>1, <2>4, <1>0 DEF Plus1
      <4>2. Minus1(daily_quota_counted, j, e)[k][d] = daily_quota_counted[k][d]
        BY <2>1, <2>4, <1>0 DEF Minus1
      <4>. QED
        BY <2>2, <4>1, <4>2
    <3>. QED
      BY <3>1, <2>2 DEF Accounted
  <2>. QED
    BY <2>3, <2>4
<1>4. ASSUME NEW t \in Threads, MarkBy(t)
      PROVE  Accounted(k, d)'
  <2> DEFINE j == frame[t].key
             e == DayOf(frame[t].now)
  <2>1. j \in Keys /\ e \in Days
    BY FrameTypes
  <2>2. /\ UNCHANGED <<reserved_after_020, released_after_020>>
        /\ \/ UNCHANGED <<daily_quota_counted, marked_020>>
           \/ /\ daily_quota_counted' = RaiseToLimit(daily_quota_counted, j, e)
              /\ marked_020' = marked_020 \cup {<<j, e>>}
    BY <1>4 DEF MarkBy, MarkExternalDailyLimit
  <2> HIDE DEF j, e
  <2>3. CASE j = k /\ e = d
    BY <2>1, <2>2, <2>3, <1>0 DEF Accounted, RaiseToLimit
  <2>4. CASE ~(j = k /\ e = d)
    <3>1. daily_quota_counted'[k][d] = daily_quota_counted[k][d]
      BY <2>1, <2>2, <2>4, <1>0 DEF RaiseToLimit
    <3>2. <<k, d>> \in marked_020' <=> <<k, d>> \in marked_020
      BY <2>2, <2>4
    <3>. QED
      BY <3>1, <3>2, <2>2 DEF Accounted
  <2>. QED
    BY <2>3, <2>4
<1>. QED
  BY <1>1, <1>2, <1>3, <1>4, Effect

LEMMA MarkAccountedImplies ==
  TypeOK /\ CountersBounded /\ MarkAccounted => ReuseBoundedByReleases
<1> SUFFICES ASSUME TypeOK, CountersBounded, MarkAccounted, NEW k \in Keys, NEW d \in Days
             PROVE  reserved_after_020[k][d] <= released_after_020[k][d]
  BY DEF ReuseBoundedByReleases
<1>1. /\ daily_quota_counted[k][d] \in Nat
      /\ reserved_after_020[k][d] \in Nat
      /\ released_after_020[k][d] \in Nat
      /\ DailyEmergencyLimit \in Nat
  BY LimiterAssumption DEF TypeOK, LimiterTypeOK
<1>2. daily_quota_counted[k][d] <= DailyEmergencyLimit
  BY DEF CountersBounded
<1>3. Accounted(k, d)
  BY DEF MarkAccounted
<1>. QED
  BY <1>1, <1>2, <1>3 DEF Accounted

(* A key that answered 020 is reserved again that day at most once per later   *)
(* release of it: the only leak of mark_external_daily_limit.                *)
THEOREM ReuseCorrect == Spec => []ReuseBoundedByReleases
BY TypeInit, TypeStep, BoundedInit, BoundedStep, MarkInit, MarkStep,
   MarkAccountedImplies, PTL DEF Spec
(***************************************************************************)
(* What OpenDART really charges against what the quota table counts, for    *)
(* every pool size, thread set, limit and horizon.  A release decrements    *)
(* the window of its own now; the proof bounds how often that window is not *)
(* the reservation's by following, for each thread, the latest time it can  *)
(* still release from (Horizon), which never goes back.                     *)
(***************************************************************************)

-----------------------------------------------------------------------------
(* The latest time that can become the stamp of the thread's next release.    *)
(* It never goes back, which is why a thread releases into a window that is   *)
(* not its reservation's at most once per window.                           *)
Horizon(t) ==
  IF frame[t].pc \in {"reserve", "rereserve"} THEN frame[t].now
  ELSE IF frame[t].pc \in {"invoke", "release"} THEN frame[t].stamp
  ELSE clock

Times ==
  \A t \in Threads :
    /\ frame[t].now <= clock
    /\ frame[t].stamp <= clock
    /\ frame[t].pc = "release" => frame[t].stamp <= frame[t].now

LateOnce ==
  \A t \in Threads, k \in Keys :
    /\ \A m \in Minutes : t \in late_minute[k][m] => m <= MinuteOf(Horizon(t))
    /\ \A d \in Days : t \in late_day[k][d] => d <= DayOf(Horizon(t))

LEMMA HorizonType ==
  ASSUME TypeOK, NEW t \in Threads
  PROVE  Horizon(t) \in Seconds
BY FrameTypes DEF Horizon, TypeOK, LimiterTypeOK

(* The ways in which a thread's times move from its frame to a new frame f.    *)
TimesMove(t, f) ==
  \/ /\ f.pc \notin {"reserve", "rereserve", "invoke", "release"}
     /\ f.now \in {0, clock}
     /\ f.stamp \in {0, frame[t].stamp}
  \/ /\ frame[t].pc \in {"claim", "select", "reselect"}
     /\ f.pc \in {"reserve", "rereserve"}
     /\ f.now = clock
     /\ f.stamp \in {0, frame[t].stamp}
  \/ /\ frame[t].pc \in {"reserve", "rereserve"}
     /\ f.pc = "invoke"
     /\ f.now = 0
     /\ f.stamp = frame[t].now
  \/ /\ frame[t].pc = "invoke"
     /\ f.pc = "release"
     /\ f.now = clock
     /\ f.stamp = frame[t].stamp

LEMMA BuilderTimes ==
  ASSUME TypeOK, NEW t \in Threads
  PROVE  /\ \A n \in 0 .. MaxCalls, how \in Result :
              Outside(n, how).pc = "idle" /\ TimesMove(t, Outside(n, how))
         /\ \A label \in PC : /\ InCall(t, label).pc = label
                              /\ InCall(t, label).now = 0
                              /\ InCall(t, label).stamp = 0
         /\ \A label \in PC : /\ WithKey(t, label).pc = label
                              /\ WithKey(t, label).now = 0
                              /\ WithKey(t, label).stamp = 0
<1>1. frame[t].calls \in 0 .. MaxCalls
  BY DEF TypeOK, Frame
<1>2. \A n \in 0 .. MaxCalls, how \in Result :
        Outside(n, how).pc = "idle" /\ TimesMove(t, Outside(n, how))
  BY DEF Outside, TimesMove
<1>3. \A label \in PC : /\ InCall(t, label).pc = label
                        /\ InCall(t, label).now = 0
                        /\ InCall(t, label).stamp = 0
  BY DEF InCall, Outside
<1>4. \A label \in PC : InCall(t, label) \in Frame
  BY FrameBuilders DEF TypeOK
<1>5. \A label \in PC : /\ WithKey(t, label).pc = label
                        /\ WithKey(t, label).now = 0
                        /\ WithKey(t, label).stamp = 0
  BY <1>3, <1>4 DEF WithKey, Frame
<1>. QED
  BY <1>2, <1>3, <1>5

(* What a step of thread t does to the times it holds.                        *)
LEMMA FrameEffect ==
  ASSUME TypeOK, NEW t \in Threads, ThreadStep(t)
  PROVE  /\ clock' = clock
         /\ \A u \in Threads \ {t} : frame'[u] = frame[u]
         /\ TimesMove(t, frame'[t])
<1> DEFINE Goal == /\ clock' = clock
                   /\ \A u \in Threads \ {t} : frame'[u] = frame[u]
                   /\ TimesMove(t, frame'[t])
<1>0. /\ frame \in [Threads -> Frame] /\ frame[t] \in Frame
      /\ frame[t].calls \in 0 .. MaxCalls
  BY DEF TypeOK, Frame
<1>1. ASSUME NEW f, Becomes(t, f), clock' = clock, TimesMove(t, f)
      PROVE  Goal
  <2>1. frame'[t] = f /\ \A u \in Threads \ {t} : frame'[u] = frame[u]
    BY <1>0, <1>1 DEF Becomes
  <2>. QED
    BY <1>1, <2>1
<1>2. ASSUME NEW how \in Result, Leave(t, how), clock' = clock
      PROVE  Goal
  BY <1>0, <1>1, <1>2, BuilderTimes DEF Leave
<1>3. \A label \in PC : InCall(t, label) \in Frame /\ WithKey(t, label) \in Frame
  BY FrameBuilders DEF TypeOK
<1>4. ASSUME NEW label \in {"claim", "select", "reselect"}, NEW f \in Frame,
             f.pc = label, f.now = 0, f.stamp = 0
      PROVE  TimesMove(t, f)
  BY <1>4 DEF TimesMove
<1>5. ASSUME NEW q, NEW retry \in Frame, retry.pc \in {"claim", "reselect"},
             retry.now = 0, retry.stamp = 0, WaitOrRaise(t, q, retry), clock' = clock
      PROVE  Goal
  <2>1. CASE q \in {"minute_all", "minute_global"}
    <3>1. PICK w : Becomes(t, [retry EXCEPT !.wake = w])
      BY <1>5, <2>1 DEF WaitOrRaise
    <3>2. TimesMove(t, [retry EXCEPT !.wake = w])
      BY <1>5 DEF TimesMove, Frame
    <3>. QED
      BY <1>1, <1>5, <3>1, <3>2
  <2>2. CASE q \notin {"minute_all", "minute_global"}
    BY <1>2, <1>5, <2>2 DEF WaitOrRaise, Result
  <2>. QED
    BY <2>1, <2>2
<1> SUFFICES Goal
  OBVIOUS
<1> HIDE DEF Goal
<1>6. CASE \E a \in Api : Call(t, a)
  <2>1. PICK a \in Api : Call(t, a)
    BY <1>6
  <2>2. TimesMove(t, [Outside(frame[t].calls + 1, "none") EXCEPT !.pc = "claim", !.api = a])
    BY DEF TimesMove, Outside
  <2>. QED
    BY <2>1, <2>2, <1>1 DEF Call, limiterVars
<1>7. CASE ClaimStartIndex(t)
  <2>1. InCall(t, "reserve") \in Frame /\ InCall(t, "reserve").stamp = 0
        /\ InCall(t, "reserve").pc = "reserve"
    BY <1>3, BuilderTimes DEF PC
  <2>2. \A o : TimesMove(t, [InCall(t, "reserve") EXCEPT !.start_index = next_index,
                                                         !.offset = o, !.now = clock])
    BY <1>7, <2>1 DEF ClaimStartIndex, TimesMove, Frame
  <2>. QED
    BY <1>7, <2>2, <1>1 DEF ClaimStartIndex, limiterVars
<1>8. CASE SelectKey(t)
  <2>1. TimesMove(t, [frame[t] EXCEPT !.pc = "reserve", !.now = clock])
    BY <1>0, <1>8 DEF SelectKey, TimesMove, Frame
  <2>. QED
    BY <1>8, <2>1, <1>1 DEF SelectKey, limiterVars
<1>9. CASE ReserveKey(t)
  <2>1. InCall(t, "invoke") \in Frame /\ InCall(t, "invoke").now = 0
        /\ InCall(t, "invoke").pc = "invoke"
    BY <1>3, BuilderTimes DEF PC
  <2>2. \A k : TimesMove(t, [InCall(t, "invoke") EXCEPT !.key = k, !.attempts = 1,
                               !.tried = @ \cup {k}, !.stamp = frame[t].now])
    BY <1>9, <2>1 DEF ReserveKey, TimesMove, Frame
  <2>. QED
    BY <1>9, <2>2, <1>1 DEF ReserveKey
<1>10. CASE ReserveKeyLimited(t)
  <2>1. /\ InCall(t, "claim") \in Frame /\ InCall(t, "claim").now = 0
        /\ InCall(t, "claim").pc = "claim" /\ InCall(t, "claim").stamp = 0
        /\ InCall(t, "select") \in Frame /\ InCall(t, "select").now = 0
        /\ InCall(t, "select").pc = "select" /\ InCall(t, "select").stamp = 0
    BY <1>3, BuilderTimes DEF PC
  <2>2. \A i, o : TimesMove(t, [InCall(t, "select") EXCEPT !.start_index = i, !.offset = o])
    BY <2>1 DEF TimesMove, Frame
  <2>3. clock' = clock
    BY <1>10 DEF ReserveKeyLimited, limiterVars
  <2>. QED
    BY <1>10, <2>1, <2>2, <2>3, <1>1, <1>5 DEF ReserveKeyLimited
<1>11. CASE Answer(t)
  BY <1>11, <1>2 DEF Answer, Result, limiterVars
<1>12. CASE TransportFailure(t) \/ DailyLimitAnswer(t)
  <2>1. PICK label \in {"release", "mark"} : Fail(t, label)
    BY <1>12 DEF TransportFailure, DailyLimitAnswer
  <2>2. TimesMove(t, [frame[t] EXCEPT !.pc = label, !.now = clock])
    BY <1>0, <2>1 DEF Fail, TimesMove, Frame
  <2>. QED
    BY <2>1, <2>2, <1>1 DEF Fail, limiterVars
<1>13. CASE ReleaseKey(t)
  <2>1. TimesMove(t, WithKey(t, "reselect"))
    BY <1>3, <1>4, BuilderTimes DEF PC
  <2>. QED
    BY <1>13, <2>1, <1>1, <1>2 DEF ReleaseKey, Result
<1>14. CASE SelectSameKey(t)
  <2>1. WithKey(t, "rereserve") \in Frame /\ WithKey(t, "rereserve").stamp = 0
        /\ WithKey(t, "rereserve").pc = "rereserve"
    BY <1>3, BuilderTimes DEF PC
  <2>2. TimesMove(t, [WithKey(t, "rereserve") EXCEPT !.now = clock])
    BY <1>14, <2>1 DEF SelectSameKey, TimesMove, Frame
  <2>. QED
    BY <1>14, <2>2, <1>1 DEF SelectSameKey, limiterVars
<1>15. CASE ReserveSameKey(t)
  <2>1. WithKey(t, "invoke") \in Frame /\ WithKey(t, "invoke").now = 0
        /\ WithKey(t, "invoke").pc = "invoke"
    BY <1>3, BuilderTimes DEF PC
  <2>2. TimesMove(t, [WithKey(t, "invoke") EXCEPT !.attempts = @ + 1,
                                                  !.stamp = frame[t].now])
    BY <1>15, <2>1 DEF ReserveSameKey, TimesMove, Frame
  <2>. QED
    BY <1>15, <2>2, <1>1 DEF ReserveSameKey
<1>16. CASE ReserveSameKeyLimited(t)
  <2>1. /\ WithKey(t, "reselect") \in Frame /\ WithKey(t, "reselect").now = 0
        /\ WithKey(t, "reselect").pc = "reselect" /\ WithKey(t, "reselect").stamp = 0
    BY <1>3, BuilderTimes DEF PC
  <2>. QED
    BY <1>16, <2>1, <1>5 DEF ReserveSameKeyLimited, limiterVars
<1>17. CASE MarkKey(t)
  <2>1. /\ InCall(t, "claim") \in Frame /\ InCall(t, "claim").now = 0
        /\ InCall(t, "claim").pc = "claim" /\ InCall(t, "claim").stamp = 0
    BY <1>3, BuilderTimes DEF PC
  <2>2. \A l : TimesMove(t, [InCall(t, "claim") EXCEPT !.limited = @ \cup l])
    BY <2>1 DEF TimesMove, Frame
  <2>. QED
    BY <1>17, <2>2, <1>1, <1>2 DEF MarkKey, Result
<1>. QED
  BY <1>6, <1>7, <1>8, <1>9, <1>10, <1>11, <1>12, <1>13, <1>14, <1>15, <1>16, <1>17
  DEF ThreadStep

LEMMA TimesInit == Init => Times
BY DEF Init, LimiterInit, Outside, Times

LEMMA TimesStep == TypeOK /\ Times /\ [Next]_vars => Times'
<1> SUFFICES ASSUME TypeOK, Times, [Next]_vars
             PROVE  Times'
  OBVIOUS
<1>0. clock \in Nat /\ \A t \in Threads : frame[t].now \in Nat /\ frame[t].stamp \in Nat
  <2>1. Seconds \subseteq Nat
    BY LimiterAssumption DEF Seconds
  <2>. QED
    BY <2>1, FrameTypes DEF TypeOK, LimiterTypeOK
<1>1. CASE UNCHANGED vars
  BY <1>1 DEF vars, limiterVars, Times
<1>2. CASE ClockTick
  BY <1>0, <1>2 DEF ClockTick, Tick, Times
<1>3. ASSUME NEW t \in Threads, ThreadStep(t)
      PROVE  Times'
  BY <1>0, <1>3, FrameEffect DEF Times, TimesMove
<1>. QED
  BY <1>1, <1>2, <1>3 DEF Next

LEMMA HorizonGrows ==
  ASSUME TypeOK, Times, [Next]_vars, NEW u \in Threads
  PROVE  Horizon(u) <= Horizon(u)'
<1>0. clock \in Nat /\ \A t \in Threads : frame[t].now \in Nat /\ frame[t].stamp \in Nat
  <2>1. Seconds \subseteq Nat
    BY LimiterAssumption DEF Seconds
  <2>. QED
    BY <2>1, FrameTypes DEF TypeOK, LimiterTypeOK
<1>1. CASE UNCHANGED vars
  BY <1>0, <1>1 DEF vars, limiterVars, Horizon
<1>2. CASE ClockTick
  BY <1>0, <1>2 DEF ClockTick, Tick, Horizon
<1>3. ASSUME NEW t \in Threads, ThreadStep(t)
      PROVE  Horizon(u) <= Horizon(u)'
  <2>1. CASE u = t
    BY <1>0, <1>3, <2>1, FrameEffect DEF Times, TimesMove, Horizon
  <2>2. CASE u # t
    BY <1>0, <1>3, <2>2, FrameEffect DEF Horizon
  <2>. QED
    BY <2>1, <2>2
<1>. QED
  BY <1>1, <1>2, <1>3 DEF Next

LEMMA LateInit == Init => LateOnce
BY DEF Init, LimiterInit, LateOnce

LEMMA LateStep == TypeOK /\ Times /\ LateOnce /\ [Next]_vars => LateOnce'
<1> SUFFICES ASSUME TypeOK, Times, LateOnce, [Next]_vars,
                    NEW u \in Threads, NEW k \in Keys
             PROVE  /\ \A m \in Minutes : u \in late_minute'[k][m] => m <= MinuteOf(Horizon(u)')
                    /\ \A d \in Days : u \in late_day'[k][d] => d <= DayOf(Horizon(u)')
  BY DEF LateOnce
<1>0. /\ late_minute \in [Keys -> [Minutes -> SUBSET Threads]]
      /\ late_day \in [Keys -> [Days -> SUBSET Threads]]
  BY DEF TypeOK, LimiterTypeOK
<1>1. Horizon(u) \in Seconds /\ Horizon(u)' \in Seconds
  <2>1. TypeOK'
    BY TypeStep
  <2>2. Horizon(u) \in Seconds
    BY HorizonType
  <2>3. Horizon(u)' \in Seconds
    <3>1. frame'[u] \in Frame /\ clock' \in Seconds
      BY <2>1 DEF TypeOK, LimiterTypeOK
    <3>. QED
      BY <3>1 DEF Horizon, Frame
  <2>. QED
    BY <2>2, <2>3
<1>2. /\ MinuteOf(Horizon(u)) <= MinuteOf(Horizon(u)')
      /\ DayOf(Horizon(u)) <= DayOf(Horizon(u)')
  BY <1>1, HorizonGrows, WindowsMonotone
<1>3. /\ MinuteOf(Horizon(u)) \in Int /\ MinuteOf(Horizon(u)') \in Int
      /\ DayOf(Horizon(u)) \in Int /\ DayOf(Horizon(u)') \in Int
      /\ Minutes \subseteq Int /\ Days \subseteq Int
  BY <1>1, Windows DEF Minutes, Days
<1>4. /\ \A m \in Minutes : u \in late_minute[k][m] => m <= MinuteOf(Horizon(u)')
      /\ \A d \in Days : u \in late_day[k][d] => d <= DayOf(Horizon(u)')
  BY <1>2, <1>3 DEF LateOnce
<1>5. CASE UNCHANGED <<late_minute, late_day>>
  BY <1>4, <1>5
<1>6. ASSUME NEW t \in Threads, ThreadStep(t), ReleaseBy(t)
      PROVE  /\ \A m \in Minutes : u \in late_minute'[k][m] => m <= MinuteOf(Horizon(u)')
             /\ \A d \in Days : u \in late_day'[k][d] => d <= DayOf(Horizon(u)')
  <2> DEFINE j == frame[t].key
             r == frame[t].now
  <2>1. /\ j \in Keys /\ r \in Seconds /\ MinuteOf(r) \in Minutes /\ DayOf(r) \in Days
    BY FrameTypes
  <2>2. /\ late_minute' \in {late_minute, AddTo(late_minute, j, MinuteOf(r), t)}
        /\ late_day' \in {late_day, AddTo(late_day, j, DayOf(r), t)}
    BY <1>6 DEF ReleaseBy, Release, ReleaseHistory
  <2>3. ASSUME u = t
        PROVE  MinuteOf(r) <= MinuteOf(Horizon(u)') /\ DayOf(r) <= DayOf(Horizon(u)')
    <3>1. r <= Horizon(u)'
      BY <1>6, <2>3, FrameEffect DEF ReleaseBy, TimesMove, Horizon, Times
    <3>. QED
      BY <3>1, <2>1, <1>1, WindowsMonotone
  <2> HIDE DEF j, r
  <2>4. \A m \in Minutes : u \in AddTo(late_minute, j, MinuteOf(r), t)[k][m]
                             => u \in late_minute[k][m] \/ (u = t /\ m = MinuteOf(r))
    <3> SUFFICES ASSUME NEW m \in Minutes, u \in AddTo(late_minute, j, MinuteOf(r), t)[k][m]
                 PROVE  u \in late_minute[k][m] \/ (u = t /\ m = MinuteOf(r))
      OBVIOUS
    <3>1. CASE k = j /\ m = MinuteOf(r)
      <4>1. AddTo(late_minute, j, MinuteOf(r), t)[k][m] = late_minute[k][m] \cup {t}
        BY <1>0, <2>1, <3>1 DEF AddTo
      <4>. QED
        BY <3>1, <4>1
    <3>2. CASE ~(k = j /\ m = MinuteOf(r))
      BY <1>0, <2>1, <3>2 DEF AddTo
    <3>. QED
      BY <3>1, <3>2
  <2>5. \A d \in Days : u \in AddTo(late_day, j, DayOf(r), t)[k][d]
                          => u \in late_day[k][d] \/ (u = t /\ d = DayOf(r))
    <3> SUFFICES ASSUME NEW d \in Days, u \in AddTo(late_day, j, DayOf(r), t)[k][d]
                 PROVE  u \in late_day[k][d] \/ (u = t /\ d = DayOf(r))
      OBVIOUS
    <3>1. CASE k = j /\ d = DayOf(r)
      <4>1. AddTo(late_day, j, DayOf(r), t)[k][d] = late_day[k][d] \cup {t}
        BY <1>0, <2>1, <3>1 DEF AddTo
      <4>. QED
        BY <3>1, <4>1
    <3>2. CASE ~(k = j /\ d = DayOf(r))
      BY <1>0, <2>1, <3>2 DEF AddTo
    <3>. QED
      BY <3>1, <3>2
  <2>6. \A m \in Minutes : u \in late_minute'[k][m] => m <= MinuteOf(Horizon(u)')
    <3>1. \A m \in Minutes : u \in late_minute'[k][m]
                                => u \in late_minute[k][m] \/ (u = t /\ m = MinuteOf(r))
      BY <2>2, <2>4
    <3>. QED
      BY <3>1, <2>3, <1>4
  <2>7. \A d \in Days : u \in late_day'[k][d] => d <= DayOf(Horizon(u)')
    <3>1. \A d \in Days : u \in late_day'[k][d]
                             => u \in late_day[k][d] \/ (u = t /\ d = DayOf(r))
      BY <2>2, <2>5
    <3>. QED
      BY <3>1, <2>3, <1>4
  <2>. QED
    BY <2>6, <2>7
<1>. QED
  BY <1>5, <1>6, Effect
  DEF history, ReserveBy, Reserve, ReserveHistory, MarkBy, MarkExternalDailyLimit

-----------------------------------------------------------------------------
(* One cell of the quota table: what a release does to its counter n, its bill *)
(* b and the set S of its late releases keeps the bill covered.              *)
LEMMA ReleaseCell ==
  ASSUME NEW b \in Int, NEW n \in Nat, NEW S \in SUBSET Threads, NEW t \in Threads,
         b <= n + Cardinality(S)
  PROVE  /\ b - 1 <= n + Cardinality(S)
         /\ b - 1 <= (IF n > 0 THEN n - 1 ELSE 0) + Cardinality(S)
         /\ t \notin S => b <= (IF n > 0 THEN n - 1 ELSE 0) + Cardinality(S \cup {t})
<1>1. IsFiniteSet(S) /\ Cardinality(S) \in Nat
  BY FS_CardinalityType, FS_Subset, LimiterAssumption
<1>2. t \notin S => Cardinality(S \cup {t}) = Cardinality(S) + 1
  BY <1>1, FS_AddElement
<1>. QED
  BY <1>1, <1>2

LEMMA CoverInit == Init => CountersCoverBilling
BY FS_EmptySet DEF Init, LimiterInit, CountersCoverBilling

LEMMA CoverStep ==
  TypeOK /\ Times /\ LateOnce /\ CountersCoverBilling /\ [Next]_vars => CountersCoverBilling'
<1> SUFFICES ASSUME TypeOK, Times, LateOnce, CountersCoverBilling, [Next]_vars
             PROVE  CountersCoverBilling'
  OBVIOUS
<1>0. /\ minute_all \in [Keys -> [Minutes -> Nat]]
      /\ daily_quota_counted \in [Keys -> [Days -> Nat]]
      /\ billed_minute \in [Keys -> [Minutes -> Int]]
      /\ billed_day \in [Keys -> [Days -> Int]]
      /\ late_minute \in [Keys -> [Minutes -> SUBSET Threads]]
      /\ late_day \in [Keys -> [Days -> SUBSET Threads]]
  BY DEF TypeOK, LimiterTypeOK
<1>1. /\ \A k \in Keys, m \in Minutes : Cardinality(late_minute[k][m]) \in Nat
      /\ \A k \in Keys, d \in Days : Cardinality(late_day[k][d]) \in Nat
  <2>1. \A S \in SUBSET Threads : Cardinality(S) \in Nat
    BY FS_CardinalityType, FS_Subset, LimiterAssumption
  <2>. QED
    BY <2>1, <1>0
<1>2. /\ \A k \in Keys, m \in Minutes :
           billed_minute[k][m] <= minute_all[k][m] + Cardinality(late_minute[k][m])
      /\ \A k \in Keys, d \in Days :
           billed_day[k][d] <= daily_quota_counted[k][d] + Cardinality(late_day[k][d])
  BY DEF CountersCoverBilling
<1>3. CASE UNCHANGED <<counters, history>>
  BY <1>3 DEF CountersCoverBilling, counters, history
<1>4. ASSUME NEW t \in Threads, ReserveBy(t)
      PROVE  CountersCoverBilling'
  <2> DEFINE a == frame[t].api
             k == ReservedKey(t)
             m == MinuteOf(frame[t].now)
             d == DayOf(frame[t].now)
  <2>1. k \in Keys /\ m \in Minutes /\ d \in Days
    BY FrameTypes
  <2>2. /\ minute_all' = Plus1(minute_all, k, m)
        /\ billed_minute' = Plus1(billed_minute, k, m)
        /\ \/ /\ daily_quota_counted' = Plus1(daily_quota_counted, k, d)
              /\ billed_day' = Plus1(billed_day, k, d)
           \/ UNCHANGED <<daily_quota_counted, billed_day>>
        /\ UNCHANGED <<late_minute, late_day>>
    BY <1>4 DEF ReserveBy, Reserve, ReserveCounters, ReserveHistory
  <2> HIDE DEF k, m, d
  <2>3. \A j \in Keys, w \in Minutes :
          billed_minute'[j][w] <= minute_all'[j][w] + Cardinality(late_minute[j][w])
    BY <1>0, <1>1, <1>2, <2>1, <2>2 DEF Plus1
  <2>4. \A j \in Keys, w \in Days :
          billed_day'[j][w] <= daily_quota_counted'[j][w] + Cardinality(late_day[j][w])
    <3>1. CASE UNCHANGED <<daily_quota_counted, billed_day>>
      BY <1>2, <3>1
    <3>2. CASE ~UNCHANGED <<daily_quota_counted, billed_day>>
      <4>1. /\ daily_quota_counted' = Plus1(daily_quota_counted, k, d)
            /\ billed_day' = Plus1(billed_day, k, d)
        BY <2>2, <3>2
      <4>. QED
        BY <1>0, <1>1, <1>2, <2>1, <4>1 DEF Plus1
    <3>. QED
      BY <3>1, <3>2
  <2>. QED
    BY <2>2, <2>3, <2>4 DEF CountersCoverBilling
<1>5. ASSUME NEW t \in Threads, ReleaseBy(t)
      PROVE  CountersCoverBilling'
  <2> DEFINE k == frame[t].key
             r == frame[t].now
             s == frame[t].stamp
  <2>1. /\ k \in Keys /\ r \in Seconds /\ s \in Seconds
        /\ MinuteOf(r) \in Minutes /\ DayOf(r) \in Days
        /\ MinuteOf(s) \in Minutes /\ DayOf(s) \in Days
    BY FrameTypes
  <2>2. /\ MinuteOf(r) # MinuteOf(s) => t \notin late_minute[k][MinuteOf(r)]
        /\ DayOf(r) # DayOf(s) => t \notin late_day[k][DayOf(r)]
    <3>1. Horizon(t) = s /\ s <= r
      BY <1>5 DEF ReleaseBy, Horizon, Times
    <3>2. MinuteOf(s) <= MinuteOf(r) /\ DayOf(s) <= DayOf(r)
      BY <2>1, <3>1, WindowsMonotone
    <3>3. /\ MinuteOf(r) \in Int /\ MinuteOf(s) \in Int
          /\ DayOf(r) \in Int /\ DayOf(s) \in Int
      BY <2>1 DEF Minutes, Days
    <3>4. /\ t \in late_minute[k][MinuteOf(r)] => MinuteOf(r) <= MinuteOf(s)
          /\ t \in late_day[k][DayOf(r)] => DayOf(r) <= DayOf(s)
      BY <2>1, <3>1 DEF LateOnce
    <3>. QED
      BY <3>2, <3>3, <3>4
  <2>3. /\ minute_all' = Minus1(minute_all, k, MinuteOf(r))
        /\ billed_minute' = [billed_minute EXCEPT ![k][MinuteOf(s)] = @ - 1]
        /\ late_minute' = IF MinuteOf(r) # MinuteOf(s)
                          THEN AddTo(late_minute, k, MinuteOf(r), t) ELSE late_minute
    BY <1>5 DEF ReleaseBy, Release, ReleaseCounters, ReleaseHistory
  <2>4. \/ /\ daily_quota_counted' = Minus1(daily_quota_counted, k, DayOf(r))
           /\ billed_day' = [billed_day EXCEPT ![k][DayOf(s)] = @ - 1]
           /\ late_day' = IF DayOf(r) # DayOf(s)
                          THEN AddTo(late_day, k, DayOf(r), t) ELSE late_day
        \/ UNCHANGED <<daily_quota_counted, billed_day, late_day>>
    BY <1>5 DEF ReleaseBy, Release, ReleaseCounters, ReleaseHistory
  <2> HIDE DEF k, r, s
  <2>5. \A j \in Keys, w \in Minutes :
          billed_minute'[j][w] <= minute_all'[j][w] + Cardinality(late_minute'[j][w])
    <3> SUFFICES ASSUME NEW j \in Keys, NEW w \in Minutes
                 PROVE  billed_minute'[j][w] <= minute_all'[j][w] + Cardinality(late_minute'[j][w])
      OBVIOUS
    <3>0. /\ minute_all' = Minus1(minute_all, k, MinuteOf(r))
          /\ billed_minute' = [billed_minute EXCEPT ![k][MinuteOf(s)] = @ - 1]
          /\ late_minute' = IF MinuteOf(r) # MinuteOf(s) THEN AddTo(late_minute, k, MinuteOf(r), t) ELSE late_minute
      BY <2>3
    <3>1. /\ billed_minute[j][w] \in Int /\ minute_all[j][w] \in Nat
          /\ late_minute[j][w] \in SUBSET Threads
          /\ billed_minute[j][w] <= minute_all[j][w] + Cardinality(late_minute[j][w])
      BY <1>0, <1>2
    <3>2. minute_all'[j][w] = IF j = k /\ w = MinuteOf(r)
          THEN (IF minute_all[j][w] > 0 THEN minute_all[j][w] - 1 ELSE 0) ELSE minute_all[j][w]
      BY <1>0, <2>1, <3>0 DEF Minus1
    <3>3. billed_minute'[j][w] = IF j = k /\ w = MinuteOf(s)
          THEN billed_minute[j][w] - 1 ELSE billed_minute[j][w]
      BY <1>0, <2>1, <3>0
    <3>4. CASE MinuteOf(r) # MinuteOf(s) /\ j = k /\ w = MinuteOf(r)
      <4>1. late_minute'[j][w] = late_minute[j][w] \cup {t}
        BY <1>0, <2>1, <3>0, <3>4 DEF AddTo
      <4>. QED
        BY <2>2, <3>1, <3>2, <3>3, <3>4, <4>1, ReleaseCell
    <3>5. CASE ~(MinuteOf(r) # MinuteOf(s) /\ j = k /\ w = MinuteOf(r))
      <4>1. late_minute'[j][w] = late_minute[j][w]
        BY <1>0, <2>1, <3>0, <3>5 DEF AddTo
      <4>. QED
        BY <3>1, <3>2, <3>3, <3>5, <4>1, ReleaseCell
    <3>. QED
      BY <3>4, <3>5
  <2>6. \A j \in Keys, w \in Days :
          billed_day'[j][w] <= daily_quota_counted'[j][w] + Cardinality(late_day'[j][w])
    <3>1. CASE UNCHANGED <<daily_quota_counted, billed_day, late_day>>
      BY <1>2, <3>1
    <3>2. CASE ~UNCHANGED <<daily_quota_counted, billed_day, late_day>>
      <4> SUFFICES ASSUME NEW j \in Keys, NEW w \in Days
                   PROVE  billed_day'[j][w]
                            <= daily_quota_counted'[j][w] + Cardinality(late_day'[j][w])
        OBVIOUS
      <4>0. /\ daily_quota_counted' = Minus1(daily_quota_counted, k, DayOf(r))
            /\ billed_day' = [billed_day EXCEPT ![k][DayOf(s)] = @ - 1]
            /\ late_day' = IF DayOf(r) # DayOf(s) THEN AddTo(late_day, k, DayOf(r), t) ELSE late_day
        BY <2>4, <3>2
      <4>1. /\ billed_day[j][w] \in Int /\ daily_quota_counted[j][w] \in Nat
            /\ late_day[j][w] \in SUBSET Threads
            /\ billed_day[j][w] <= daily_quota_counted[j][w] + Cardinality(late_day[j][w])
        BY <1>0, <1>2
      <4>2. daily_quota_counted'[j][w] = IF j = k /\ w = DayOf(r)
            THEN (IF daily_quota_counted[j][w] > 0 THEN daily_quota_counted[j][w] - 1 ELSE 0) ELSE daily_quota_counted[j][w]
        BY <1>0, <2>1, <4>0 DEF Minus1
      <4>3. billed_day'[j][w] = IF j = k /\ w = DayOf(s)
            THEN billed_day[j][w] - 1 ELSE billed_day[j][w]
        BY <1>0, <2>1, <4>0
      <4>4. CASE DayOf(r) # DayOf(s) /\ j = k /\ w = DayOf(r)
        <5>1. late_day'[j][w] = late_day[j][w] \cup {t}
          BY <1>0, <2>1, <4>0, <4>4 DEF AddTo
        <5>. QED
          BY <2>2, <4>1, <4>2, <4>3, <4>4, <5>1, ReleaseCell
      <4>5. CASE ~(DayOf(r) # DayOf(s) /\ j = k /\ w = DayOf(r))
        <5>1. late_day'[j][w] = late_day[j][w]
          BY <1>0, <2>1, <4>0, <4>5 DEF AddTo
        <5>. QED
          BY <4>1, <4>2, <4>3, <4>5, <5>1, ReleaseCell
      <4>. QED
        BY <4>4, <4>5
    <3>. QED
      BY <3>1, <3>2
  <2>. QED
    BY <2>5, <2>6 DEF CountersCoverBilling
<1>6. ASSUME NEW t \in Threads, MarkBy(t)
      PROVE  CountersCoverBilling'
  <2> DEFINE k == frame[t].key
             d == DayOf(frame[t].now)
  <2>1. k \in Keys /\ d \in Days
    BY FrameTypes
  <2>2. /\ UNCHANGED <<minute_all, billed_minute, late_minute, billed_day, late_day>>
        /\ \/ UNCHANGED daily_quota_counted
           \/ daily_quota_counted' = RaiseToLimit(daily_quota_counted, k, d)
    BY <1>6 DEF MarkBy, MarkExternalDailyLimit
  <2> HIDE DEF k, d
  <2>3. ASSUME NEW j \in Keys, NEW w \in Days
        PROVE  /\ daily_quota_counted'[j][w] \in Int
               /\ daily_quota_counted[j][w] <= daily_quota_counted'[j][w]
    <3>1. RaiseToLimit(daily_quota_counted, k, d)[j][w]
            = IF j = k /\ w = d /\ ~(daily_quota_counted[j][w] > DailyEmergencyLimit)
              THEN DailyEmergencyLimit ELSE daily_quota_counted[j][w]
      BY <1>0, <2>1 DEF RaiseToLimit
    <3>. QED
      BY <1>0, <2>2, <3>1, LimiterAssumption
  <2>4. \A j \in Keys, w \in Days :
          billed_day[j][w] <= daily_quota_counted'[j][w] + Cardinality(late_day[j][w])
    BY <1>0, <1>1, <1>2, <2>3
  <2>. QED
    BY <1>2, <2>2, <2>4 DEF CountersCoverBilling
<1>. QED
  BY <1>3, <1>4, <1>5, <1>6, Effect

(* The quota table never counts less than OpenDART charges, but for one call   *)
(* per thread and window.                                                   *)
THEOREM CoverCorrect == Spec => []CountersCoverBilling
BY TypeInit, TypeStep, TimesInit, TimesStep, LateInit, LateStep, CoverInit, CoverStep,
   PTL DEF Spec

(* What OpenDART charges to a key stays within the safe limit plus one call    *)
(* per worker thread, in every minute and on every day.                     *)
THEOREM MarginCorrect == Spec => []BilledWithinMargin
<1>1. TypeOK /\ CountersBounded /\ CountersCoverBilling => BilledWithinMargin
  <2> SUFFICES ASSUME TypeOK, CountersBounded, CountersCoverBilling
               PROVE  BilledWithinMargin
    OBVIOUS
  <2>1. \A S \in SUBSET Threads : /\ Cardinality(S) \in Nat
                                  /\ Cardinality(S) <= Cardinality(Threads)
    BY FS_Subset, FS_CardinalityType, LimiterAssumption
  <2>2. Cardinality(Threads) \in Nat
    BY FS_CardinalityType, LimiterAssumption
  <2>3. ASSUME NEW k \in Keys, NEW m \in Minutes
        PROVE  billed_minute[k][m] <= MinuteSafeLimit + Cardinality(Threads)
    <3>1. /\ late_minute[k][m] \in SUBSET Threads /\ minute_all[k][m] \in Nat
          /\ billed_minute[k][m] \in Int
      BY DEF TypeOK, LimiterTypeOK
    <3>2. /\ minute_all[k][m] <= MinuteSafeLimit
          /\ billed_minute[k][m] <= minute_all[k][m] + Cardinality(late_minute[k][m])
      BY DEF CountersBounded, CountersCoverBilling
    <3>. QED
      BY <2>1, <2>2, <3>1, <3>2, LimiterAssumption
  <2>4. ASSUME NEW k \in Keys, NEW d \in Days
        PROVE  billed_day[k][d] <= DailyEmergencyLimit + Cardinality(Threads)
    <3>1. /\ late_day[k][d] \in SUBSET Threads /\ daily_quota_counted[k][d] \in Nat
          /\ billed_day[k][d] \in Int
      BY DEF TypeOK, LimiterTypeOK
    <3>2. /\ daily_quota_counted[k][d] <= DailyEmergencyLimit
          /\ billed_day[k][d] <= daily_quota_counted[k][d] + Cardinality(late_day[k][d])
      BY DEF CountersBounded, CountersCoverBilling
    <3>. QED
      BY <2>1, <2>2, <3>1, <3>2, LimiterAssumption
  <2>. QED
    BY <2>3, <2>4 DEF BilledWithinMargin
<1>. QED
  BY <1>1, TypeCorrect, BoundedCorrect, CoverCorrect, PTL

-----------------------------------------------------------------------------
(* Which keys a call has tried: all but the one it works with answered 020 to *)
(* it, and the call has no result before it ends.                           *)
TriedWereLimited(f) ==
  /\ f.pc # "idle" => f.result = "none"
  /\ f.pc \in {"claim", "select", "reserve"} => f.tried = f.limited
  /\ f.pc \in {"invoke", "release", "mark", "reselect", "rereserve"}
       => f.tried = f.limited \cup {f.key}

LimitInv == \A t \in Threads : TriedWereLimited(frame[t])

(* What a frame keeps of the keys that its call has tried.                     *)
LEMMA BuilderKeys ==
  ASSUME TypeOK, NEW t \in Threads
  PROVE  /\ \A n \in 0 .. MaxCalls, how \in Result :
              Outside(n, how).pc = "idle" /\ Outside(n, how).result = how
         /\ \A label \in PC :
              /\ InCall(t, label).pc = label /\ InCall(t, label).result = "none"
              /\ InCall(t, label).tried = frame[t].tried
              /\ InCall(t, label).limited = frame[t].limited
         /\ \A label \in PC :
              /\ WithKey(t, label).pc = label /\ WithKey(t, label).result = "none"
              /\ WithKey(t, label).tried = frame[t].tried
              /\ WithKey(t, label).limited = frame[t].limited
              /\ WithKey(t, label).key = frame[t].key
<1>1. \A n \in 0 .. MaxCalls, how \in Result :
        Outside(n, how).pc = "idle" /\ Outside(n, how).result = how
  BY DEF Outside
<1>2. \A label \in PC :
        /\ InCall(t, label).pc = label /\ InCall(t, label).result = "none"
        /\ InCall(t, label).tried = frame[t].tried
        /\ InCall(t, label).limited = frame[t].limited
  BY DEF InCall, Outside
<1>3. \A label \in PC : InCall(t, label) \in Frame
  BY FrameBuilders DEF TypeOK
<1>4. \A label \in PC :
        /\ WithKey(t, label).pc = label /\ WithKey(t, label).result = "none"
        /\ WithKey(t, label).tried = frame[t].tried
        /\ WithKey(t, label).limited = frame[t].limited
        /\ WithKey(t, label).key = frame[t].key
  BY <1>2, <1>3 DEF WithKey, Frame
<1>. QED
  BY <1>1, <1>2, <1>4

(* A step of thread t keeps its frame so, and a 020 that ends the call finds   *)
(* every key tried.                                                         *)
KeysMove(t, f) ==
  /\ TriedWereLimited(f)
  /\ frame[t].pc = "mark" /\ f.result = "020" => frame[t].tried = Keys

LEMMA KeysEffect ==
  ASSUME TypeOK, LimitInv, NEW t \in Threads, ThreadStep(t)
  PROVE  /\ \A u \in Threads \ {t} : frame'[u] = frame[u]
         /\ KeysMove(t, frame'[t])
<1> DEFINE Goal == /\ \A u \in Threads \ {t} : frame'[u] = frame[u]
                   /\ KeysMove(t, frame'[t])
<1>0. /\ frame \in [Threads -> Frame] /\ frame[t] \in Frame
      /\ frame[t].calls \in 0 .. MaxCalls /\ TriedWereLimited(frame[t])
  BY DEF TypeOK, Frame, LimitInv
<1>1. ASSUME NEW f, Becomes(t, f), KeysMove(t, f)
      PROVE  Goal
  <2>1. frame'[t] = f /\ \A u \in Threads \ {t} : frame'[u] = frame[u]
    BY <1>0, <1>1 DEF Becomes
  <2>. QED
    BY <1>1, <2>1
<1>2. ASSUME NEW how \in Result, Leave(t, how),
             frame[t].pc = "mark" /\ how = "020" => frame[t].tried = Keys
      PROVE  Goal
  <2>1. KeysMove(t, Outside(frame[t].calls, how))
    BY <1>0, <1>2, BuilderKeys DEF KeysMove, TriedWereLimited
  <2>. QED
    BY <1>1, <1>2, <2>1 DEF Leave
<1>3. \A label \in PC : InCall(t, label) \in Frame /\ WithKey(t, label) \in Frame
  BY FrameBuilders DEF TypeOK
<1>4. ASSUME NEW q, NEW retry \in Frame, TriedWereLimited(retry), retry.pc # "idle",
             frame[t].pc # "mark", WaitOrRaise(t, q, retry)
      PROVE  Goal
  <2>1. CASE q \in {"minute_all", "minute_global"}
    <3>1. PICK w : Becomes(t, [retry EXCEPT !.wake = w])
      BY <1>4, <2>1 DEF WaitOrRaise
    <3>2. KeysMove(t, [retry EXCEPT !.wake = w])
      BY <1>4 DEF KeysMove, TriedWereLimited, Frame
    <3>. QED
      BY <1>1, <3>1, <3>2
  <2>2. CASE q \notin {"minute_all", "minute_global"}
    BY <1>2, <1>4, <2>2 DEF WaitOrRaise, Result
  <2>. QED
    BY <2>1, <2>2
<1>5. \A label \in {"claim", "select", "reserve"} :
        /\ InCall(t, label) \in Frame
        /\ frame[t].pc \in {"claim", "select", "reserve"}
             => TriedWereLimited(InCall(t, label))
  BY <1>0, <1>3, BuilderKeys DEF TriedWereLimited, PC
<1>6. \A label \in {"invoke", "reselect", "rereserve"} :
        /\ WithKey(t, label) \in Frame
        /\ frame[t].pc \in {"release", "reselect", "rereserve"}
             => TriedWereLimited(WithKey(t, label))
  BY <1>0, <1>3, BuilderKeys DEF TriedWereLimited, PC
<1> SUFFICES Goal
  OBVIOUS
<1> HIDE DEF Goal
<1>7. CASE \E a \in Api : Call(t, a)
  <2>1. PICK a \in Api : Call(t, a)
    BY <1>7
  <2>2. KeysMove(t, [Outside(frame[t].calls + 1, "none") EXCEPT !.pc = "claim", !.api = a])
    BY <2>1 DEF KeysMove, TriedWereLimited, Outside, Call
  <2>. QED
    BY <2>1, <2>2, <1>1 DEF Call
<1>8. CASE ClaimStartIndex(t)
  <2>1. frame[t].pc = "claim"
    BY <1>8 DEF ClaimStartIndex
  <2>2. InCall(t, "reserve") \in Frame /\ TriedWereLimited(InCall(t, "reserve"))
    BY <1>5, <2>1
  <2>3. InCall(t, "reserve").pc = "reserve"
    BY BuilderKeys DEF PC
  <2>4. \A o : KeysMove(t, [InCall(t, "reserve") EXCEPT !.start_index = next_index,
                                                        !.offset = o, !.now = clock])
    BY <2>1, <2>2, <2>3 DEF KeysMove, TriedWereLimited, Frame
  <2>. QED
    BY <1>1, <1>8, <2>4 DEF ClaimStartIndex
<1>9. CASE SelectKey(t)
  <2>1. KeysMove(t, [frame[t] EXCEPT !.pc = "reserve", !.now = clock])
    BY <1>0, <1>9 DEF SelectKey, KeysMove, TriedWereLimited, Frame
  <2>. QED
    BY <1>1, <1>9, <2>1 DEF SelectKey
<1>10. CASE ReserveKey(t)
  <2>1. InCall(t, "invoke") \in Frame /\ InCall(t, "invoke").pc = "invoke"
        /\ InCall(t, "invoke").result = "none"
        /\ InCall(t, "invoke").tried = InCall(t, "invoke").limited
    BY <1>0, <1>3, <1>10, BuilderKeys DEF ReserveKey, TriedWereLimited, PC
  <2>2. \A k : KeysMove(t, [InCall(t, "invoke") EXCEPT !.key = k, !.attempts = 1,
                              !.tried = @ \cup {k}, !.stamp = frame[t].now])
    BY <1>10, <2>1 DEF ReserveKey, KeysMove, TriedWereLimited, Frame
  <2>. QED
    BY <1>1, <1>10, <2>2 DEF ReserveKey
<1>11. CASE ReserveKeyLimited(t)
  <2>1. frame[t].pc = "reserve"
    BY <1>11 DEF ReserveKeyLimited
  <2>2. InCall(t, "select") \in Frame /\ TriedWereLimited(InCall(t, "select"))
    BY <1>5, <2>1
  <2>3. InCall(t, "select").pc = "select"
    BY BuilderKeys DEF PC
  <2>4. \A i, o : KeysMove(t, [InCall(t, "select") EXCEPT !.start_index = i, !.offset = o])
    BY <2>1, <2>2, <2>3 DEF KeysMove, TriedWereLimited, Frame
  <2>5. /\ InCall(t, "claim") \in Frame /\ TriedWereLimited(InCall(t, "claim"))
    BY <1>5, <2>1
  <2>6. InCall(t, "claim").pc # "idle" /\ frame[t].pc # "mark"
    BY <2>1, BuilderKeys DEF PC
  <2>. QED
    BY <1>1, <1>4, <1>11, <2>4, <2>5, <2>6 DEF ReserveKeyLimited
<1>12. CASE Answer(t)
  BY <1>2, <1>12 DEF Answer, Result
<1>13. CASE TransportFailure(t) \/ DailyLimitAnswer(t)
  <2>1. PICK label \in {"release", "mark"} : Fail(t, label)
    BY <1>13 DEF TransportFailure, DailyLimitAnswer
  <2>2. KeysMove(t, [frame[t] EXCEPT !.pc = label, !.now = clock])
    BY <1>0, <2>1 DEF Fail, KeysMove, TriedWereLimited, Frame
  <2>. QED
    BY <1>1, <2>1, <2>2 DEF Fail
<1>14. CASE ReleaseKey(t)
  <2>1. frame[t].pc = "release"
    BY <1>14 DEF ReleaseKey
  <2>2. KeysMove(t, WithKey(t, "reselect"))
    BY <1>6, <2>1 DEF KeysMove
  <2>. QED
    BY <1>1, <1>2, <1>14, <2>2 DEF ReleaseKey, Result
<1>15. CASE SelectSameKey(t)
  <2>1. frame[t].pc = "reselect"
    BY <1>15 DEF SelectSameKey
  <2>2. WithKey(t, "rereserve") \in Frame /\ TriedWereLimited(WithKey(t, "rereserve"))
    BY <1>6, <2>1
  <2>3. WithKey(t, "rereserve").pc = "rereserve"
    BY BuilderKeys DEF PC
  <2>4. KeysMove(t, [WithKey(t, "rereserve") EXCEPT !.now = clock])
    BY <2>1, <2>2, <2>3 DEF KeysMove, TriedWereLimited, Frame
  <2>. QED
    BY <1>1, <1>15, <2>4 DEF SelectSameKey
<1>16. CASE ReserveSameKey(t)
  <2>1. frame[t].pc = "rereserve"
    BY <1>16 DEF ReserveSameKey
  <2>2. WithKey(t, "invoke") \in Frame /\ TriedWereLimited(WithKey(t, "invoke"))
    BY <1>6, <2>1
  <2>3. WithKey(t, "invoke").pc = "invoke"
    BY BuilderKeys DEF PC
  <2>4. KeysMove(t, [WithKey(t, "invoke") EXCEPT !.attempts = @ + 1,
                                                 !.stamp = frame[t].now])
    BY <2>1, <2>2, <2>3 DEF KeysMove, TriedWereLimited, Frame
  <2>. QED
    BY <1>1, <1>16, <2>4 DEF ReserveSameKey
<1>17. CASE ReserveSameKeyLimited(t)
  <2>1. frame[t].pc = "rereserve"
    BY <1>17 DEF ReserveSameKeyLimited
  <2>2. WithKey(t, "reselect") \in Frame /\ TriedWereLimited(WithKey(t, "reselect"))
    BY <1>6, <2>1
  <2>3. WithKey(t, "reselect").pc # "idle"
    BY BuilderKeys DEF PC
  <2>. QED
    BY <1>4, <1>17, <2>1, <2>2, <2>3 DEF ReserveSameKeyLimited
<1>18. CASE MarkKey(t)
  <2>1. /\ InCall(t, "claim") \in Frame /\ InCall(t, "claim").pc = "claim"
        /\ InCall(t, "claim").result = "none"
        /\ InCall(t, "claim").tried = InCall(t, "claim").limited \cup {frame[t].key}
    BY <1>0, <1>3, <1>18, BuilderKeys DEF MarkKey, TriedWereLimited, PC
  <2>2. KeysMove(t, [InCall(t, "claim") EXCEPT !.limited = @ \cup {frame[t].key}])
    BY <2>1 DEF KeysMove, TriedWereLimited, Frame
  <2>. QED
    BY <1>1, <1>2, <1>18, <2>2 DEF MarkKey, Result
<1>. QED
  BY <1>7, <1>8, <1>9, <1>10, <1>11, <1>12, <1>13, <1>14, <1>15, <1>16, <1>17, <1>18
  DEF ThreadStep

LEMMA LimitInit == Init => LimitInv
BY DEF Init, Outside, LimitInv, TriedWereLimited

LEMMA LimitStep == TypeOK /\ LimitInv /\ [Next]_vars => LimitInv'
<1> SUFFICES ASSUME TypeOK, LimitInv, [Next]_vars
             PROVE  LimitInv'
  OBVIOUS
<1>1. CASE UNCHANGED vars \/ ClockTick
  BY <1>1 DEF vars, ClockTick, LimitInv
<1>2. ASSUME NEW t \in Threads, ThreadStep(t)
      PROVE  LimitInv'
  BY <1>2, KeysEffect DEF LimitInv, KeysMove
<1>. QED
  BY <1>1, <1>2 DEF Next

(* A call that ends in a 020 has had a 020 from every key of the pool: no      *)
(* order of the other threads' steps makes _call give up with a key untried. *)
THEOREM LimitAnswersCorrect == Spec => LimitAnsweredByAllKeys
<1>1. ASSUME TypeOK, LimitInv, [Next]_vars, NEW t \in Threads,
             frame[t].pc = "mark", frame'[t].result = "020"
      PROVE  frame[t].limited \cup {frame[t].key} = Keys
  <2>1. frame[t].result = "none" /\ frame[t].tried = frame[t].limited \cup {frame[t].key}
    BY <1>1 DEF LimitInv, TriedWereLimited
  <2>2. CASE UNCHANGED vars \/ ClockTick
    BY <1>1, <2>1, <2>2 DEF vars, ClockTick
  <2>3. ASSUME NEW u \in Threads, ThreadStep(u)
        PROVE  frame[t].tried = Keys
    BY <1>1, <2>1, <2>3, KeysEffect DEF KeysMove
  <2>. QED
    BY <1>1, <2>1, <2>2, <2>3 DEF Next
<1>2. TypeOK /\ LimitInv /\ [Next]_vars
        => [\A t \in Threads :
              frame[t].pc = "mark" /\ frame'[t].result = "020"
                => frame[t].limited \cup {frame[t].key} = Keys]_vars
  BY <1>1
<1>. QED
  BY <1>2, TypeInit, TypeStep, LimitInit, LimitStep, PTL DEF Spec, LimitAnsweredByAllKeys

-----------------------------------------------------------------------------
(***************************************************************************)
(* Laws of SumFunctionOnSet over finite sets.  It folds a recursive          *)
(* function over the subsets of the set in an order that is CHOOSEn; that    *)
(* such a function exists is shown by one that satisfies the equation        *)
(* (CountingSums), that it is the only one by a smallest subset on which two *)
(* differ (SummingUnique).                                                 *)
(***************************************************************************)

(* What a table counts, one element a time: the sum of a table is the number of *)
(* its units, and sets are what the provers can count.                        *)
Units(f, S) == UNION {{x} \X (1 .. f[x]) : x \in S}

LEMMA UnitsFinite ==
  ASSUME NEW S, IsFiniteSet(S), NEW f, \A x \in S : f[x] \in Nat
  PROVE  IsFiniteSet(Units(f, S))
<1> DEFINE U == {{x} \X (1 .. f[x]) : x \in S}
           g == [x \in S |-> {x} \X (1 .. f[x])]
<1>1. g \in Surjection(S, U)
  BY DEF Surjection
<1>2. IsFiniteSet(U)
  <2> HIDE DEF U, g
  <2>. QED BY <1>1, FS_Surjection
<1>3. ASSUME NEW x \in S
      PROVE  IsFiniteSet({x} \X (1 .. f[x]))
  <2>1. IsFiniteSet({x}) BY FS_Singleton
  <2>2. IsFiniteSet(1 .. f[x]) BY <1>3, FS_Interval
  <2>. QED BY <2>1, <2>2, FS_Product
<1>4. \A T \in U : IsFiniteSet(T)
  BY <1>3
<1>5. IsFiniteSet(UNION U)
  <2> HIDE DEF U
  <2>. QED BY <1>2, <1>4, FS_UNION
<1>. QED
  BY <1>5 DEF Units

LEMMA UnitsOfOne ==
  ASSUME NEW S, IsFiniteSet(S), NEW f, \A y \in S : f[y] \in Nat, NEW x \in S
  PROVE  Cardinality(Units(f, S)) = f[x] + Cardinality(Units(f, S \ {x}))
<1> DEFINE V == {x} \X (1 .. f[x])
           W == Units(f, S \ {x})
<1>1. IsFiniteSet(W)
  <2>1. IsFiniteSet(S \ {x}) BY FS_RemoveElement
  <2>. QED BY <2>1, UnitsFinite
<1>2. IsFiniteSet(V) /\ Cardinality(V) = f[x]
  <2>1. IsFiniteSet({x}) /\ Cardinality({x}) = 1 BY FS_Singleton
  <2>2. IsFiniteSet(1 .. f[x]) /\ Cardinality(1 .. f[x]) = f[x] BY FS_Interval
  <2>3. IsFiniteSet(V) /\ Cardinality(V) = 1 * f[x] BY <2>1, <2>2, FS_Product
  <2>. QED BY <2>3
<1>3. Units(f, S) = V \cup W
  BY DEF Units
<1>4. V \cap W = {}
  BY DEF Units
<1>5. Cardinality(V \cap W) = 0
  BY <1>4, FS_EmptySet
<1>6. Cardinality(W) \in Nat
  BY <1>1, FS_CardinalityType
<1> HIDE DEF V, W
<1>7. Cardinality(V \cup W) = Cardinality(V) + Cardinality(W) - Cardinality(V \cap W)
  BY <1>1, <1>2, FS_Union
<1>8. Cardinality(V \cup W) = f[x] + Cardinality(W)
  BY <1>2, <1>5, <1>6, <1>7
<1>. QED
  BY <1>3, <1>8 DEF W

(* The recursive function that sums a table over a finite set.                *)
Summing(f, S, g) ==
  g = [T \in SUBSET S |->
         IF T = {} THEN 0
         ELSE f[CHOOSE x \in T : TRUE] + g[T \ {CHOOSE x \in T : TRUE}]]

LEMMA CountingSums ==
  ASSUME NEW S, IsFiniteSet(S), NEW f, \A y \in S : f[y] \in Nat
  PROVE  Summing(f, S, [T \in SUBSET S |-> Cardinality(Units(f, T))])
<1> DEFINE c == [T \in SUBSET S |-> Cardinality(Units(f, T))]
<1>1. ASSUME NEW T \in SUBSET S
      PROVE  c[T] = IF T = {} THEN 0
                    ELSE f[CHOOSE x \in T : TRUE] + c[T \ {CHOOSE x \in T : TRUE}]
  <2>1. CASE T = {}
    <3>1. Units(f, T) = {} BY <2>1 DEF Units
    <3>. QED BY <2>1, <3>1, FS_EmptySet
  <2>2. CASE T # {}
    <3> DEFINE x == CHOOSE x \in T : TRUE
    <3>1. x \in T BY <2>2
    <3>2. IsFiniteSet(T) BY FS_Subset
    <3>3. T \ {x} \in SUBSET S OBVIOUS
    <3> HIDE DEF x
    <3>4. Cardinality(Units(f, T)) = f[x] + Cardinality(Units(f, T \ {x}))
      BY <3>1, <3>2, UnitsOfOne
    <3>5. c[T] = f[x] + c[T \ {x}]
      BY <3>3, <3>4
    <3>. QED BY <2>2, <3>5 DEF x
  <2>. QED BY <2>1, <2>2
<1>2. DOMAIN c = SUBSET S OBVIOUS
<1>. QED
  BY <1>1, Zenon DEF Summing

LEMMA SummingUnique ==
  ASSUME NEW S, IsFiniteSet(S), NEW f, NEW g, NEW h,
         Summing(f, S, g), Summing(f, S, h)
  PROVE  g = h
<1> DEFINE Bad == {T \in SUBSET S : g[T] # h[T]}
<1>1. SUFFICES ASSUME Bad # {} PROVE FALSE
  BY Zenon DEF Summing
<1>2. IsWellFoundedOn(StrictSubsetOrdering(S), SUBSET S)
  BY FS_StrictSubsetOrderingWellFounded, FS_FiniteSubsetsOfFinite
<1>3. PICK T \in Bad : \A U \in Bad : <<U, T>> \notin StrictSubsetOrdering(S)
  <2> HIDE DEF Bad
  <2>1. Bad \subseteq SUBSET S BY DEF Bad
  <2>. QED BY <1>1, <1>2, <2>1, WFMin
<1> DEFINE x == CHOOSE x \in T : TRUE
<1>4. T # {}
  BY <1>3 DEF Summing
<1>5. x \in T
  BY <1>4
<1> HIDE DEF x
<1>6. T \ {x} \in SUBSET S /\ T \ {x} # T
  BY <1>5
<1>7. T \ {x} \notin Bad
  BY <1>3, <1>6 DEF StrictSubsetOrdering
<1>8. g[T \ {x}] = h[T \ {x}]
  BY <1>6, <1>7
<1>9. g[T] = f[x] + g[T \ {x}] /\ h[T] = f[x] + h[T \ {x}]
  BY <1>4 DEF Summing, x
<1>. QED
  BY <1>3, <1>8, <1>9

LEMMA SumCounts ==
  ASSUME NEW S, IsFiniteSet(S), NEW f, \A y \in S : f[y] \in Nat
  PROVE  SumFunctionOnSet(f, S) = Cardinality(Units(f, S))
<1> DEFINE c == [T \in SUBSET S |-> Cardinality(Units(f, T))]
           g == CHOOSE g : Summing(f, S, g)
<1>1. SumFunctionOnSet(f, S) = g[S]
  BY DEF SumFunctionOnSet, FoldFunctionOnSet, MapThenFoldSet, Summing
<1>2. Summing(f, S, c)
  BY CountingSums
<1>3. Summing(f, S, g)
  BY <1>2
<1>4. g = c
  <2> HIDE DEF g, c
  <2>. QED BY <1>2, <1>3, SummingUnique
<1>. QED
  BY <1>1, <1>4

LEMMA SumType ==
  ASSUME NEW S, IsFiniteSet(S), NEW f, \A y \in S : f[y] \in Nat
  PROVE  SumFunctionOnSet(f, S) \in Nat
BY SumCounts, UnitsFinite, FS_CardinalityType

(* The sum depends on the values in the set only.                             *)
LEMMA SumSame ==
  ASSUME NEW S, IsFiniteSet(S), NEW f, NEW h,
         \A y \in S : f[y] \in Nat /\ h[y] = f[y]
  PROVE  SumFunctionOnSet(h, S) = SumFunctionOnSet(f, S)
<1>1. Units(h, S) = Units(f, S)
  BY DEF Units
<1>. QED
  BY <1>1, SumCounts

(* A subset that leaves out only zeros has the sum of the set.                 *)
LEMMA SumOfSupport ==
  ASSUME NEW S, IsFiniteSet(S), NEW f, \A y \in S : f[y] \in Nat,
         NEW T \in SUBSET S, \A y \in S \ T : f[y] = 0
  PROVE  SumFunctionOnSet(f, S) = SumFunctionOnSet(f, T)
<1>1. IsFiniteSet(T)
  BY FS_Subset
<1>2. Units(f, S) \subseteq Units(f, T)
  BY DEF Units
<1>3. Units(f, T) \subseteq Units(f, S)
  BY DEF Units
<1>4. Units(f, S) = Units(f, T)
  BY <1>2, <1>3
<1>5. \A y \in T : f[y] \in Nat
  OBVIOUS
<1>. QED
  BY <1>1, <1>4, <1>5, SumCounts

LEMMA SumOfZeros ==
  ASSUME NEW S, IsFiniteSet(S), NEW f, \A y \in S : f[y] = 0
  PROVE  SumFunctionOnSet(f, S) = 0
<1>1. Units(f, S) = {}
  BY DEF Units
<1>. QED
  BY <1>1, SumCounts, FS_EmptySet

LEMMA SumOfSubset ==
  ASSUME NEW S, IsFiniteSet(S), NEW f, \A y \in S : f[y] \in Nat, NEW T \in SUBSET S
  PROVE  SumFunctionOnSet(f, T) <= SumFunctionOnSet(f, S)
<1>1. IsFiniteSet(T) /\ IsFiniteSet(Units(f, S))
  BY FS_Subset, UnitsFinite
<1>2. Units(f, T) \subseteq Units(f, S)
  BY DEF Units
<1>3. Cardinality(Units(f, T)) <= Cardinality(Units(f, S))
  BY <1>1, <1>2, FS_Subset
<1>. QED
  BY <1>1, <1>3, SumCounts

(* One more in one place is one more in the sum.                              *)
LEMMA SumPlusOne ==
  ASSUME NEW S, IsFiniteSet(S), NEW f, NEW h, NEW x \in S,
         \A y \in S : f[y] \in Nat,
         \A y \in S : h[y] = IF y = x THEN f[y] + 1 ELSE f[y]
  PROVE  SumFunctionOnSet(h, S) = SumFunctionOnSet(f, S) + 1
<1>1. Units(h, S \ {x}) = Units(f, S \ {x})
  BY DEF Units
<1>2. IsFiniteSet(S \ {x})
  BY FS_RemoveElement
<1>3. Cardinality(Units(f, S \ {x})) \in Nat
  BY <1>2, UnitsFinite, FS_CardinalityType
<1>4. Cardinality(Units(f, S)) = f[x] + Cardinality(Units(f, S \ {x}))
  BY UnitsOfOne
<1>5. Cardinality(Units(h, S)) = h[x] + Cardinality(Units(h, S \ {x}))
  BY UnitsOfOne
<1>6. SumFunctionOnSet(f, S) = Cardinality(Units(f, S))
  BY SumCounts
<1>7. SumFunctionOnSet(h, S) = Cardinality(Units(h, S))
  BY SumCounts
<1>8. f[x] \in Nat /\ h[x] = f[x] + 1
  OBVIOUS
<1>. QED
  BY <1>1, <1>3, <1>4, <1>5, <1>6, <1>7, <1>8

-----------------------------------------------------------------------------
(***************************************************************************)
(* The requests of a sliding window.  A reservation is stamped with a now    *)
(* that its thread read before, and a thread holds one now at a time.  Let a *)
(* be the first second of the window, and take the buckets from a to the     *)
(* clock: a request that left since a but is stamped before a belongs to a   *)
(* thread that no longer waits with a now before a (IssuedStamped); and the  *)
(* last reservation of the latest stamp m found the window below the limit,  *)
(* so what came after it with an earlier stamp belongs to a thread that no   *)
(* longer waits with a now before m (StampsBounded).                        *)
(***************************************************************************)

(* The sum of a table from second a to second c.                             *)
Between(f, a, c) == SumFunctionOnSet(f, a .. c)

(* The threads whose pending reserve has read a now before n.                 *)
Waiting(n) ==
  {t \in Threads : frame[t].pc \in {"reserve", "rereserve"} /\ frame[t].now < n}

StillInWindow == {a \in Seconds : clock - SecondsPerMinute < a /\ a <= clock}

NothingAhead ==
  \A b \in Seconds : b > clock => issued[b] = 0 /\ minute_global_sec[b] = 0

IssuedStamped ==
  \A a \in StillInWindow :
    Between(issued, a, clock) + Cardinality(Waiting(a))
      <= Between(minute_global_sec, a, clock) + Cardinality(Threads)

StampsBounded ==
  \A a \in StillInWindow : \A m \in a .. clock :
    minute_global_sec[m] > 0
    => Between(minute_global_sec, a, clock) + Cardinality(Waiting(m))
         <= MinuteGlobalSafeLimit + Cardinality(Threads) - 1

WindowInv == NothingAhead /\ IssuedStamped /\ StampsBounded /\ SlidingWindowBounded

LEMMA WindowTypes ==
  ASSUME TypeOK
  PROVE  /\ clock \in Nat /\ SecondsPerMinute \in Nat \ {0}
         /\ MinuteGlobalSafeLimit \in Nat \ {0}
         /\ \A b : b \in Seconds <=> (b \in Nat /\ b <= MaxClock)
         /\ clock <= MaxClock /\ MaxClock \in Nat
         /\ \A b \in Seconds : issued[b] \in Nat /\ minute_global_sec[b] \in Nat
         /\ issued \in [Seconds -> Nat] /\ minute_global_sec \in [Seconds -> Nat]
         /\ \A t \in Threads : frame[t].now \in Nat
<1>1. \A b : b \in Seconds <=> (b \in Nat /\ b <= MaxClock)
  BY LimiterAssumption DEF Seconds
<1>2. \A t \in Threads : frame[t].now \in Nat
  BY <1>1, FrameTypes
<1>. QED
  BY <1>1, <1>2, LimiterAssumption DEF TypeOK, LimiterTypeOK

LEMMA WaitingFinite ==
  ASSUME NEW n
  PROVE  /\ IsFiniteSet(Threads) /\ Cardinality(Threads) \in Nat
         /\ IsFiniteSet(Waiting(n)) /\ Cardinality(Waiting(n)) \in Nat
         /\ Cardinality(Waiting(n)) <= Cardinality(Threads)
<1>1. IsFiniteSet(Threads)
  BY LimiterAssumption
<1>2. Waiting(n) \subseteq Threads
  BY DEF Waiting
<1>3. IsFiniteSet(Waiting(n)) /\ Cardinality(Waiting(n)) <= Cardinality(Threads)
  BY <1>1, <1>2, FS_Subset
<1>. QED
  BY <1>1, <1>3, FS_CardinalityType

LEMMA BetweenType ==
  ASSUME TypeOK, NEW a \in Seconds, NEW c \in Seconds
  PROVE  /\ IsFiniteSet(a .. c) /\ a .. c \subseteq Seconds
         /\ Between(issued, a, c) \in Nat
         /\ Between(minute_global_sec, a, c) \in Nat
<1>1. IsFiniteSet(a .. c)
  BY WindowTypes, FS_Interval
<1>2. a .. c \subseteq Seconds
  BY WindowTypes
<1>. QED
  BY <1>1, <1>2, WindowTypes, SumType DEF Between

LEMMA WindowFinite ==
  ASSUME NEW s \in Seconds
  PROVE  IsFiniteSet({b \in Seconds : s - SecondsPerMinute < b /\ b <= s})
<1>1. IsFiniteSet(Seconds)
  BY LimiterAssumption, FS_Interval DEF Seconds
<1>. QED
  BY <1>1, FS_Subset

(* The windows that end now or later hold only requests counted above.        *)
AheadInBounds ==
  \A s \in Seconds : clock <= s =>
    WindowTotal(issued, s) <= MinuteGlobalSafeLimit + 2 * Cardinality(Threads) - 1

LEMMA AheadBounded ==
  TypeOK /\ NothingAhead /\ IssuedStamped /\ StampsBounded => AheadInBounds
<1> SUFFICES ASSUME TypeOK, NothingAhead, IssuedStamped, StampsBounded,
                    NEW s \in Seconds, clock <= s
             PROVE  WindowTotal(issued, s)
                      <= MinuteGlobalSafeLimit + 2 * Cardinality(Threads) - 1
  BY DEF AheadInBounds
<1> DEFINE N == Cardinality(Threads)
           W == {b \in Seconds : s - SecondsPerMinute < b /\ b <= s}
           a == IF s - SecondsPerMinute + 1 > 0 THEN s - SecondsPerMinute + 1 ELSE 0
<1>1. N \in Nat
  BY WaitingFinite
<1>2. s \in Nat /\ s <= MaxClock
  BY WindowTypes
<1>3. a \in Nat /\ W = a .. s
  BY <1>2, WindowTypes
<1>4. IsFiniteSet(W)
  BY WindowFinite
<1>5. \A y \in W : issued[y] \in Nat
  BY WindowTypes
<1>6. WindowTotal(issued, s) = SumFunctionOnSet(issued, W)
  BY DEF WindowTotal
<1>7. CASE clock < a
  <2>1. \A y \in W : issued[y] = 0
    BY <1>2, <1>3, <1>7, WindowTypes DEF NothingAhead
  <2> HIDE DEF W
  <2>2. SumFunctionOnSet(issued, W) = 0
    BY <1>4, <2>1, SumOfZeros
  <2>. QED
    BY <1>1, <1>6, <2>2, WindowTypes DEF N
<1>8. CASE a <= clock
  <2>1. a \in StillInWindow
    BY <1>2, <1>3, <1>8, WindowTypes DEF StillInWindow
  <2>2. a .. clock \in SUBSET W /\ \A y \in W \ (a .. clock) : issued[y] = 0
    BY <1>2, <1>3, <1>8, WindowTypes DEF NothingAhead
  <2>3. WindowTotal(issued, s) = Between(issued, a, clock)
    <3> HIDE DEF W, a
    <3>. QED BY <1>4, <1>5, <1>6, <2>2, SumOfSupport DEF Between
  <2>4. a \in Seconds /\ clock \in Seconds
    BY <2>1, WindowTypes DEF StillInWindow
  <2> HIDE DEF W, a
  <2>5. /\ Between(issued, a, clock) \in Nat /\ Between(minute_global_sec, a, clock) \in Nat
        /\ IsFiniteSet(a .. clock) /\ a .. clock \subseteq Seconds
    BY <2>4, BetweenType
  <2>6. Between(issued, a, clock) <= Between(minute_global_sec, a, clock) + N
    BY <1>1, <2>1, <2>5, WaitingFinite DEF IssuedStamped, N
  <2>7. Between(minute_global_sec, a, clock) <= MinuteGlobalSafeLimit + N - 1
    <3>1. CASE \E m \in a .. clock : minute_global_sec[m] > 0
      <4>1. PICK m \in a .. clock : minute_global_sec[m] > 0
        BY <3>1
      <4>2. Between(minute_global_sec, a, clock) + Cardinality(Waiting(m))
              <= MinuteGlobalSafeLimit + N - 1
        BY <2>1, <4>1 DEF StampsBounded, N
      <4>3. Cardinality(Waiting(m)) \in Nat
        BY WaitingFinite
      <4>. QED
        BY <1>1, <2>5, <4>2, <4>3, WindowTypes
    <3>2. CASE \A m \in a .. clock : ~(minute_global_sec[m] > 0)
      <4>1. \A m \in a .. clock : minute_global_sec[m] = 0
        BY <2>5, <3>2, WindowTypes
      <4>2. Between(minute_global_sec, a, clock) = 0
        BY <2>5, <4>1, SumOfZeros DEF Between
      <4>. QED
        BY <1>1, <4>2, WindowTypes
    <3>. QED
      BY <3>1, <3>2
  <2>8. MinuteGlobalSafeLimit \in Nat
    BY WindowTypes
  <2>9. Between(issued, a, clock) <= MinuteGlobalSafeLimit + 2 * N - 1
    <3> HIDE DEF N
    <3>. QED BY <1>1, <2>5, <2>6, <2>7, <2>8
  <2>. QED
    BY <2>3, <2>9 DEF N
<1>. QED
  BY <1>3, <1>7, <1>8, WindowTypes

(* What a reservation with now n does to the sums from a second a on: it adds  *)
(* one to what left, one to the buckets unless n lies before a, it drops no    *)
(* bucket that is still in the window, and the window that ends with n was    *)
(* below the limit.                                                         *)
LEMMA ReserveWindow ==
  ASSUME TypeOK, Times, NEW t \in Threads, ThreadStep(t), ReserveBy(t),
         NEW a \in StillInWindow
  PROVE  /\ clock' = clock
         /\ Between(issued', a, clock) = Between(issued, a, clock) + 1
         /\ frame[t].now < a
            => Between(minute_global_sec', a, clock) = Between(minute_global_sec, a, clock)
         /\ a <= frame[t].now
            => Between(minute_global_sec', a, clock) = Between(minute_global_sec, a, clock) + 1
         /\ \A b \in a .. clock :
              minute_global_sec'[b] = IF b = frame[t].now THEN minute_global_sec[b] + 1
                                      ELSE minute_global_sec[b]
         /\ a <= frame[t].now
            => Between(minute_global_sec, a, frame[t].now) < MinuteGlobalSafeLimit
<1> DEFINE n == frame[t].now
           W == {b \in Seconds : n - SecondsPerMinute < b /\ b <= n}
<1>0. n \in Nat /\ n <= clock /\ n \in Seconds
  BY WindowTypes DEF Times
<1>1. clock' = clock
  BY FrameEffect
<1>2. /\ issued' = [issued EXCEPT ![clock] = @ + 1]
      /\ minute_global_sec' = [b \in Seconds |->
                                 IF Dropped(b, n) THEN 0
                                 ELSE IF b = n THEN minute_global_sec[b] + 1
                                 ELSE minute_global_sec[b]]
  BY DEF ReserveBy, Reserve, ReserveCounters, ReserveHistory
<1>3. WindowTotal(minute_global_sec, n) < MinuteGlobalSafeLimit
  <2>1. RateLimitExceeded(frame[t].api, ReservedKey(t), n) = "none"
    BY DEF ReserveBy, Reserve
  <2>2. ~(WindowTotal(minute_global_sec, n) >= MinuteGlobalSafeLimit)
    BY <2>1 DEF RateLimitExceeded
  <2>3. IsFiniteSet(W) /\ \A y \in W : minute_global_sec[y] \in Nat
    BY <1>0, WindowFinite, WindowTypes
  <2>4. WindowTotal(minute_global_sec, n) \in Nat
    <3> HIDE DEF W
    <3>1. SumFunctionOnSet(minute_global_sec, W) \in Nat
      BY <2>3, SumType
    <3>. QED BY <3>1 DEF WindowTotal, W
  <2>. QED
    BY <2>2, <2>4, WindowTypes
<1>4. /\ a \in Nat /\ a \in Seconds /\ clock \in Seconds /\ clock - SecondsPerMinute < a
      /\ a <= clock /\ clock \in Nat
  BY WindowTypes DEF StillInWindow
<1>5. IsFiniteSet(a .. clock) /\ a .. clock \subseteq Seconds
  BY <1>4, BetweenType
<1>6. \A b \in a .. clock : ~Dropped(b, n)
  BY <1>0, <1>4, WindowTypes DEF Dropped
<1> HIDE DEF n
<1>7. \A b \in a .. clock :
        minute_global_sec'[b] = IF b = n THEN minute_global_sec[b] + 1
                                ELSE minute_global_sec[b]
  BY <1>2, <1>5, <1>6
<1>8. \A b \in a .. clock : issued[b] \in Nat /\ minute_global_sec[b] \in Nat
  BY <1>5, WindowTypes
<1>9. \A b \in a .. clock : issued'[b] = IF b = clock THEN issued[b] + 1 ELSE issued[b]
  BY <1>2, <1>5, WindowTypes
<1>10. Between(issued', a, clock) = Between(issued, a, clock) + 1
  <2>1. clock \in a .. clock
    BY <1>4
  <2>. QED
    BY <1>5, <1>8, <1>9, <2>1, SumPlusOne DEF Between
<1>11. ASSUME n < a
       PROVE  Between(minute_global_sec', a, clock) = Between(minute_global_sec, a, clock)
  <2>1. \A b \in a .. clock : minute_global_sec'[b] = minute_global_sec[b]
    BY <1>0, <1>4, <1>7, <1>11
  <2>. QED
    BY <1>5, <1>8, <2>1, SumSame DEF Between
<1>12. ASSUME a <= n
       PROVE  /\ Between(minute_global_sec', a, clock) = Between(minute_global_sec, a, clock) + 1
              /\ Between(minute_global_sec, a, n) < MinuteGlobalSafeLimit
  <2>1. n \in a .. clock
    BY <1>0, <1>4, <1>12
  <2>2. Between(minute_global_sec', a, clock) = Between(minute_global_sec, a, clock) + 1
    BY <1>5, <1>7, <1>8, <2>1, SumPlusOne DEF Between
  <2>3. IsFiniteSet(W) /\ \A y \in W : minute_global_sec[y] \in Nat
    BY <1>0, WindowFinite, WindowTypes
  <2>4. a .. n \subseteq W
    BY <1>0, <1>4, WindowTypes
  <2> HIDE DEF W
  <2>5. Between(minute_global_sec, a, n) <= SumFunctionOnSet(minute_global_sec, W)
    BY <2>3, <2>4, SumOfSubset DEF Between
  <2>6. SumFunctionOnSet(minute_global_sec, W) < MinuteGlobalSafeLimit
    BY <1>3 DEF WindowTotal, W
  <2>7. SumFunctionOnSet(minute_global_sec, W) \in Nat /\ Between(minute_global_sec, a, n) \in Nat
    BY <1>0, <1>4, <2>3, SumType, BetweenType
  <2>. QED
    BY <2>2, <2>5, <2>6, <2>7, WindowTypes
<1>. QED
  BY <1>1, <1>7, <1>10, <1>11, <1>12 DEF n

(* A step of a thread puts no thread among those that wait with a now before   *)
(* the clock, and takes the thread that reserves out of them.                 *)
LEMMA WaitingShrinks ==
  ASSUME TypeOK, Times, NEW t \in Threads, ThreadStep(t), NEW m \in Nat, m <= clock
  PROVE  /\ Waiting(m)' \subseteq Waiting(m)
         /\ ReserveBy(t) => t \notin Waiting(m)'
<1>1. /\ \A u \in Threads \ {t} : frame'[u] = frame[u]
      /\ TimesMove(t, frame'[t])
  BY FrameEffect
<1>2. clock \in Nat /\ frame[t].now \in Nat
  BY WindowTypes
<1>3. t \in Waiting(m)' => t \in Waiting(m)
  BY <1>1, <1>2 DEF TimesMove, Waiting
<1>4. ReserveBy(t) => t \notin Waiting(m)'
  BY <1>1, <1>2 DEF TimesMove, Waiting, ReserveBy
<1>5. \A u \in Threads \ {t} : u \in Waiting(m)' => u \in Waiting(m)
  BY <1>1 DEF Waiting
<1>6. Waiting(m)' \subseteq Threads
  BY DEF Waiting
<1>. QED
  BY <1>3, <1>4, <1>5, <1>6

LEMMA WindowCounts ==
  ASSUME TypeOK, Times, NEW t \in Threads, ThreadStep(t), NEW m \in Nat, m <= clock
  PROVE  /\ Cardinality(Waiting(m)') \in Nat
         /\ Cardinality(Waiting(m)') <= Cardinality(Waiting(m))
         /\ ReserveBy(t) /\ t \in Waiting(m)
            => Cardinality(Waiting(m)') <= Cardinality(Waiting(m)) - 1
         /\ ReserveBy(t) => Cardinality(Waiting(m)') <= Cardinality(Threads) - 1
<1>1. /\ IsFiniteSet(Threads) /\ Cardinality(Threads) \in Nat
      /\ IsFiniteSet(Waiting(m)) /\ Cardinality(Waiting(m)) \in Nat
  BY WaitingFinite
<1>2. Waiting(m)' \subseteq Waiting(m) /\ (ReserveBy(t) => t \notin Waiting(m)')
  BY WaitingShrinks
<1>3. IsFiniteSet(Waiting(m)') /\ Cardinality(Waiting(m)') <= Cardinality(Waiting(m))
  BY <1>1, <1>2, FS_Subset
<1>4. Cardinality(Waiting(m)') \in Nat
  BY <1>3, FS_CardinalityType
<1>5. ASSUME ReserveBy(t), NEW S, IsFiniteSet(S), t \in S, Waiting(m)' \subseteq S
      PROVE  Cardinality(Waiting(m)') <= Cardinality(S) - 1
  <2>1. IsFiniteSet(S \ {t}) /\ Cardinality(S \ {t}) = Cardinality(S) - 1
    BY <1>5, FS_RemoveElement
  <2>2. Waiting(m)' \in SUBSET (S \ {t})
    BY <1>2, <1>5
  <2>3. Cardinality(Waiting(m)') <= Cardinality(S \ {t})
    BY <2>1, <2>2, FS_Subset
  <2>. QED
    BY <2>1, <2>3
<1>6. ReserveBy(t) /\ t \in Waiting(m)
        => Cardinality(Waiting(m)') <= Cardinality(Waiting(m)) - 1
  BY <1>1, <1>2, <1>5
<1>7. Waiting(m) \subseteq Threads
  BY DEF Waiting
<1>8. ReserveBy(t) => Cardinality(Waiting(m)') <= Cardinality(Threads) - 1
  <2>1. Waiting(m)' \subseteq Threads
    BY <1>2, <1>7
  <2>. QED BY <1>1, <1>5, <2>1
<1>. QED
  BY <1>3, <1>4, <1>6, <1>8

LEMMA WindowInit == Init => WindowInv
<1> SUFFICES ASSUME Init PROVE WindowInv
  OBVIOUS
<1>1. TypeOK
  BY TypeInit
<1>2. \A b \in Seconds : issued[b] = 0 /\ minute_global_sec[b] = 0
  BY DEF Init, LimiterInit
<1>3. NothingAhead
  BY <1>2 DEF NothingAhead
<1>4. \A n : Waiting(n) = {}
  BY DEF Init, Outside, Waiting
<1>5. \A n : Cardinality(Waiting(n)) = 0
  BY <1>4, FS_EmptySet
<1>6. ASSUME NEW a \in StillInWindow
      PROVE  Between(issued, a, clock) = 0 /\ Between(minute_global_sec, a, clock) = 0
  <2>1. a \in Seconds /\ clock \in Seconds
    BY <1>1, <1>6, WindowTypes DEF StillInWindow
  <2>2. IsFiniteSet(a .. clock) /\ a .. clock \subseteq Seconds
    BY <1>1, <2>1, BetweenType
  <2>. QED
    BY <1>2, <2>2, SumOfZeros DEF Between
<1>7. IssuedStamped
  BY <1>5, <1>6, WaitingFinite DEF IssuedStamped
<1>8. StampsBounded
  <2>1. ASSUME NEW a \in StillInWindow, NEW m \in a .. clock
        PROVE  minute_global_sec[m] = 0
    BY <1>1, <1>2, <2>1, WindowTypes DEF StillInWindow
  <2>. QED
    BY <2>1 DEF StampsBounded
<1>9. SlidingWindowBounded
  <2>1. clock = 0
    BY DEF Init, LimiterInit
  <2>2. \A s \in Seconds : clock <= s
    BY <1>1, <2>1, WindowTypes
  <2>. QED
    BY <1>1, <1>3, <1>7, <1>8, <2>2, AheadBounded DEF SlidingWindowBounded, AheadInBounds
<1>. QED
  BY <1>3, <1>7, <1>8, <1>9 DEF WindowInv

(* The bound on the stamps after a reservation: either a later stamp is in the  *)
(* window already, and the thread waited with a now before it, or the check of *)
(* the reservation covered all the buckets.                                  *)
LEMMA StampsReserve ==
  ASSUME TypeOK, Times, StampsBounded, NEW t \in Threads, ThreadStep(t), ReserveBy(t),
         NEW a \in StillInWindow, NEW m \in a .. clock, minute_global_sec'[m] > 0
  PROVE  Between(minute_global_sec', a, clock) + Cardinality(Waiting(m)')
           <= MinuteGlobalSafeLimit + Cardinality(Threads) - 1
<1> DEFINE n == frame[t].now
           B == Between(minute_global_sec, a, clock)
           L == MinuteGlobalSafeLimit
           N == Cardinality(Threads)
<1>1. /\ a \in Nat /\ a \in Seconds /\ clock \in Seconds /\ clock \in Nat /\ m \in Nat
      /\ n \in Nat /\ n \in Seconds /\ n <= clock /\ L \in Nat /\ m <= clock /\ a <= m
  BY WindowTypes DEF StillInWindow, Times
<1>2. B \in Nat /\ N \in Nat
  BY <1>1, BetweenType, WaitingFinite
<1>3. \A b \in a .. clock :
        minute_global_sec'[b] = IF b = n THEN minute_global_sec[b] + 1
                                ELSE minute_global_sec[b]
  BY ReserveWindow
<1>4. \A k \in Nat : k <= clock
        => /\ Cardinality(Waiting(k)') \in Nat
           /\ Cardinality(Waiting(k)') <= Cardinality(Waiting(k))
           /\ t \in Waiting(k) => Cardinality(Waiting(k)') <= Cardinality(Waiting(k)) - 1
           /\ Cardinality(Waiting(k)') <= N - 1
           /\ Cardinality(Waiting(k)) \in Nat
  BY WindowCounts, WaitingFinite
<1>5. CASE n < a
  <2>1. Between(minute_global_sec', a, clock) = B
    BY <1>5, ReserveWindow
  <2>2. minute_global_sec[m] > 0
    BY <1>1, <1>3, <1>5
  <2>3. B + Cardinality(Waiting(m)) <= L + N - 1
    BY <2>2 DEF StampsBounded
  <2> HIDE DEF B, L, N, n
  <2>. QED
    BY <1>1, <1>2, <1>4, <2>1, <2>3 DEF L, N
<1>6. CASE a <= n
  <2>1. Between(minute_global_sec', a, clock) = B + 1
    BY <1>6, ReserveWindow
  <2>2. CASE \E k \in a .. clock : minute_global_sec[k] > 0 /\ n < k
    <3>1. PICK k \in a .. clock : minute_global_sec[k] > 0 /\ n < k
      BY <2>2
    <3> DEFINE M == IF k <= m THEN m ELSE k
    <3>2. M \in a .. clock /\ n < M /\ m <= M /\ minute_global_sec[M] > 0
      BY <1>1, <1>3, <3>1
    <3> HIDE DEF M
    <3>3. B + Cardinality(Waiting(M)) <= L + N - 1
      BY <3>2 DEF StampsBounded
    <3>4. t \in Waiting(M)
      BY <3>2 DEF Waiting, ReserveBy
    <3>5. M \in Nat /\ M <= clock
      BY <1>1, <3>2
    <3>6. Cardinality(Waiting(M)') <= Cardinality(Waiting(M)) - 1
      BY <1>4, <3>4, <3>5
    <3>7. Cardinality(Waiting(m)') <= Cardinality(Waiting(M)')
      <4>1. \A u \in Threads : frame'[u].now \in Nat
        <5>1. TypeOK'
          BY TypeStep DEF Next
        <5>2. \A u \in Threads : frame'[u] \in Frame
          BY <5>1 DEF TypeOK
        <5>3. \A u \in Threads : frame'[u].now \in Seconds
          BY <5>2 DEF Frame
        <5>. QED
          BY <5>3, WindowTypes
      <4>2. Waiting(m)' \subseteq Waiting(M)'
        BY <1>1, <3>2, <3>5, <4>1 DEF Waiting
      <4>3. IsFiniteSet(Waiting(M)')
        <5>1. Waiting(M)' \subseteq Threads BY DEF Waiting
        <5>. QED BY <5>1, WaitingFinite, FS_Subset
      <4>. QED
        BY <4>2, <4>3, FS_Subset
    <3> HIDE DEF B, L, N, n
    <3>. QED
      BY <1>1, <1>2, <1>4, <2>1, <3>3, <3>5, <3>6, <3>7 DEF L, N
  <2>3. CASE \A k \in a .. clock : ~(minute_global_sec[k] > 0 /\ n < k)
    <3>1. a .. n \in SUBSET (a .. clock)
      BY <1>1
    <3>2. IsFiniteSet(a .. clock) /\ \A b \in a .. clock : minute_global_sec[b] \in Nat
      BY <1>1, BetweenType, WindowTypes
    <3>3. \A b \in (a .. clock) \ (a .. n) : minute_global_sec[b] = 0
      BY <1>1, <2>3, <3>2
    <3>4. B = Between(minute_global_sec, a, n)
      BY <3>1, <3>2, <3>3, SumOfSupport DEF Between
    <3>5. B < L
      BY <1>6, <3>4, ReserveWindow
    <3>6. Cardinality(Waiting(m)') \in Nat /\ Cardinality(Waiting(m)') <= N - 1
      BY <1>1, <1>4
    <3> HIDE DEF B, L, N, n
    <3>. QED
      BY <1>1, <1>2, <2>1, <3>5, <3>6 DEF L, N
  <2>. QED
    BY <2>2, <2>3
<1>. QED
  BY <1>1, <1>5, <1>6

LEMMA WindowReserve ==
  ASSUME TypeOK, Times, WindowInv, NEW t \in Threads, ThreadStep(t), ReserveBy(t)
  PROVE  NothingAhead' /\ IssuedStamped' /\ StampsBounded'
<1>0. clock' = clock /\ StillInWindow' = StillInWindow
  BY FrameEffect DEF StillInWindow
<1>1. NothingAhead'
  <2>1. frame[t].now \in Nat /\ frame[t].now <= clock /\ clock \in Nat
    BY WindowTypes DEF Times
  <2>2. /\ issued' = [issued EXCEPT ![clock] = @ + 1]
        /\ minute_global_sec' = [b \in Seconds |->
                                   IF Dropped(b, frame[t].now) THEN 0
                                   ELSE IF b = frame[t].now THEN minute_global_sec[b] + 1
                                   ELSE minute_global_sec[b]]
    BY DEF ReserveBy, Reserve, ReserveCounters, ReserveHistory
  <2>3. ASSUME NEW b \in Seconds, b > clock
        PROVE  issued'[b] = 0 /\ minute_global_sec'[b] = 0
    <3>1. issued[b] = 0 /\ minute_global_sec[b] = 0 /\ b # clock /\ b # frame[t].now
      BY <2>1, <2>3 DEF WindowInv, NothingAhead
    <3>. QED
      BY <2>2, <3>1, WindowTypes
  <2>. QED
    BY <1>0, <2>3 DEF NothingAhead
<1>2. IssuedStamped'
  <2>1. SUFFICES ASSUME NEW a \in StillInWindow
                 PROVE  Between(issued', a, clock) + Cardinality(Waiting(a)')
                          <= Between(minute_global_sec', a, clock) + Cardinality(Threads)
    BY <1>0 DEF IssuedStamped, Between
  <2>2. a \in Nat /\ a \in Seconds /\ clock \in Seconds /\ a <= clock /\ frame[t].now \in Nat
    BY WindowTypes DEF StillInWindow
  <2>3. /\ Between(issued, a, clock) \in Nat /\ Between(minute_global_sec, a, clock) \in Nat
        /\ Cardinality(Waiting(a)) \in Nat /\ Cardinality(Threads) \in Nat
    BY <2>2, BetweenType, WaitingFinite
  <2>4. Between(issued, a, clock) + Cardinality(Waiting(a))
          <= Between(minute_global_sec, a, clock) + Cardinality(Threads)
    BY DEF WindowInv, IssuedStamped
  <2>5. /\ Cardinality(Waiting(a)') \in Nat
        /\ Cardinality(Waiting(a)') <= Cardinality(Waiting(a))
        /\ t \in Waiting(a) => Cardinality(Waiting(a)') <= Cardinality(Waiting(a)) - 1
    BY <2>2, WindowCounts
  <2>6. Between(issued', a, clock) = Between(issued, a, clock) + 1
    BY ReserveWindow
  <2>7. CASE frame[t].now < a
    <3>1. t \in Waiting(a)
      BY <2>7 DEF Waiting, ReserveBy
    <3>2. Between(minute_global_sec', a, clock) = Between(minute_global_sec, a, clock)
      BY <2>7, ReserveWindow
    <3>. QED
      BY <2>3, <2>4, <2>5, <2>6, <3>1, <3>2
  <2>8. CASE a <= frame[t].now
    <3>1. Between(minute_global_sec', a, clock) = Between(minute_global_sec, a, clock) + 1
      BY <2>8, ReserveWindow
    <3>. QED
      BY <2>3, <2>4, <2>5, <2>6, <3>1
  <2>. QED
    BY <2>2, <2>7, <2>8
<1>3. StampsBounded'
  <2>1. SUFFICES ASSUME NEW a \in StillInWindow, NEW m \in a .. clock,
                        minute_global_sec'[m] > 0
                 PROVE  Between(minute_global_sec', a, clock) + Cardinality(Waiting(m)')
                          <= MinuteGlobalSafeLimit + Cardinality(Threads) - 1
    BY <1>0 DEF StampsBounded, Between
  <2>. QED
    BY <2>1, StampsReserve DEF WindowInv
<1>. QED
  BY <1>1, <1>2, <1>3

LEMMA WindowStep == TypeOK /\ Times /\ WindowInv /\ [Next]_vars => WindowInv'
<1> SUFFICES ASSUME TypeOK, Times, WindowInv, [Next]_vars
             PROVE  WindowInv'
  OBVIOUS
<1>0. /\ clock \in Nat /\ clock \in Seconds
      /\ issued \in [Seconds -> Nat] /\ minute_global_sec \in [Seconds -> Nat]
  BY WindowTypes
<1>1. TypeOK' /\ Times'
  BY TypeStep, TimesStep
<1>2. ASSUME NothingAhead', IssuedStamped', StampsBounded',
             \A s \in Seconds : s < clock' => WindowTotal(issued', s) = WindowTotal(issued, s)
      PROVE  WindowInv'
  <2>1. ASSUME NEW s \in Seconds
        PROVE  WindowTotal(issued', s) <= MinuteGlobalSafeLimit + 2 * Cardinality(Threads) - 1
    <3>1. CASE s < clock'
      BY <1>2, <3>1 DEF WindowInv, SlidingWindowBounded
    <3>2. CASE clock' <= s
      <4>1. AheadInBounds'
        BY <1>1, <1>2, AheadBounded, PTL
      <4>. QED
        BY <3>2, <4>1 DEF AheadInBounds, WindowTotal
    <3>3. s \in Nat /\ clock' \in Nat
      <4>1. clock' \in Seconds
        BY <1>1 DEF TypeOK, LimiterTypeOK
      <4>. QED
        BY <4>1, WindowTypes
    <3>. QED
      BY <3>1, <3>2, <3>3
  <2>2. SlidingWindowBounded'
    BY <2>1 DEF SlidingWindowBounded, WindowTotal
  <2>. QED
    BY <1>2, <2>2 DEF WindowInv
<1>3. CASE UNCHANGED vars
  <2>1. UNCHANGED <<clock, issued, minute_global_sec, frame>>
    BY <1>3 DEF vars, limiterVars, counters, history
  <2>. QED
    BY <2>1 DEF WindowInv, NothingAhead, IssuedStamped, StampsBounded, SlidingWindowBounded,
                Between, Waiting, StillInWindow, WindowTotal
<1>4. CASE ClockTick
  <2>1. clock' = clock + 1 /\ UNCHANGED <<issued, minute_global_sec, frame>>
    BY <1>4 DEF ClockTick, Tick, counters, history
  <2>2. NothingAhead'
    <3>1. \A b \in Seconds : b > clock + 1 => b > clock
      BY <1>0, WindowTypes
    <3>. QED
      BY <2>1, <3>1 DEF WindowInv, NothingAhead
  <2>3. \A n : Waiting(n)' = Waiting(n)
    BY <2>1 DEF Waiting
  <2>4. ASSUME NEW a \in StillInWindow'
        PROVE  \/ /\ a = clock + 1
                  /\ Between(issued, a, clock + 1) = 0
                  /\ Between(minute_global_sec, a, clock + 1) = 0
               \/ /\ a \in StillInWindow
                  /\ Between(issued, a, clock + 1) = Between(issued, a, clock)
                  /\ Between(minute_global_sec, a, clock + 1)
                       = Between(minute_global_sec, a, clock)
    <3>1. /\ a \in Seconds /\ a \in Nat /\ clock + 1 - SecondsPerMinute < a /\ a <= clock + 1
          /\ clock + 1 \in Seconds
      <4>1. clock + 1 \in Seconds
        BY <1>1, <2>1 DEF TypeOK, LimiterTypeOK
      <4>. QED
        BY <2>1, <4>1, WindowTypes DEF StillInWindow
    <3>2. IsFiniteSet(a .. clock + 1) /\ a .. clock + 1 \subseteq Seconds
      BY <3>1, BetweenType
    <3>3. issued[clock + 1] = 0 /\ minute_global_sec[clock + 1] = 0
      BY <1>0, <3>1 DEF WindowInv, NothingAhead
    <3>4. CASE a = clock + 1
      <4>1. \A y \in a .. clock + 1 : issued[y] = 0 /\ minute_global_sec[y] = 0
        BY <1>0, <3>3, <3>4
      <4>. QED
        BY <3>2, <3>4, <4>1, SumOfZeros DEF Between
    <3>5. CASE a # clock + 1
      <4>1. a \in StillInWindow
        BY <1>0, <3>1, <3>5, WindowTypes DEF StillInWindow
      <4>2. a .. clock \in SUBSET (a .. clock + 1)
        BY <1>0, <3>1
      <4>3. \A y \in (a .. clock + 1) \ (a .. clock) : y = clock + 1
        BY <1>0, <3>1
      <4>4. \A y \in a .. clock + 1 : issued[y] \in Nat /\ minute_global_sec[y] \in Nat
        BY <3>2, WindowTypes
      <4>. QED
        <5>1. \A y \in (a .. clock + 1) \ (a .. clock) : issued[y] = 0
          BY <3>3, <4>3
        <5>2. \A y \in (a .. clock + 1) \ (a .. clock) : minute_global_sec[y] = 0
          BY <3>3, <4>3
        <5>3. Between(issued, a, clock + 1) = Between(issued, a, clock)
          BY <3>2, <4>2, <4>4, <5>1, SumOfSupport DEF Between
        <5>4. Between(minute_global_sec, a, clock + 1) = Between(minute_global_sec, a, clock)
          BY <3>2, <4>2, <4>4, <5>2, SumOfSupport DEF Between
        <5>. QED
          BY <4>1, <5>3, <5>4
    <3>. QED
      BY <3>4, <3>5
  <2>5. IssuedStamped'
    <3>1. SUFFICES ASSUME NEW a \in StillInWindow'
                   PROVE  Between(issued, a, clock + 1) + Cardinality(Waiting(a))
                            <= Between(minute_global_sec, a, clock + 1) + Cardinality(Threads)
      BY <2>1, <2>3 DEF IssuedStamped, Between
    <3>2. /\ Cardinality(Waiting(a)) \in Nat /\ Cardinality(Threads) \in Nat
          /\ Cardinality(Waiting(a)) <= Cardinality(Threads)
      BY WaitingFinite
    <3>. QED
      BY <2>4, <3>2 DEF WindowInv, IssuedStamped
  <2>6. StampsBounded'
    <3>1. SUFFICES ASSUME NEW a \in StillInWindow', NEW m \in a .. clock + 1,
                          minute_global_sec[m] > 0
                   PROVE  Between(minute_global_sec, a, clock + 1) + Cardinality(Waiting(m))
                            <= MinuteGlobalSafeLimit + Cardinality(Threads) - 1
      BY <2>1, <2>3 DEF StampsBounded, Between
    <3>2. a \in Nat /\ m \in Seconds
      <4>1. a \in Nat /\ clock + 1 \in Seconds /\ a \in Seconds
        BY <1>1, <2>1, WindowTypes DEF StillInWindow, TypeOK, LimiterTypeOK
      <4>. QED
        BY <4>1, BetweenType
    <3>3. m # clock + 1
      BY <1>0, <3>1, <3>2 DEF WindowInv, NothingAhead
    <3>4. a # clock + 1 /\ m \in a .. clock
      BY <1>0, <3>2, <3>3
    <3>. QED
      BY <2>4, <3>1, <3>4 DEF WindowInv, StampsBounded
  <2>. QED
    BY <1>2, <2>1, <2>2, <2>5, <2>6
<1>5. ASSUME NEW t \in Threads, ThreadStep(t)
      PROVE  WindowInv'
  <2>0. clock' = clock /\ StillInWindow' = StillInWindow
    BY <1>5, FrameEffect DEF StillInWindow
  <2>1. CASE ReserveBy(t)
    <3>1. NothingAhead' /\ IssuedStamped' /\ StampsBounded'
      BY <1>5, <2>1, WindowReserve
    <3>2. issued' = [issued EXCEPT ![clock] = @ + 1]
      BY <2>1 DEF ReserveBy, Reserve, ReserveHistory
    <3>3. ASSUME NEW s \in Seconds, s < clock'
          PROVE  WindowTotal(issued', s) = WindowTotal(issued, s)
      <4> DEFINE W == {b \in Seconds : s - SecondsPerMinute < b /\ b <= s}
      <4>1. s \in Nat
        BY WindowTypes
      <4>2. IsFiniteSet(W)
        BY WindowFinite
      <4>3. \A y \in W : issued[y] \in Nat /\ issued'[y] = issued[y]
        BY <1>0, <2>0, <3>2, <3>3, WindowTypes
      <4> HIDE DEF W
      <4>4. SumFunctionOnSet(issued', W) = SumFunctionOnSet(issued, W)
        BY <4>2, <4>3, SumSame
      <4>. QED
        BY <4>4 DEF WindowTotal, W
    <3>. QED
      BY <1>2, <3>1, <3>3
  <2>2. CASE UNCHANGED <<issued, minute_global_sec>>
    <3>1. NothingAhead'
      BY <2>0, <2>2 DEF WindowInv, NothingAhead
    <3>2. ASSUME NEW m \in Nat, m <= clock
          PROVE  /\ Cardinality(Waiting(m)') \in Nat /\ Cardinality(Waiting(m)) \in Nat
                 /\ Cardinality(Waiting(m)') <= Cardinality(Waiting(m))
      BY <1>5, <3>2, WindowCounts, WaitingFinite
    <3>3. ASSUME NEW a \in StillInWindow
          PROVE  /\ a \in Nat /\ a <= clock /\ Cardinality(Threads) \in Nat
                 /\ MinuteGlobalSafeLimit \in Nat
                 /\ Between(issued, a, clock) \in Nat
                 /\ Between(minute_global_sec, a, clock) \in Nat
      <4>1. a \in Nat /\ a <= clock /\ a \in Seconds
        BY WindowTypes DEF StillInWindow
      <4>. QED
        BY <1>0, <4>1, BetweenType, WaitingFinite, WindowTypes
    <3>4. IssuedStamped'
      <4>1. SUFFICES ASSUME NEW a \in StillInWindow
                     PROVE  Between(issued, a, clock) + Cardinality(Waiting(a)')
                              <= Between(minute_global_sec, a, clock) + Cardinality(Threads)
        BY <2>0, <2>2 DEF IssuedStamped, Between
      <4>2. Between(issued, a, clock) + Cardinality(Waiting(a))
              <= Between(minute_global_sec, a, clock) + Cardinality(Threads)
        BY DEF WindowInv, IssuedStamped
      <4>3. a \in Nat /\ a <= clock
        BY <3>3
      <4>4. /\ Cardinality(Waiting(a)') \in Nat /\ Cardinality(Waiting(a)) \in Nat
            /\ Cardinality(Waiting(a)') <= Cardinality(Waiting(a))
        BY <3>2, <4>3
      <4>. QED
        BY <3>3, <4>2, <4>4
    <3>5. StampsBounded'
      <4>1. SUFFICES ASSUME NEW a \in StillInWindow, NEW m \in a .. clock,
                            minute_global_sec[m] > 0
                     PROVE  Between(minute_global_sec, a, clock) + Cardinality(Waiting(m)')
                              <= MinuteGlobalSafeLimit + Cardinality(Threads) - 1
        BY <2>0, <2>2 DEF StampsBounded, Between
      <4>2. Between(minute_global_sec, a, clock) + Cardinality(Waiting(m))
              <= MinuteGlobalSafeLimit + Cardinality(Threads) - 1
        BY <4>1 DEF WindowInv, StampsBounded
      <4>3. m \in Nat /\ m <= clock
        BY <1>0, <3>3
      <4>4. /\ Cardinality(Waiting(m)') \in Nat /\ Cardinality(Waiting(m)) \in Nat
            /\ Cardinality(Waiting(m)') <= Cardinality(Waiting(m))
        BY <3>2, <4>3
      <4>. QED
        BY <3>3, <4>2, <4>4
    <3>. QED
      BY <1>2, <2>2, <3>1, <3>4, <3>5
  <2>3. \/ UNCHANGED <<counters, history>>
        \/ \E u \in Threads : ThreadStep(u) /\ (ReserveBy(u) \/ ReleaseBy(u) \/ MarkBy(u))
    BY Effect
  <2>4. ASSUME NEW u \in Threads, ThreadStep(u), ReserveBy(u)
        PROVE  u = t
    BY <1>5, <2>4, FrameEffect DEF TimesMove, ReserveBy
  <2>. QED
    BY <2>1, <2>2, <2>3, <2>4
    DEF counters, history, ReleaseBy, Release, ReleaseCounters, ReleaseHistory,
        MarkBy, MarkExternalDailyLimit
<1>. QED
  BY <1>3, <1>4, <1>5 DEF Next

(* However many threads share the limiter and whatever the limit: the requests  *)
(* that leave in any SecondsPerMinute consecutive seconds pass the global safe *)
(* limit by less than two per thread.                                       *)
THEOREM SlidingWindowCorrect == Spec => []SlidingWindowBounded
<1>1. TypeOK /\ Times /\ WindowInv /\ [Next]_vars => (TypeOK /\ Times /\ WindowInv)'
  BY TypeStep, TimesStep, WindowStep
<1>2. Init => TypeOK /\ Times /\ WindowInv
  BY TypeInit, TimesInit, WindowInit
<1>3. WindowInv => SlidingWindowBounded
  BY DEF WindowInv
<1>. QED
  BY <1>1, <1>2, <1>3, PTL DEF Spec
=============================================================================
