------------------------------ MODULE KeyPool ------------------------------
(***************************************************************************)
(* OpenDartClientPool: every worker thread runs _call, which reserves a key *)
(* in the quota table, calls OpenDART, and retries or moves to another key  *)
(* according to the answer.  A thread is a sequence of small steps; between *)
(* two of them the other threads and the clock move.                        *)
(*                                                                         *)
(* Control points of a thread (pc):                                        *)
(*   idle       outside _call                                              *)
(*   claim      about to enter _reserve_key, after the sleep until wake    *)
(*   select     in the offset loop of _reserve_key, before reserve reads   *)
(*              now                                                        *)
(*   reserve    reserve has read now, its transaction has not run yet      *)
(*   invoke     the HTTP request is out                                    *)
(*   release    a transport failure; release has read now                  *)
(*   mark       a 020; mark_external_daily_limit has read now              *)
(*   reselect   in _reserve_specific_key, after the sleep until wake       *)
(*   rereserve  there, reserve has read now                                *)
(***************************************************************************)
EXTENDS RateLimiter

CONSTANTS
  MaxAttempts,   (* requests per key of a call: len(_TRANSPORT_BACKOFF) + 1    *)
  MaxCalls       (* bound: the calls a thread makes                            *)

ASSUME PoolAssumption ==
  /\ MaxAttempts \in Nat \ {0}
  /\ MaxCalls \in Nat

VARIABLES
  next_index,   (* self._next_index                                          *)
  frame         (* the call stack of each thread, a record:                  *)
                (*   pc           control point, see above                   *)
                (*   calls        calls started (bounds the model)           *)
                (*   api          api_name                                   *)
                (*   start_index, offset   locals of _reserve_key            *)
                (*   tried        tried_identifiers                          *)
                (*   key          api_key, once reserved                     *)
                (*   now          what the pending limiter call has read     *)
                (*   stamp        the now of the reservation it holds        *)
                (*   attempts     requests sent with key                     *)
                (*   limited      keys that answered 020 in this call        *)
                (*                (last_limit_error is None while it is {})  *)
                (*   wake         when wait_for_capacity returns             *)
                (*   result       how its last call ended                    *)

vars == <<limiterVars, next_index, frame>>

PC == {"idle", "claim", "select", "reserve", "invoke", "release", "mark",
       "reselect", "rereserve"}
Result == {"none", "answered", "TRANSPORT", "020", "daily_quota_counted"}

(* The frame of a thread outside _call: its locals are gone.                 *)
Outside(n, how) ==
  [pc |-> "idle", calls |-> n, api |-> "list", start_index |-> 0, offset |-> 0,
   tried |-> {}, key |-> 0, now |-> 0, stamp |-> 0, attempts |-> 0,
   limited |-> {}, wake |-> 0, result |-> how]

(* The frame of a thread in _call between two keys: only the locals of _call *)
(* are still live.                                                          *)
InCall(t, label) ==
  [Outside(frame[t].calls, "none") EXCEPT
     !.pc = label, !.api = frame[t].api, !.tried = frame[t].tried,
     !.limited = frame[t].limited]

(* The same thread while it works with its reserved key.                     *)
WithKey(t, label) ==
  [InCall(t, label) EXCEPT !.key = frame[t].key, !.attempts = frame[t].attempts]

Becomes(t, f) == frame' = [frame EXCEPT ![t] = f]
Leave(t, how) == Becomes(t, Outside(frame[t].calls, how))

-----------------------------------------------------------------------------
(* A worker calls one of the pool's API methods.                            *)
Call(t, a) ==
  /\ frame[t].pc = "idle"
  /\ frame[t].calls < MaxCalls
  /\ Becomes(t, [Outside(frame[t].calls + 1, "none") EXCEPT !.pc = "claim", !.api = a])
  /\ UNCHANGED <<limiterVars, next_index>>

(* The key at an offset of the round robin that begins at index i.           *)
Candidate(i, offset) == (i + offset) % NumKeys

(* The offsets from o on whose key is not excluded, and the first of them.   *)
Untried(t, i, o) == {p \in o .. NumKeys - 1 : Candidate(i, p) \notin frame[t].tried}
First(offsets, o) == o \in offsets /\ \A p \in offsets : o <= p

(* Mutant of ClaimStartIndex: the index is not wrapped.                       *)
ClaimStartIndex_NoWrap(t) ==
  /\ frame[t].pc = "claim"
  /\ clock >= frame[t].wake
  /\ next_index' = next_index + 1
  /\ \E o \in 0 .. NumKeys - 1 :
       /\ First(Untried(t, next_index, 0), o)
       /\ Becomes(t, [InCall(t, "reserve") EXCEPT !.start_index = next_index,
                                                  !.offset = o, !.now = clock])
  /\ UNCHANGED limiterVars

(* _reserve_key starts: _claim_start_index moves the shared round-robin index *)
(* under its lock, and reserve reads now for the first untried key.          *)
ClaimStartIndex(t) ==
  /\ frame[t].pc = "claim"
  /\ clock >= frame[t].wake
  /\ next_index' = (next_index + 1) % NumKeys
  /\ \E o \in 0 .. NumKeys - 1 :
       /\ First(Untried(t, next_index, 0), o)
       /\ Becomes(t, [InCall(t, "reserve") EXCEPT !.start_index = next_index,
                                                  !.offset = o, !.now = clock])
  /\ UNCHANGED limiterVars

(* The next turn of the offset loop: reserve reads now.                      *)
SelectKey(t) ==
  /\ frame[t].pc = "select"
  /\ Becomes(t, [frame[t] EXCEPT !.pc = "reserve", !.now = clock])
  /\ UNCHANGED <<limiterVars, next_index>>

(* The reserve transaction commits and _call adds the key to tried.          *)
ReserveKey(t) ==
  LET k == Candidate(frame[t].start_index, frame[t].offset) IN
  /\ frame[t].pc = "reserve"
  /\ Reserve(frame[t].api, k, frame[t].now)
  /\ Becomes(t, [InCall(t, "invoke") EXCEPT !.key = k, !.attempts = 1,
                                            !.tried = @ \cup {k},
                                            !.stamp = frame[t].now])
  /\ UNCHANGED <<clock, next_index>>

(* wait_for_capacity sleeps on a minute limit and the loop around it starts   *)
(* over; a daily limit leaves _call.                                        *)
WaitOrRaise(t, quota_type, retry) ==
  IF quota_type \in {"minute_all", "minute_global"}
  THEN \E w \in RetryTimes(quota_type, clock) : Becomes(t, [retry EXCEPT !.wake = w])
  ELSE Leave(t, "daily_quota_counted")

(* The reserve transaction rolls back.  The loop of _reserve_key goes on to   *)
(* the next untried key; after the last one it raises with the quota_type of *)
(* that LAST error.                                                         *)
ReserveKeyLimited(t) ==
  LET i == frame[t].start_index
      quota_type == RateLimitExceeded(frame[t].api, Candidate(i, frame[t].offset),
                                      frame[t].now)
      rest == Untried(t, i, frame[t].offset + 1)
  IN /\ frame[t].pc = "reserve"
     /\ quota_type # "none"
     /\ \/ /\ rest = {}
           /\ WaitOrRaise(t, quota_type, InCall(t, "claim"))
        \/ \E o \in 0 .. NumKeys - 1 :
             /\ First(rest, o)
             /\ Becomes(t, [InCall(t, "select") EXCEPT !.start_index = i, !.offset = o])
     /\ UNCHANGED <<limiterVars, next_index>>

(* A success, or an error other than TRANSPORT and 020, leaves _call.        *)
Answer(t) ==
  /\ frame[t].pc = "invoke"
  /\ Leave(t, "answered")
  /\ UNCHANGED <<limiterVars, next_index>>

(* invoke raises TRANSPORT or 020: the limiter call that follows reads now.  *)
Fail(t, label) ==
  /\ frame[t].pc = "invoke"
  /\ Becomes(t, [frame[t] EXCEPT !.pc = label, !.now = clock])
  /\ UNCHANGED <<limiterVars, next_index>>
TransportFailure(t) == Fail(t, "release")
DailyLimitAnswer(t) == Fail(t, "mark")

(* release, then raise on the last attempt, else sleep and reserve the same  *)
(* key again.                                                               *)
ReleaseKey(t) ==
  /\ frame[t].pc = "release"
  /\ Release(t, frame[t].api, frame[t].key, frame[t].now, frame[t].stamp)
  /\ IF frame[t].attempts >= MaxAttempts
     THEN Leave(t, "TRANSPORT")
     ELSE Becomes(t, WithKey(t, "reselect"))
  /\ UNCHANGED <<clock, next_index>>

(* _reserve_specific_key: reserve reads now.                                *)
SelectSameKey(t) ==
  /\ frame[t].pc = "reselect"
  /\ clock >= frame[t].wake
  /\ Becomes(t, [WithKey(t, "rereserve") EXCEPT !.now = clock])
  /\ UNCHANGED <<limiterVars, next_index>>

ReserveSameKey(t) ==
  /\ frame[t].pc = "rereserve"
  /\ Reserve(frame[t].api, frame[t].key, frame[t].now)
  /\ Becomes(t, [WithKey(t, "invoke") EXCEPT !.attempts = @ + 1,
                                             !.stamp = frame[t].now])
  /\ UNCHANGED <<clock, next_index>>

(* A minute limit is waited for; a daily limit leaves _call although other   *)
(* keys may be untried.                                                     *)
ReserveSameKeyLimited(t) ==
  LET quota_type == RateLimitExceeded(frame[t].api, frame[t].key, frame[t].now) IN
  /\ frame[t].pc = "rereserve"
  /\ quota_type # "none"
  /\ WaitOrRaise(t, quota_type, WithKey(t, "reselect"))
  /\ UNCHANGED <<limiterVars, next_index>>

(* Mutant of MarkKey: the 020 is raised although untried keys are left.       *)
MarkKey_RaiseAtOnce(t) ==
  /\ frame[t].pc = "mark"
  /\ MarkExternalDailyLimit(frame[t].api, frame[t].key, frame[t].now)
  /\ Leave(t, "020")
  /\ UNCHANGED <<clock, next_index>>

(* A 020 closes the key for the day and _call moves to an untried key; when  *)
(* none is left it raises the 020.                                          *)
MarkKey(t) ==
  /\ frame[t].pc = "mark"
  /\ MarkExternalDailyLimit(frame[t].api, frame[t].key, frame[t].now)
  /\ IF frame[t].tried = Keys
     THEN Leave(t, "020")
     ELSE Becomes(t, [InCall(t, "claim") EXCEPT !.limited = @ \cup {frame[t].key}])
  /\ UNCHANGED <<clock, next_index>>

ClockTick == Tick /\ UNCHANGED <<counters, history, next_index, frame>>

-----------------------------------------------------------------------------
Init ==
  /\ LimiterInit
  /\ next_index = 0
  /\ frame = [t \in Threads |-> Outside(0, "none")]

ThreadStep(t) ==
  \/ \E a \in Api : Call(t, a)
  \/ ClaimStartIndex(t)
  \/ SelectKey(t)
  \/ ReserveKey(t)
  \/ ReserveKeyLimited(t)
  \/ Answer(t)
  \/ TransportFailure(t)
  \/ DailyLimitAnswer(t)
  \/ ReleaseKey(t)
  \/ SelectSameKey(t)
  \/ ReserveSameKey(t)
  \/ ReserveSameKeyLimited(t)
  \/ MarkKey(t)

Next == ClockTick \/ \E t \in Threads : ThreadStep(t)

Spec == Init /\ [][Next]_vars

-----------------------------------------------------------------------------
Frame == [pc : PC, calls : 0 .. MaxCalls, api : Api, start_index : Keys,
          offset : Keys, tried : SUBSET Keys, key : Keys, now : Seconds,
          stamp : Seconds, attempts : Nat, limited : SUBSET Keys,
          wake : Nat, result : Result]

(* Types of the quota table, of its history and of the threads.              *)
TypeOK ==
  /\ LimiterTypeOK
  /\ next_index \in Keys
  /\ frame \in [Threads -> Frame]

(* The counters never pass the limits that reserve checks, whatever the       *)
(* threads interleave between reading now, checking and incrementing:        *)
(* check-before-increment of reserve, against release and the 020 mark.      *)
CountersBounded ==
  /\ \A k \in Keys, m \in Minutes : minute_all[k][m] <= MinuteSafeLimit
  /\ \A k \in Keys, d \in Days : daily_quota_counted[k][d] <= DailyEmergencyLimit

(* The counter of a window covers what OpenDART charges to that window but    *)
(* for one call per thread whose transport failure fell in another window:   *)
(* release decrements the window of its own now, not of the reservation.     *)
CountersCoverBilling ==
  /\ \A k \in Keys, m \in Minutes :
       billed_minute[k][m] <= minute_all[k][m] + Cardinality(late_minute[k][m])
  /\ \A k \in Keys, d \in Days :
       billed_day[k][d] <= daily_quota_counted[k][d] + Cardinality(late_day[k][d])

(* What the two give together: the real calls of a key in a minute, or its    *)
(* counted calls of a day, pass the safe limit by at most one per thread.    *)
BilledWithinMargin ==
  /\ \A k \in Keys, m \in Minutes :
       billed_minute[k][m] <= MinuteSafeLimit + Cardinality(Threads)
  /\ \A k \in Keys, d \in Days :
       billed_day[k][d] <= DailyEmergencyLimit + Cardinality(Threads)

(* A key that answered 020 to a counted API is reserved again the same day    *)
(* at most once per release that lands on that day after the mark.           *)
ReuseBoundedByReleases ==
  \A k \in Keys, d \in Days : reserved_after_020[k][d] <= released_after_020[k][d]

(* The docstring of mark_external_daily_limit: such a key is not used again   *)
(* that day.  The code does not keep it: a release of another thread takes   *)
(* the raised counter below the limit again.                                *)
NoReuseAfter020 ==
  \A k \in Keys, d \in Days : reserved_after_020[k][d] = 0

(* _call ends in a 020 only when every key of the pool answered 020 to it.    *)
LimitAnsweredByAllKeys ==
  [][\A t \in Threads :
       frame[t].pc = "mark" /\ frame'[t].result = "020"
         => frame[t].limited \cup {frame[t].key} = Keys]_vars

(* The requests that leave in any SecondsPerMinute consecutive seconds pass   *)
(* the global safe limit by less than two per thread: each thread can carry  *)
(* one reservation stamped before the window into it, and all but one a      *)
(* reservation that was stamped before the window filled up.                 *)
SlidingWindowBounded ==
  \A s \in Seconds :
    WindowTotal(issued, s) <= MinuteGlobalSafeLimit + 2 * Cardinality(Threads) - 1
=============================================================================
