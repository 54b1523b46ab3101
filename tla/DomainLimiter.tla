---------------------------- MODULE DomainLimiter ----------------------------
(* One domain's bucket of DomainRateLimiter (yozh-crawler/src/limiter.py).  *)
(* Times are relative to now: `ready` is what is left until next_ready_at,  *)
(* `throttled` until throttled_until. The factor is in twentieths.          *)
EXTENDS Naturals, FiniteSetsExt

CONSTANTS
  Intervals,    \* 1/rps of the jobs that crawl this domain; multiples of 5
  MaxInterval,  \* 1/0.01, the longest interval
  Cooldown      \* length of the window a 429 opens

VARIABLES
  interval,   \* 1/rps of the bucket
  ready, throttled, factor,
  sleeper,    \* the caller asleep with the lock: the interval it will charge, or 0
  since,      \* history: time since the last token, counted up to the shortest interval
  gap         \* history: time between the last two tokens, counted likewise

ASSUME LimiterAssumption ==
  /\ Intervals \subseteq Nat /\ Intervals # {} /\ MaxInterval \in Nat /\ Cooldown \in Nat
  /\ \A i \in Intervals : i <= MaxInterval

lvars == <<interval, ready, throttled, factor, sleeper, since, gap>>

LInit ==
  /\ interval \in Intervals /\ ready = 0 /\ throttled = 0 /\ factor = 20
  /\ sleeper = 0 /\ since = Min(Intervals) /\ gap = since

(* The jitter multiplies by 0.8 to 1.2.                                    *)
Charged(fifths) ==
  LET throttledTo == IF throttled > 0 THEN (interval * 20) \div factor ELSE interval
  IN (Min({throttledTo, MaxInterval}) * fifths) \div 5

Token(charge) ==
  /\ ready' = charge /\ sleeper' = 0
  /\ since' = 0 /\ gap' = since

(* acquire(): the interval is fixed on entry to the lock, which is held    *)
(* during the sleep; the next slot counts from the end of the sleep.       *)
EnterBucket ==
  /\ sleeper = 0
  /\ \E fifths \in 4..6 :
       IF ready = 0 THEN Token(Charged(fifths))
       ELSE sleeper' = Charged(fifths) /\ UNCHANGED <<ready, since, gap>>
  /\ UNCHANGED <<interval, throttled, factor>>

WakeUncharged ==
  /\ sleeper > 0 /\ ready = 0
  /\ sleeper' = 0 /\ since' = 0 /\ gap' = since
  /\ UNCHANGED <<interval, ready, throttled, factor>>

WakeUp ==
  /\ sleeper > 0 /\ ready = 0 /\ Token(sleeper)
  /\ UNCHANGED <<interval, throttled, factor>>

(* The task waiting for its token is cancelled.                            *)
WaitCancelled ==
  /\ sleeper > 0 /\ sleeper' = 0
  /\ UNCHANGED <<interval, ready, throttled, factor, since, gap>>

On429 ==
  /\ factor' = Max({2, factor \div 2}) /\ throttled' = Cooldown
  /\ UNCHANGED <<interval, ready, sleeper, since, gap>>

OnSuccess ==
  /\ throttled = 0 /\ factor < 20
  /\ factor' = Min({20, (factor * 3) \div 2})
  /\ UNCHANGED <<interval, ready, throttled, sleeper, since, gap>>

SetRps ==
  /\ interval' \in Intervals
  /\ UNCHANGED <<ready, throttled, factor, sleeper, since, gap>>

Less(t) == IF t = 0 THEN 0 ELSE t - 1

Elapse ==
  /\ ready' = Less(ready) /\ throttled' = Less(throttled)
  /\ since' = Min({since + 1, Min(Intervals)})
  /\ UNCHANGED <<interval, factor, sleeper, gap>>

LNext == EnterBucket \/ WakeUp \/ WaitCancelled \/ On429 \/ OnSuccess \/ SetRps \/ Elapse
LSpec == LInit /\ [][LNext]_lvars

-----------------------------------------------------------------------------
(* Whoever waits, gives up or changes the rate, two tokens of a domain are *)
(* never closer than the fastest of its jobs allows, jitter included.      *)
RateKept == gap >= (Min(Intervals) * 4) \div 5
=============================================================================
