---------------------------- MODULE RateLimiter ----------------------------
(***************************************************************************)
(* The token buckets of api/internal/ratelimit/ratelimit.go: Allow refills *)
(* lazily from the time elapsed since the last call, Cleanup forgets the   *)
(* buckets of clients that were idle.  Both hold the mutex, so each is one *)
(* step; time.Now is monotonic.  Tokens are counted in units of 1/Cost of  *)
(* a token, Rate of which arrive in a tick.                                *)
(***************************************************************************)
EXTENDS Integers, Sequences

CONSTANTS
    Clients,
    Burst,     \* tokens in a full bucket
    Cost,      \* units in a token
    Rate,      \* units that arrive per tick
    IdleTTL,   \* ticks without a request after which Cleanup evicts
    Period,    \* ticks between two rounds of runLimiterCleanup
    MaxTime,   \* bound: the clock stops here
    NoBucket

Full == Burst * Cost

ASSUME RatesAssumption ==
    /\ Burst \in Nat \ {0} /\ Cost \in Nat \ {0} /\ Rate \in Nat \ {0}
    /\ IdleTTL \in Nat /\ Period \in Nat \ {0} /\ MaxTime \in Nat

\* main.go: 15 minutes idle refill 150 of 10 tokens, and 1800 of 60.
ASSUME EvictionAssumption == IdleTTL * Rate >= Full

ASSUME NoBucketAssumption == NoBucket \notin [tokens : Int, lastFill : Int, lastSeen : Int]

VARIABLES
    now,       \* the clock
    cleaned,   \* when runLimiterCleanup last ran
    bucket,    \* the map
    verdict,   \* the last answer to each client
    log        \* history: when the requests of each client were admitted

limiterVars == <<now, cleaned, bucket, verdict, log>>

Buckets == [tokens : 0..Full, lastFill : 0..MaxTime, lastSeen : 0..MaxTime]

LimiterInit ==
    /\ now = 0
    /\ cleaned = 0
    /\ bucket = [k \in Clients |-> NoBucket]
    /\ verdict = [k \in Clients |-> "none"]
    /\ log = [k \in Clients |-> <<>>]

AtMost(a, b) == IF a <= b THEN a ELSE b

\* What Allow would find after creating the bucket or refilling it.
Credit(k) ==
    IF bucket[k] = NoBucket
       THEN Full
       ELSE AtMost(Full, bucket[k].tokens + (now - bucket[k].lastFill) * Rate)

\* Mutant: lastFill is forgotten when the request is refused.
AllowKeepsFill(k) ==
    LET paid == Credit(k) >= Cost IN
    /\ bucket' = [bucket EXCEPT ![k] =
          [tokens |-> IF paid THEN Credit(k) - Cost ELSE Credit(k),
           lastFill |-> IF paid \/ bucket[k] = NoBucket THEN now ELSE bucket[k].lastFill,
           lastSeen |-> now]]
    /\ verdict' = [verdict EXCEPT ![k] = IF paid THEN "admitted" ELSE "refused"]
    /\ log' = IF paid THEN [log EXCEPT ![k] = Append(@, now)] ELSE log
    /\ UNCHANGED <<now, cleaned>>

\* Limiter.Allow and the answer of Middleware.
Allow(k) ==
    LET paid == Credit(k) >= Cost IN
    /\ bucket' = [bucket EXCEPT ![k] =
          [tokens |-> IF paid THEN Credit(k) - Cost ELSE Credit(k),
           lastFill |-> now,
           lastSeen |-> now]]
    /\ verdict' = [verdict EXCEPT ![k] = IF paid THEN "admitted" ELSE "refused"]
    /\ log' = IF paid THEN [log EXCEPT ![k] = Append(@, now)] ELSE log
    /\ UNCHANGED <<now, cleaned>>

\* Mutant: empty buckets are evicted too early, by one tick short of what refills them.
IdleAfterRefillStarted(k) == bucket[k] # NoBucket /\ bucket[k].lastSeen < now

\* lastSeen is before the cutoff.
Idle(k) == bucket[k] # NoBucket /\ bucket[k].lastSeen < now - IdleTTL

\* Mutant: the ticker of runLimiterCleanup evicts nothing.
CleanupNothing == cleaned' = now /\ UNCHANGED <<now, bucket, verdict, log>>

\* Limiter.Cleanup, run by the ticker.
Cleanup ==
    /\ cleaned' = now
    /\ bucket' = [k \in Clients |-> IF Idle(k) THEN NoBucket ELSE bucket[k]]
    /\ UNCHANGED <<now, verdict, log>>

\* The ticker is due no later than a Period after it last fired.
Tick ==
    /\ now < MaxTime /\ now < cleaned + Period
    /\ now' = now + 1
    /\ UNCHANGED <<cleaned, bucket, verdict, log>>

LimiterNext == Tick \/ Cleanup \/ \E k \in Clients : Allow(k)

LimiterSpec == LimiterInit /\ [][LimiterNext]_limiterVars

-----------------------------------------------------------------------------

LimiterTypeOK ==
    /\ now \in 0..MaxTime
    /\ cleaned \in 0..now
    /\ bucket \in [Clients -> Buckets \cup {NoBucket}]
    /\ \A k \in Clients : bucket[k] # NoBucket => bucket[k].lastFill <= now
    /\ verdict \in [Clients -> {"none", "admitted", "refused"}]
    /\ log \in [Clients -> Seq(0..MaxTime)]

\* The promise of a token bucket, evictions included: between any two admissions a client got
\* no more than a burst and what was refilled in between.
WindowIsBounded ==
    \A k \in Clients : \A j \in 1..Len(log[k]) : \A i \in 1..j :
        (j - i + 1) * Cost <= Full + (log[k][j] - log[k][i]) * Rate

\* "So the map stays bounded": a bucket is gone one cleanup after its client was idle.
MapHoldsRecentClients ==
    \A k \in Clients : bucket[k] # NoBucket => now <= bucket[k].lastSeen + IdleTTL + Period

Budget == INSTANCE RateBudget WITH credit <- [k \in Clients |-> Credit(k)]

\* Lazy refills and evictions cannot be noticed: the limiter is the credit that grows with
\* every tick.
ImplementsBudget == Budget!Spec
==============================================================================
