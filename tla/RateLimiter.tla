----------------------------- MODULE RateLimiter -----------------------------
(***************************************************************************)
(* The fixed-window limiter of the API (middleware/rate-limit.ts) for one   *)
(* identity: several instances count in Redis, and each in its own memory   *)
(* once Redis has failed it within a window.  A key names the window it was *)
(* computed in, so `window` stands for the key.                             *)
(***************************************************************************)
EXTENDS Integers, FiniteSets

CONSTANTS
    Call,           \* requests of the identity
    Instance,       \* API processes
    NoInstance,     \* handles a call that has not arrived
    Limit,          \* max
    WindowMs,       \* windowMs, in ticks
    MaxClock        \* bound on the clock

ASSUME LimiterAssumption ==
    /\ NoInstance \notin Instance
    /\ IsFiniteSet(Call) /\ IsFiniteSet(Instance)
    /\ Limit \in Nat /\ WindowMs \in Nat \ {0} /\ MaxClock \in Nat

Never == MaxClock + WindowMs + 1
Window == 0..(MaxClock \div WindowMs)

VARIABLES
    clock,
    phase,          \* what a call waits for, and its outcome
    handler,        \* the instance that handles a call
    window,         \* the window its key names
    redis,          \* counters in Redis, 0 for none
    expiry,         \* and when they expire
    memory,         \* an instance's memoryCounters: count and resetAt
    redisFallbackKeys

lvars == <<clock, phase, handler, window, redis, expiry, memory, redisFallbackKeys>>

noCounter == [count |-> 0, resetAt |-> 0]

LimiterInit ==
    /\ clock = 0
    /\ phase = [c \in Call |-> "unsent"]
    /\ handler = [c \in Call |-> NoInstance]
    /\ window = [c \in Call |-> 0]
    /\ redis = [w \in Window |-> 0]
    /\ expiry = [w \in Window |-> Never]
    /\ memory = [i \in Instance |-> [w \in Window |-> noCounter]]
    /\ redisFallbackKeys = [i \in Instance |-> {}]

(* Fault: a window may be entered once more. *)
Outcome_OneMore(c, count) ==
    phase' = [phase EXCEPT ![c] = IF count > Limit + 1 THEN "limited" ELSE "accepted"]

Outcome(c, count) ==
    phase' = [phase EXCEPT ![c] = IF count > Limit THEN "limited" ELSE "accepted"]

bucketResetFor == ((clock \div WindowMs) + 1) * WindowMs

(* An entry whose time is over starts again, its key notwithstanding. *)
incrementMemoryCounter(i, c, w) ==
    LET current == memory[i][w]
        updated == IF current.resetAt <= clock THEN [count |-> 1, resetAt |-> bucketResetFor]
                ELSE [current EXCEPT !.count = @ + 1]
    IN memory' = [memory EXCEPT ![i][w] = updated] /\ Outcome(c, updated.count)

bucket == clock \div WindowMs

(* The key is computed, and without Redis counted, in one turn. *)
rateLimit(c, i) ==
    /\ phase[c] = "unsent"
    /\ handler' = [handler EXCEPT ![c] = i]
    /\ window' = [window EXCEPT ![c] = bucket]
    /\ IF bucket \in redisFallbackKeys[i]
         THEN incrementMemoryCounter(i, c, bucket)
         ELSE phase' = [phase EXCEPT ![c] = "incr"] /\ UNCHANGED memory
    /\ UNCHANGED <<clock, redis, expiry, redisFallbackKeys>>

(* INCR is executed and answered, or executed and its answer lost. *)
incrementRedisCounter(c) ==
    LET count == redis[window[c]] + 1 IN
    /\ phase[c] = "incr"
    /\ redis' = [redis EXCEPT ![window[c]] = count]
    /\ \/ count = 1 /\ phase' = [phase EXCEPT ![c] = "expire"]
       \/ count > 1 /\ Outcome(c, count)
       \/ phase' = [phase EXCEPT ![c] = "failed"]
    /\ UNCHANGED <<clock, handler, window, expiry, memory, redisFallbackKeys>>

setExpiry(c) ==
    /\ phase[c] = "expire"
    /\ expiry' = [expiry EXCEPT ![window[c]] = clock + WindowMs]
    /\ Outcome(c, 1) \/ phase' = [phase EXCEPT ![c] = "failed"]
    /\ UNCHANGED <<clock, handler, window, redis, memory, redisFallbackKeys>>

(* Redis cannot be reached, refuses, or is too slow to answer. *)
redisUnavailable(c) ==
    /\ phase[c] \in {"incr", "expire"}
    /\ phase' = [phase EXCEPT ![c] = "failed"]
    /\ UNCHANGED <<clock, handler, window, redis, expiry, memory, redisFallbackKeys>>

(* Fault: the memory goes on from what Redis counted. *)
fallback_Carries(c) ==
    LET w == window[c]
        count == redis[w] + memory[handler[c]][w].count + 1
    IN /\ phase[c] = "failed"
       /\ redisFallbackKeys' = [redisFallbackKeys EXCEPT ![handler[c]] = @ \cup {w}]
       /\ memory' = [memory EXCEPT ![handler[c]][w] = [count |-> count, resetAt |-> bucketResetFor]]
       /\ Outcome(c, count)
       /\ UNCHANGED <<clock, handler, window, redis, expiry>>

fallback(c) ==
    /\ phase[c] = "failed"
    /\ redisFallbackKeys' = [redisFallbackKeys EXCEPT ![handler[c]] = @ \cup {window[c]}]
    /\ incrementMemoryCounter(handler[c], c, window[c])
    /\ UNCHANGED <<clock, handler, window, redis, expiry>>

(* REDIS_RATE_LIMIT_TIMEOUT_MS is far below windowMs: a call that waits for *)
(* Redis is answered or fails at the latest as its window ends.            *)
ClockTick ==
    /\ clock < MaxClock
    /\ \A c \in Call : phase[c] \in {"incr", "expire", "failed"}
                       => clock < (window[c] + 1) * WindowMs
    /\ clock' = clock + 1
    /\ redis' = [w \in Window |-> IF expiry[w] <= clock + 1 THEN 0 ELSE redis[w]]
    /\ expiry' = [w \in Window |-> IF expiry[w] <= clock + 1 THEN Never ELSE expiry[w]]
    /\ UNCHANGED <<phase, handler, window, memory, redisFallbackKeys>>

LimiterNext ==
    \/ ClockTick
    \/ \E c \in Call, i \in Instance : rateLimit(c, i)
    \/ \E c \in Call : incrementRedisCounter(c) \/ setExpiry(c) \/ redisUnavailable(c) \/ fallback(c)

LimiterSpec == LimiterInit /\ [][LimiterNext]_lvars

-----------------------------------------------------------------------------
Phase == {"unsent", "incr", "expire", "failed", "accepted", "limited"}
Within(w) == {c \in Call : phase[c] # "unsent" /\ window[c] = w}
Accepted(w) == {c \in Within(w) : phase[c] = "accepted"}

(* Variables have their types. *)
LimiterTypeOK ==
    /\ clock \in 0..MaxClock
    /\ phase \in [Call -> Phase] /\ handler \in [Call -> Instance \cup {NoInstance}]
    /\ window \in [Call -> Window]
    /\ redis \in [Window -> Nat] /\ expiry \in [Window -> 0..Never]
    /\ memory \in [Instance -> [Window -> [count : Nat, resetAt : 0..Never]]]
    /\ redisFallbackKeys \in [Instance -> SUBSET Window]

(* A 429 is deserved: the identity sent more than the limit within the      *)
(* window (docs/ingestion-rate-limits.md:15), although lost answers count a *)
(* call twice, in two stores.                                              *)
LimitedOnlyAbove ==
    \A c \in Call : phase[c] = "limited" => Cardinality(Within(window[c])) > Limit

(* "falls back to an in-memory counter ... degrades safely"                *)
(* (ingestion-rate-limits.md:20): before a window ends it has let in at     *)
(* most the limit for Redis, which counts for all instances, and once more *)
(* for every instance that fell back within it.                            *)
LimitPerStore ==
    \A w \in Window :
       clock \div WindowMs = w
       => Cardinality(Accepted(w))
            <= Limit * (1 + Cardinality({i \in Instance : w \in redisFallbackKeys[i]}))
=============================================================================
