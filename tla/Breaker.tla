-------------------------------- MODULE Breaker --------------------------------
(***************************************************************************)
(* The circuit breaker in front of Redis (internal/platform/cache/redisx). *)
(* It has no lock: every goroutine with a Redis call reads and writes      *)
(* three atomics one at a time, in between those of the others.            *)
(***************************************************************************)
EXTENDS Naturals

CONSTANTS
    Calls,          \* goroutines that call Redis
    Threshold       \* failures in a row that open the breaker

ASSUME ThresholdAssumption == Threshold \in Nat \ {0}

VARIABLES
    state,          \* breaker.state
    cooled,         \* the clock has reached breaker.openUntil
    failures,       \* breaker.failures
    up,             \* Redis answers every call in time (external)
    pc              \* per goroutine, the next thing it does

breakerVars == <<state, cooled, failures, up, pc>>

States == {"closed", "open", "half_open"}

\* What next(ctx, cmd) returns: a value, redis.Nil, an error reply of Redis, or
\* anything else (refused, timed out, the request's context is over).
Results == {"value", "key_not_found", "replied", "unavailable"}

\* "until" and "swap" are inside allow, "redis" is the call, "zero" and "close"
\* are the stores of succeed, "load" and "add" the tests of fail, and "trip",
\* "reset", "open" the stores of trip.
Points == {"idle", "until", "swap", "redis", "zero", "close",
           "load", "add", "trip", "reset", "open"}

BreakerTypeOK ==
    /\ state \in States
    /\ cooled \in BOOLEAN
    /\ failures \in Nat
    /\ up \in BOOLEAN
    /\ pc \in [Calls -> Points]

BreakerInit ==
    /\ state = "closed"
    /\ cooled = TRUE
    /\ failures = 0
    /\ up = TRUE
    /\ pc = [c \in Calls |-> "idle"]

CallAt(c, p) == pc[c] = p
CallGoes(c, p) == pc' = [pc EXCEPT ![c] = p]

-----------------------------------------------------------------------------
(* allow. *)

\* state.Load decides: go on to Redis, look at the clock, or ErrCircuitOpen.
Allow(c) ==
    /\ CallAt(c, "idle")
    /\ \/ state = "closed" /\ CallGoes(c, "redis")
       \/ state = "open" /\ CallGoes(c, "until")
    /\ UNCHANGED <<state, cooled, failures, up>>

\* openUntil.Load: before its time the call is refused.
LoadUntil(c) ==
    /\ CallAt(c, "until")
    /\ CallGoes(c, IF cooled THEN "swap" ELSE "idle")
    /\ UNCHANGED <<state, cooled, failures, up>>

\* CompareAndSwap: one goroutine becomes the probe, the rest are refused.
Swap(c) ==
    /\ CallAt(c, "swap")
    /\ IF state = "open" THEN state' = "half_open" /\ CallGoes(c, "redis")
                         ELSE state' = state /\ CallGoes(c, "idle")
    /\ UNCHANGED <<cooled, failures, up>>

-----------------------------------------------------------------------------
(* The call and its record. *)

\* Slip: a missing key counts against Redis.
countsMissingKey(err) == err \in {"key_not_found", "unavailable"}

countsAsUnavailable(err) == err = "unavailable"

\* Slip: a missing key is no news, so nothing is recorded.
RecordUnlessMissing(c, err) ==
    /\ CallAt(c, "redis")
    /\ up => err # "unavailable"
    /\ CallGoes(c, IF countsAsUnavailable(err) THEN "load"
                   ELSE IF err = "key_not_found" THEN "idle" ELSE "zero")
    /\ UNCHANGED <<state, cooled, failures, up>>

Record(c, err) ==
    /\ CallAt(c, "redis")
    /\ up => err # "unavailable"
    /\ CallGoes(c, IF countsAsUnavailable(err) THEN "load" ELSE "zero")
    /\ UNCHANGED <<state, cooled, failures, up>>

\* succeed.
ClearFailures(c) ==
    /\ CallAt(c, "zero")
    /\ failures' = 0
    /\ CallGoes(c, "close")
    /\ UNCHANGED <<state, cooled, up>>

Close(c) ==
    /\ CallAt(c, "close")
    /\ state' = "closed"
    /\ CallGoes(c, "idle")
    /\ UNCHANGED <<cooled, failures, up>>

\* fail: a failed probe trips at once, any other failure is counted first.
LoadState(c) ==
    /\ CallAt(c, "load")
    /\ CallGoes(c, IF state = "half_open" THEN "trip" ELSE "add")
    /\ UNCHANGED <<state, cooled, failures, up>>

AddFailure(c) ==
    /\ CallAt(c, "add")
    /\ failures' = failures + 1
    /\ CallGoes(c, IF failures' >= Threshold THEN "trip" ELSE "idle")
    /\ UNCHANGED <<state, cooled, up>>

\* trip.
StoreUntil(c) ==
    /\ CallAt(c, "trip")
    /\ cooled' = FALSE
    /\ CallGoes(c, "reset")
    /\ UNCHANGED <<state, failures, up>>

ResetFailures(c) ==
    /\ CallAt(c, "reset")
    /\ failures' = 0
    /\ CallGoes(c, "open")
    /\ UNCHANGED <<state, cooled, up>>

Open(c) ==
    /\ CallAt(c, "open")
    /\ state' = "open"
    /\ CallGoes(c, "idle")
    /\ UNCHANGED <<cooled, failures, up>>

-----------------------------------------------------------------------------
(* Time and Redis. *)

CooldownEnds ==
    /\ ~cooled
    /\ cooled' = TRUE
    /\ UNCHANGED <<state, failures, up, pc>>

RedisChanges ==
    /\ up' = ~up
    /\ UNCHANGED <<state, cooled, failures, pc>>

Call(c) ==
    \/ Allow(c) \/ LoadUntil(c) \/ Swap(c)
    \/ \E err \in Results : Record(c, err)
    \/ ClearFailures(c) \/ Close(c)
    \/ LoadState(c) \/ AddFailure(c)
    \/ StoreUntil(c) \/ ResetFailures(c) \/ Open(c)

BreakerNext == CooldownEnds \/ RedisChanges \/ \E c \in Calls : Call(c)

BreakerSpec == BreakerInit /\ [][BreakerNext]_breakerVars

\* Requests keep coming and every Redis call ends by its time-out.
BreakerFairSpec ==
    /\ BreakerSpec
    /\ WF_breakerVars(CooldownEnds)
    /\ \A c \in Calls : WF_breakerVars(Call(c))
=============================================================================
