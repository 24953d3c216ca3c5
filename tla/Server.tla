-------------------------------- MODULE Server --------------------------------
(***************************************************************************)
(* One API process (cmd/binno) from its start to its exit, and the chain   *)
(* of middleware a request goes through (internal/platform/httpx). Each    *)
(* request has two goroutines: the connection's, which waits in Timeout,   *)
(* and the handler's, which goes on when the wait is given up.             *)
(***************************************************************************)
EXTENDS Naturals, FiniteSets

CONSTANTS
    Requests,           \* requests of /api/v1, each sent once
    Mutations,          \* those whose method is not GET, HEAD or OPTIONS
    HTTPMaxInFlight,    \* Config: 0 derives the limit from the pool
    InFlightPerConn,    \* Config.HTTPInFlightPerConn
    MaxConns,           \* Config.OLTPMaxConns
    Burst               \* RateLimitConfig: allowance per window, by bucket

Buckets == {"user", "ip"}

\* resolveAdmissionLimit and validateTimeoutBudget refuse other values at start;
\* a negative HTTP_MAX_IN_FLIGHT, which switches admission off, is left out.
maxInFlightPerConn == 16
ASSUME ConfigAssumption ==
    /\ Mutations \subseteq Requests
    /\ MaxConns \in Nat \ {0}
    /\ InFlightPerConn \in Nat \ {0}
    /\ HTTPMaxInFlight \in Nat
    /\ HTTPMaxInFlight \div MaxConns <= maxInFlightPerConn
    /\ Burst \in [Buckets -> Nat \ {0}]

MaxInFlight == IF HTTPMaxInFlight > 0 THEN HTTPMaxInFlight
               ELSE MaxConns * InFlightPerConn

VARIABLES
    process,        \* where run stands
    clean,          \* server.Shutdown returned nil
    inRotation,     \* what the last /readyz told the load balancer
    conn,           \* per request, the goroutine of its connection
    work,           \* per request, the goroutine of its handler
    key,            \* per request, the bucket rateLimitKey gives it
    buffer,         \* per request, bufferedWriter
    answer,         \* per request, what went out on the connection
    applied,        \* mutations that left something behind
    slots,          \* tokens in the channel of LimitInFlight
    counts          \* Redis counters of the current window

vars == <<process, clean, inRotation, conn, work, key, buffer, answer,
          applied, slots, counts>>
procVars == <<process, clean, inRotation>>

Processes == {"serving", "draining", "shutting_down", "closing", "exited"}
Works == {"none", "identity", "admission", "rate_limit", "handler",
          "returned", "panicked"}

\* Problems of the middleware, and of routes that run one transaction, that say the
\* request was turned away; /auth's own refusals are not among them.
Refusals == {"unauthorized", "overloaded", "rate_limited", "limiter_unavailable",
             "rejected"}
Answers == Refusals \cup {"not_signed_in", "done", "internal", "timeout"}
NoAnswer == "no_answer"

Checks == {"oltp", "redis", "schema_present", "schema_clean", "analytics"}
Critical == {"oltp", "schema_present"}

TypeOK ==
    /\ process \in Processes
    /\ clean \in BOOLEAN
    /\ inRotation \in BOOLEAN
    /\ conn \in [Requests -> {"none", "open", "ended"}]
    /\ work \in [Requests -> Works]
    /\ key \in [Requests -> Buckets]
    /\ buffer \in [Requests -> [response : Answers \cup {NoAnswer},
                                abandoned : BOOLEAN]]
    /\ answer \in [Requests -> Answers \cup {NoAnswer}]
    /\ applied \in SUBSET Requests
    /\ slots \in 0 .. MaxInFlight
    /\ counts \in [Buckets -> Nat]

Empty == [response |-> NoAnswer, abandoned |-> FALSE]

Init ==
    /\ process = "serving"
    /\ clean = FALSE
    /\ inRotation = FALSE
    /\ conn = [r \in Requests |-> "none"]
    /\ work = [r \in Requests |-> "none"]
    /\ key = [r \in Requests |-> "ip"]
    /\ buffer = [r \in Requests |-> Empty]
    /\ answer = [r \in Requests |-> NoAnswer]
    /\ applied = {}
    /\ slots = 0
    /\ counts = [b \in Buckets |-> 0]

Running == process # "exited"
Listening == process \in {"serving", "draining"}

-----------------------------------------------------------------------------
(* The handler's goroutine. *)

\* WriteHeader and Write: an abandoned buffer takes nothing.
Written(b, response) == IF b.abandoned THEN b ELSE [b EXCEPT !.response = response]

At(r, step) == Running /\ work[r] = step
Goto(r, step) == work' = [work EXCEPT ![r] = step]

\* ServeHTTP returns with this response and done is closed.
Returns(r, response) ==
    /\ Goto(r, "returned")
    /\ buffer' = [buffer EXCEPT ![r] = Written(@, response)]

\* The balancer sends a request, or a caller who has the address does.
Accept(r) ==
    /\ Listening
    /\ conn[r] = "none"
    /\ conn' = [conn EXCEPT ![r] = "open"]
    /\ Goto(r, "identity")
    /\ UNCHANGED <<procVars, key, buffer, answer, applied, slots, counts>>

\* A token makes the user the bucket, no token leaves the address; a token that
\* is not valid now is refused.
Identity(r, token) ==
    /\ At(r, "identity")
    /\ IF token = "invalid" THEN Returns(r, "unauthorized")
       ELSE Goto(r, "admission") /\ UNCHANGED buffer
    /\ key' = [key EXCEPT ![r] = IF token = "valid" THEN "user" ELSE "ip"]
    /\ UNCHANGED <<procVars, conn, answer, applied, slots, counts>>

LimitInFlight(r) ==
    /\ At(r, "admission")
    /\ IF slots < MaxInFlight
       THEN slots' = slots + 1 /\ Goto(r, "rate_limit") /\ UNCHANGED buffer
       ELSE Returns(r, "overloaded") /\ UNCHANGED slots
    /\ UNCHANGED <<procVars, conn, key, answer, applied, counts>>

\* The deferred receive of LimitInFlight.
Release == slots' = slots - 1

\* The script: INCR, with an expiry for the first of a window.
countInWindow(bucket) == [counts EXCEPT ![bucket] = @ + 1]

\* The request is counted and the count compared with the burst.
RateLimit(r) ==
    /\ At(r, "rate_limit")
    /\ counts' = countInWindow(key[r])
    /\ IF counts'[key[r]] <= Burst[key[r]]
       THEN Goto(r, "handler") /\ UNCHANGED <<buffer, slots>>
       ELSE Returns(r, "rate_limited") /\ Release
    /\ UNCHANGED <<procVars, conn, key, answer, applied>>

\* Redis has no answer, the breaker is open or the deadline is over, which
\* WriteProblem makes a time-out: reads go on, mutations are refused. The script
\* may have counted the request all the same.
LimiterFails(r, counted) ==
    /\ At(r, "rate_limit")
    /\ counts' = IF counted THEN countInWindow(key[r]) ELSE counts
    /\ IF r \notin Mutations THEN Goto(r, "handler") /\ UNCHANGED <<buffer, slots>>
       ELSE /\ \E problem \in {"limiter_unavailable", "timeout"} : Returns(r, problem)
            /\ Release
    /\ UNCHANGED <<procVars, conn, key, answer, applied>>

\* The transaction of the route, or what statements /auth has committed, before
\* the answer is known.
Applied(r, commits) ==
    applied' = IF commits /\ r \in Mutations THEN applied \cup {r} ELSE applied

\* What a route's service returns: nothing, an AppError or a refusal of authz
\* (from before or inside its one transaction, which is rolled back), a refusal of
\* /auth, whose statements are each a transaction, an exhausted context or statement
\* budget, or any other error.
Errors == {"none", "app", "authz", "identity", "exhausted", "other"}

\* WriteProblem: a budget that ran out is a time-out, an unmapped error a 500.
ProblemOf(err) == CASE err = "none" -> "done"
                    [] err \in {"app", "authz"} -> "rejected"
                    [] err = "identity" -> "not_signed_in"
                    [] err = "exhausted" -> "timeout"
                    [] err = "other" -> "internal"

\* /auth refuses also after it consumed a code, revoked the sessions of a replayed
\* token or of a blocked account, or stored a code for a number the gateway will
\* not serve. A replay, or the logout of a session long gone, finds its effect there.
Handle(r, err, commits) ==
    /\ At(r, "handler")
    /\ err = "none" => commits
    /\ err \in {"app", "authz"} => ~commits
    /\ Applied(r, commits)
    /\ Returns(r, ProblemOf(err))
    /\ Release
    /\ UNCHANGED <<procVars, conn, key, answer, counts>>

\* A panic unwinds through the deferred release to recover in Timeout.
Panic(r, commits) ==
    /\ At(r, "handler")
    /\ Applied(r, commits)
    /\ Goto(r, "panicked")
    /\ Release
    /\ UNCHANGED <<procVars, conn, key, buffer, answer, counts>>

-----------------------------------------------------------------------------
(* The connection's goroutine: the select of Timeout. *)

Answered(r, response) ==
    /\ conn' = [conn EXCEPT ![r] = "ended"]
    /\ answer' = [answer EXCEPT ![r] = response]

Flush(r) ==
    /\ Running
    /\ conn[r] = "open"
    /\ work[r] = "returned"
    /\ Answered(r, buffer[r].response)
    /\ UNCHANGED <<procVars, work, key, buffer, applied, slots, counts>>

\* The panic is raised again and Recoverer answers 500.
Recover(r) ==
    /\ Running
    /\ conn[r] = "open"
    /\ work[r] = "panicked"
    /\ Answered(r, "internal")
    /\ UNCHANGED <<procVars, work, key, buffer, applied, slots, counts>>

\* Slip: the slot is given back with the answer.
TimeoutFreesSlot(r) ==
    /\ Running
    /\ conn[r] = "open"
    /\ Answered(r, "timeout")
    /\ buffer' = [buffer EXCEPT ![r].abandoned = TRUE]
    /\ slots' = IF work[r] = "handler" THEN slots - 1 ELSE slots
    /\ UNCHANGED <<procVars, work, key, applied, counts>>

\* Slip: the time-out is told as overload, with Retry-After.
TimeoutSaysOverloaded(r) ==
    /\ Running
    /\ conn[r] = "open"
    /\ Answered(r, "overloaded")
    /\ buffer' = [buffer EXCEPT ![r].abandoned = TRUE]
    /\ UNCHANGED <<procVars, work, key, applied, slots, counts>>

\* ctx.Done, chosen also when the handler returned in the same moment. The
\* handler's goroutine is not stopped.
Timeout(r) ==
    /\ Running
    /\ conn[r] = "open"
    /\ Answered(r, "timeout")
    /\ buffer' = [buffer EXCEPT ![r].abandoned = TRUE]
    /\ UNCHANGED <<procVars, work, key, applied, slots, counts>>

-----------------------------------------------------------------------------
(* Readiness and the windows of the limiter. *)

requestVars == <<conn, work, key, buffer, answer, applied, slots>>

\* readyHandler: never while draining; of the checks only the critical refuse.
ready(healthy) == process = "serving" /\ Critical \subseteq healthy

\* The balancer polls /readyz; a closed listener is an answer too.
Probe(healthy) ==
    /\ Running
    /\ inRotation' = ready(healthy)
    /\ UNCHANGED <<process, clean, requestVars, counts>>

WindowEnds ==
    /\ Running
    /\ counts' = [b \in Buckets |-> 0]
    /\ UNCHANGED <<procVars, requestVars>>

-----------------------------------------------------------------------------
(* run. *)

Becomes(p) ==
    /\ process' = p
    /\ UNCHANGED <<inRotation, requestVars, counts>>

\* SIGTERM or SIGINT: readiness.Drain.
Drain == process = "serving" /\ Becomes("draining") /\ UNCHANGED clean

\* ListenAndServe fails: run returns its error.
ListenFails == Listening /\ Becomes("closing") /\ UNCHANGED clean

\* Slip: not for the delay, but until the balancer has noticed.
DrainUntilNoticed ==
    /\ process = "draining"
    /\ ~inRotation
    /\ Becomes("shutting_down")
    /\ UNCHANGED clean

\* SHUTDOWN_DRAIN_DELAY is over: server.Shutdown closes the listener.
BeginShutdown == process = "draining" /\ Becomes("shutting_down") /\ UNCHANGED clean

\* Slip: closed without waiting for the connections.
ShutdownAtOnce ==
    process = "shutting_down" /\ Becomes("closing") /\ clean' = TRUE

\* Shutdown returns nil when no connection is active.
ShutdownDone ==
    /\ process = "shutting_down"
    /\ \A r \in Requests : conn[r] # "open"
    /\ Becomes("closing")
    /\ clean' = TRUE

\* SHUTDOWN_TIMEOUT: its error is returned.
ShutdownExpires ==
    /\ process = "shutting_down"
    /\ Becomes("closing")
    /\ UNCHANGED clean

\* The deferred calls of run. Close of a pool waits for the connections that
\* handlers still hold, also those nobody waits for.
Exit ==
    /\ process = "closing"
    /\ \A r \in Requests : work[r] # "handler"
    /\ Becomes("exited")
    /\ UNCHANGED clean

Handler(r) ==
    \/ \E token \in {"none", "valid", "invalid"} : Identity(r, token)
    \/ LimitInFlight(r) \/ RateLimit(r)
    \/ \E counted \in BOOLEAN : LimiterFails(r, counted)
    \/ \E commits \in BOOLEAN : \/ \E err \in Errors : Handle(r, err, commits)
                                \/ Panic(r, commits)

Connection(r) == Flush(r) \/ Recover(r) \/ Timeout(r)

Next ==
    \/ \E r \in Requests : Accept(r) \/ Handler(r) \/ Connection(r)
    \/ \E healthy \in SUBSET Checks : Probe(healthy)
    \/ WindowEnds
    \/ Drain \/ ListenFails \/ BeginShutdown
    \/ ShutdownDone \/ ShutdownExpires \/ Exit

Spec == Init /\ [][Next]_vars

\* Timers fire, and a handler's calls end by the deadline of its context. Signals
\* and requests need not come.
FairSpec ==
    /\ Spec
    /\ WF_vars(BeginShutdown)
    /\ WF_vars(ShutdownDone \/ ShutdownExpires)
    /\ WF_vars(Exit)
    /\ \A r \in Requests : WF_vars(Handler(r)) /\ WF_vars(Connection(r))
=============================================================================
