---------------------------- MODULE ServerProperties ----------------------------
(* What the middleware and the shutdown of the API process promise. *)
EXTENDS Server

Admitted == {r \in Requests : work[r] \in {"rate_limit", "handler"}}

\* LimitInFlight bounds what runs, not what is waited for: the slots taken are
\* those of the handlers still at work, answered with a time-out or not, and every
\* return, refusal and panic gives back exactly one.
SlotsAreHeld == slots = Cardinality(Admitted) /\ slots <= MaxInFlight

\* What a caller is told of a mutation is true. Turned away by the middleware
\* ("retry later", "too many requests", a bad token) it may be sent again, whatever
\* it is, for nothing was applied, not even by a handler that outlives the answer;
\* rejected by a route that runs one transaction, likewise; after success it was
\* applied. A time-out or a 500 leaves it open, and so do the refusals of /auth.
AnswerIsTrue ==
    \A r \in Mutations :
        /\ answer[r] \in Refusals => r \notin applied
        /\ answer[r] = "done" => r \in applied

\* A shutdown that reports success left no accepted request without an answer,
\* whatever was accepted while the drain delay ran.
CleanShutdownAnswersAll ==
    clean => \A r \in Requests : conn[r] # "none" => answer[r] # NoAnswer

\* After the signal the process ends, although closing a pool waits for handlers
\* whose callers are long gone.
ShutdownEnds == process = "draining" ~> process = "exited"
=============================================================================
