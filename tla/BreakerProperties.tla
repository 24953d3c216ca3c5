--------------------------- MODULE BreakerProperties ---------------------------
(* What the breaker promises the handlers behind it. *)
EXTENDS Breaker

\* Goroutines that still have a store ahead of them which takes the breaker out
\* of half-open.
WillMoveIt == {c \in Calls : pc[c] \in {"redis", "zero", "close", "load",
                                        "trip", "reset", "open"}}

\* allow refuses everyone while the breaker is half-open, so a half-open breaker
\* always has a goroutine on its way that will close it or open it: however the
\* loads and stores of late calls, probes and their failures interleave, Redis is
\* never cut off for good.
HalfOpenIsLeft == state = "half_open" => WillMoveIt # {}

\* Once Redis answers again for good, the breaker closes and stays closed, though
\* calls that failed before may still be about to trip it.
ClosesForGood == <>[]up => <>[](state = "closed")
=============================================================================
