------------------------- MODULE RequestsProperties -------------------------
(* What an Idempotency-Key promises its client. *)
EXTENDS Requests

\* config.go: the receipt is the "durable backstop" of the Redis response: one
\* key carries out one mutation, on one resource and once, through lost
\* answers, crashes, expired reservations and releases of another's.
AppliedOnce ==
    /\ \A t \in Targets : applied[t] <= 1
    /\ \A t, u \in Targets : applied[t] > 0 /\ applied[u] > 0 => t = u

\* The key was sent for the resource of one path, as far as paths name resources.
KeyNamesOneResource ==
    \/ kind = "create"
    \/ \A r, s \in {q \in RequestIds : ~At(q, "unsent")} : TargetOf[r] = TargetOf[s]

\* A success is true. What the handler's transaction answers is: the resource its
\* caller takes it for was created or acted on, though the key be used for
\* several (dedup/receipt.go: reported "rather than silently skipped"). What Redis
\* answers, or will answer, comes from a mutation that was carried out, and is
\* true of the caller's resource when the key was sent for no other: used for
\* two, an acting endpoint's bare 200 is replayed for the wrong one.
SuccessIsTrue ==
    /\ \A r \in RequestIds :
          answer[r] = "success" => about[r] # None /\ applied[about[r]] = 1
    /\ \A r \in RequestIds :
          answer[r] = "replayed" =>
              /\ \E t \in Targets : applied[t] = 1
              /\ KeyNamesOneResource => about[r] # None /\ applied[about[r]] = 1
    /\ response # None =>
          \E t \in Targets : response = Says(t) /\ applied[t] = 1
=============================================================================
