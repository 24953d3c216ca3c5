-------------------------- MODULE OutboxProperties --------------------------
(* What the outbox promises, and the abstract delivery it implements. *)
EXTENDS Outbox

Rows == 1 .. Len(rows)
Committed(i) == rows[i].state \in {"committed", "deleted"}
EventOf(i) == [id |-> i, of |-> rows[i].of]

\* A row is marked dispatched, and later deleted, only once the sink has it,
\* whichever dispatcher marked it and however late. (markDispatched, cleanup)
MarkedIsStored == \A i \in Rows : rows[i].dispatched => i \in sink

\* The migration: "The claim query enforces per-aggregate ordering": where the
\* writers hold the aggregate's lock, an event reaches the sink before every
\* later event of its aggregate, unless it was dead-lettered at some time.
InOrder ==
    [][\A i \in sink' \ sink : \A j \in sink' \ {i} :
          rows[j].of = rows[i].of /\ rows[i].of \in Locked
              => j < i \/ i \in isolated]_vars

\* The rows, seen as the events of the abstract delivery.
Promise == INSTANCE Delivery WITH
    Ordered <- Locked,
    accepted <- {EventOf(i) : i \in {k \in Rows : Committed(k)}},
    delivered <- {EventOf(i) : i \in sink},
    setAside <- {EventOf(i) : i \in isolated}

\* Nothing uncommitted is delivered, nothing is delivered past an earlier event
\* of its aggregate: the dispatcher implements the promise of the outbox.
PromiseKept == Promise!Spec

\* What the dispatcher cannot help: it dies with work left, or the database
\* refuses a statement that would have changed something.
Fault ==
    \E d \in Dispatchers :
        /\ \/ Restart(d)
           \/ MarkFails(d)
           \/ Doing(d, "fail") /\ \E r \in Batch(d) : FailureNotRecorded(d, r)
        /\ ~CleanUp(d)
        /\ ~MarkDispatched(d)
        /\ ~(Doing(d, "fail") /\ \E r \in Batch(d) : RecordFailure(d, r))

\* Run claims at every tick and time passes, and from some time on the database
\* answers and no dispatcher dies. The sink may refuse, fail or lose its answer
\* for ever, and nothing is owed to writers.
FairSpec ==
    /\ Spec
    /\ \A d \in Dispatchers : WF_vars(Pass(d))
    /\ \A i \in 1 .. MaxRows :
          /\ WF_vars(i \in Rows /\ LeaseLapses(i))
          /\ WF_vars(i \in Rows /\ RetryComesDue(i))
    /\ <>[][~Fault]_vars

\* Every committed event reaches the sink or is dead-lettered in the end, behind
\* whatever fails before it.
EveryEventSettles ==
    \A i \in 1 .. MaxRows :
        (i \in Rows /\ Committed(i)) ~> (i \in sink \/ i \in isolated)
=============================================================================
