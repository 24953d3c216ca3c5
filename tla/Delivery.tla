------------------------------ MODULE Delivery ------------------------------
(***************************************************************************)
(* What the transactional outbox promises the analytics store: only events *)
(* of committed transactions arrive, and, of an aggregate whose writers    *)
(* take turns, after every earlier event that was not set aside.           *)
(***************************************************************************)
EXTENDS Naturals

CONSTANTS
    Aggregates,     \* what events belong to
    Ordered         \* those whose events arrive in order

VARIABLES
    accepted,       \* events of committed transactions
    delivered,      \* events the store has
    setAside        \* events once given up on

vars == <<accepted, delivered, setAside>>

Event == [id : Nat, of : Aggregates]

Before(e, g) == e.of = g.of /\ e.of \in Ordered /\ e.id < g.id

Init == accepted = {} /\ delivered = {} /\ setAside = {}

\* A transaction commits; nothing later of the aggregate has gone out yet.
Accept(e) ==
    /\ \A g \in delivered : ~Before(e, g)
    /\ accepted' = accepted \cup {e}
    /\ UNCHANGED <<delivered, setAside>>

Deliver(batch) ==
    /\ batch \subseteq accepted \ delivered
    /\ \A e \in batch, p \in accepted :
          Before(p, e) => p \in delivered \cup setAside
    /\ delivered' = delivered \cup batch
    /\ UNCHANGED <<accepted, setAside>>

SetAside(e) ==
    /\ e \in accepted
    /\ setAside' = setAside \cup {e}
    /\ UNCHANGED <<accepted, delivered>>

\* Which events a step is about is told by what it changes.
Next ==
    \/ \E e \in accepted' \ accepted : e \in Event /\ Accept(e)
    \/ Deliver(delivered' \ delivered)
    \/ \E e \in setAside' \ setAside : SetAside(e)

Spec == Init /\ [][Next]_vars
=============================================================================
