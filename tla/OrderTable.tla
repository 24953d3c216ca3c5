----------------------------- MODULE OrderTable -----------------------------
(***************************************************************************)
(* The order state machine of internal/modules/orders/status.go, as data:  *)
(* the statuses, the triggers and, for each trigger, the edge it names.    *)
(* Actor and Source of an edge only label its audit row and are left out.  *)
(***************************************************************************)
EXTENDS Naturals, Sequences

Statuses ==
    {"created", "declined", "expired", "buyer_decision_pending", "accepted",
     "awaiting_payment", "paid", "payment_review", "preparing", "ready",
     "delivered", "picked_up_by_buyer", "closed", "cancelled_by_buyer_sla",
     "cancelled_by_operator", "refund_requested", "refunded",
     "refund_overdue"}

NoTrigger == "none"
NoEvent == "none"

Transition(from, to, event, then, releases, consumes) ==
    [from |-> from, to |-> to, event |-> event, then |-> then,
     releases |-> releases, consumes |-> consumes]

Edge(from, to, event) == Transition(from, to, event, NoTrigger, FALSE, FALSE)
Releasing(from, to, event) ==
    Transition(from, to, event, NoTrigger, TRUE, FALSE)
Consuming(from, to, event) ==
    Transition(from, to, event, NoTrigger, FALSE, TRUE)

\* An edge the machine continues with another trigger, in one transaction.
Chained(from, to, event, then) ==
    Transition(from, to, event, then, FALSE, FALSE)

transitionTable ==
    [supplier_confirm |->
        Chained({"created"}, "accepted", "order.accepted", "issue_invoice"),
     token_confirm |->
        Chained({"created"}, "accepted", "order.accepted", "issue_invoice"),
     supplier_decline |->
        Releasing({"created"}, "buyer_decision_pending", "order.declined"),
     buyer_cancel |->
        Releasing({"created", "buyer_decision_pending", "awaiting_payment"},
                  "cancelled_by_buyer_sla", "order.cancelled"),
     operator_cancel |->
        Releasing({"created", "buyer_decision_pending", "awaiting_payment",
                   "payment_review"},
                  "cancelled_by_operator", "order.cancelled"),
     issue_invoice |->
        Edge({"accepted"}, "awaiting_payment", "order.awaiting_payment"),
     submit_receipt |->
        Edge({"awaiting_payment"}, "payment_review", "payment.review_started"),
     confirm_payment |->
        Edge({"payment_review"}, "paid", "order.paid"),
     reject_payment |->
        Edge({"payment_review"}, "awaiting_payment", "order.awaiting_payment"),
     start_preparing |->
        Edge({"paid"}, "preparing", "order.preparing"),
     mark_ready |->
        Edge({"preparing"}, "ready", "order.ready"),
     confirm_pickup |->
        Chained({"ready", "paid"}, "picked_up_by_buyer",
                "order.pickup_confirmed", "close_order"),
     confirm_delivery |->
        Chained({"ready", "paid"}, "delivered", "order.delivered",
                "close_order"),
     close_order |->
        Consuming({"picked_up_by_buyer", "delivered"}, "closed",
                  "order.closed"),
     expire |->
        Releasing({"created"}, "expired", "order.expired"),
     payment_expire |->
        Releasing({"awaiting_payment"}, "expired", "order.expired"),
     refund_request |->
        Releasing({"paid", "preparing", "ready"}, "refund_requested",
                  "refund.requested"),
     refund_overdue |->
        Edge({"refund_requested"}, "refund_overdue", NoEvent),
     confirm_refund |->
        Edge({"refund_requested", "refund_overdue"}, "refunded",
             "order.refunded")]

Triggers == DOMAIN transitionTable

\* Transition.Permits.
Permits(trigger, from) == from \in transitionTable[trigger].from

Follow(trigger) == transitionTable[trigger].then
HasFollow(trigger) == Follow(trigger) # NoTrigger

\* The follow-on must be permitted where the first edge ends, or the whole
\* command is a conflict.
ChainPermitted(trigger, from) ==
    /\ Permits(trigger, from)
    /\ HasFollow(trigger) =>
          Permits(Follow(trigger), transitionTable[trigger].to)

\* The status a committed command leaves.
Destination(trigger) ==
    IF HasFollow(trigger) THEN transitionTable[Follow(trigger)].to
                          ELSE transitionTable[trigger].to

\* The domain events a committed command queues, in order.
EventsOf(trigger) ==
    LET own(t) == IF transitionTable[t].event = NoEvent
                  THEN << >> ELSE <<transitionTable[t].event>>
    IN  IF HasFollow(trigger) THEN own(trigger) \o own(Follow(trigger))
                              ELSE own(trigger)

\* Every event the program queues for an order.
Events ==
    {"order.created", "order.accepted", "order.awaiting_payment",
     "order.declined", "order.cancelled", "order.expired",
     "payment.review_started", "order.paid", "order.preparing", "order.ready",
     "order.pickup_confirmed", "order.delivered", "order.closed",
     "refund.requested", "order.refunded", "order.sla_escalated",
     "refund.became_overdue"}
=============================================================================
