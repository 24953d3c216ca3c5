-------------------------- MODULE OrdersProperties --------------------------
(***************************************************************************)
(* What the orders of a store promise. The cross-aggregate truths are      *)
(* those tests/load/sql/invariants.sql asserts after every load run, made  *)
(* precise for every status.                                               *)
(***************************************************************************)
EXTENDS Orders, FiniteSetsExt

\* At most one row, and exactly one row, has one of the statuses.
AtMostOne(rows, statuses) ==
    \A i, j \in 1 .. Len(rows) :
        rows[i] \in statuses /\ rows[j] \in statuses => i = j
One(rows, st) == AtMostOne(rows, {st}) /\ Some(rows, {st})
Queued(o, event) == \E i \in 1 .. Len(outbox[o]) : outbox[o][i] = event

PaidFor == {"paid", "preparing", "ready", "closed", "refund_requested",
            "refund_overdue"}
Ended == {"expired", "closed", "cancelled_by_buyer_sla",
          "cancelled_by_operator", "refunded"}

-----------------------------------------------------------------------------
(* Orders and billing. *)

\* The document follows the order: payable exactly while the order waits for
\* money, paid exactly while the seller holds it, refunded exactly when it went
\* back, and never two documents current. (settle, CancelSettlement.)
InvoiceFollowsOrder ==
    \A o \in OrderIds :
        /\ status[o] \in {"awaiting_payment", "payment_review"}
              <=> One(invoices[o], "issued")
        /\ status[o] \in PaidFor <=> One(invoices[o], "paid")
        /\ status[o] = "refunded" <=> One(invoices[o], "refunded")
        /\ AtMostOne(invoices[o], {"issued", "paid"})

\* Invariants 4a and 4b of invariants.sql, for every status: an order has one
\* applied payment exactly while the seller holds the money, an undecided one
\* exactly while it is under review, and never two live ones.
PaymentFollowsOrder ==
    \A o \in OrderIds :
        /\ status[o] \in PaidFor <=> One(payments[o], "paid")
        /\ status[o] = "payment_review" <=> One(payments[o], "created")
        /\ status[o] = "refunded" <=> One(payments[o], "reversed")
        /\ AtMostOne(payments[o], LivePayments)

\* The refund sweeper flips the order and the refund in two transactions, with
\* the buyer, the seller and a crash in between: the refund is never ahead of
\* the order, and both end together.
RefundFollowsOrder ==
    \A o \in OrderIds :
        /\ status[o] = "refund_requested" => Some(refunds[o], UndueRefunds)
        /\ status[o] = "refund_overdue" => Some(refunds[o], OpenRefunds)
        /\ Some(refunds[o], {"overdue"}) => status[o] = "refund_overdue"
        /\ Some(refunds[o], {"refunded"}) <=> status[o] = "refunded"
        /\ Some(refunds[o], OpenRefunds) =>
              status[o] \in {"refund_requested", "refund_overdue"}

\* Invariants 2a and 2b: exactly the closed orders are billed, once each.
ClosedIsBilledOnce ==
    /\ \A o \in OrderIds :
          status[o] = "closed" <=> \E i \in 1 .. Len(ledger) : ledger[i].order = o
    /\ \A i, j \in 1 .. Len(ledger) :
          ledger[i].order = ledger[j].order => i = j

\* A settled row never changes its verdict (migrations/billing: "A paid invoice
\* is never voided"): a paid invoice or payment can only go back by refund.
MoneyIsNotForgotten ==
    [][\A o \in OrderIds :
         /\ \A i \in 1 .. Len(invoices[o]) :
               /\ invoices[o][i] = "paid" =>
                     invoices'[o][i] \in {"paid", "refunded"}
               /\ invoices[o][i] \in {"voided", "refunded"} =>
                     invoices'[o][i] = invoices[o][i]
         /\ \A i \in 1 .. Len(payments[o]) :
               /\ payments[o][i] = "paid" =>
                     payments'[o][i] \in {"paid", "reversed"}
               /\ payments[o][i] \in {"failed", "reversed"} =>
                     payments'[o][i] = payments[o][i]]_vars

\* An ended order stays ended, whatever a sweeper with an old list, a late
\* command or a used token still tries on it.
EndedIsFinal ==
    [][\A o \in OrderIds : status[o] \in Ended => status'[o] = status[o]]_vars

-----------------------------------------------------------------------------
(* Orders and stock. *)

\* Orders whose reservation no edge has given back or consumed yet.
Holding == {"created", "awaiting_payment", "payment_review", "paid",
            "preparing", "ready"}
HoldingOrders == {o \in OrderIds : status[o] \in Holding}
Held(f) == SumFunction([o \in HoldingOrders |-> basket[o][f]])

\* Invariant 3: reserved never exceeds declared, under reservations,
\* releases and the seller's own changes of the declared quantity.
StockBounded ==
    \A f \in Offers : RowAllowed(offers[f])

DeclinedThenCancelled(o) ==
    Queued(o, "order.declined") /\ Queued(o, "order.cancelled")

\* Unless a declined order was cancelled, an offer's reservation is exactly
\* what its live orders took: nothing leaks and nothing is given back twice, so
\* the live orders never exceed the declared quantity.
StockMatchesOrders ==
    (\A o \in OrderIds : ~DeclinedThenCancelled(o)) =>
        \A f \in Offers : offers[f].reserved = Held(f)

\* reservation_race_integration_test.go: "overselling is impossible no matter
\* how many writers race": the orders in progress fit in the declared quantity.
NeverOversold == \A f \in Offers : Held(f) <= offers[f].declared

\* What the rows say of an order's goods and money. A status beside the ones
\* named is that of an order whose reservation went back.
GoodsOf(o) ==
    CASE status[o] = NotPlaced -> "none"
      [] status[o] \in Holding -> "reserved"
      [] status[o] = "closed" -> "sold"
      [] OTHER -> "back"
MoneyOf(o) ==
    CASE \E i \in 1 .. Len(ledger) : ledger[i].order = o -> "earned"
      [] One(payments[o], "reversed") -> "returned"
      [] OTHER -> IF One(payments[o], "paid") THEN "held" ELSE "none"

Bargain == INSTANCE Trade WITH
    goods <- [o \in OrderIds |-> GoodsOf(o)],
    money <- [o \in OrderIds |-> MoneyOf(o)],
    ended <- {o \in OrderIds : status[o] \in Ended}

\* Orders, payments, refunds and ledger together carry out the trade: money is
\* taken once and for reserved goods, earned only as they are handed over and
\* returned only for goods that went back, and no order ends while the seller
\* holds money for nothing, although commands, two sweepers and their restarts
\* write the four tables.
TradeKept == Bargain!Spec

-----------------------------------------------------------------------------
(* The sweepers. *)

\* The receipt under the deterministic key makes an escalation once an order,
\* over every pass, dispatcher and restart.
EscalatedOnce ==
    \A o \in OrderIds : AtMostOne(outbox[o], {"order.sla_escalated"})

\* Closing events of analytics.operator_queue by the event that opened an item.
Closes(opener) ==
    CASE opener = "payment.review_started" ->
            {"order.paid", "order.awaiting_payment", "order.cancelled",
             "order.expired"}
      [] opener = "refund.became_overdue" -> {"order.refunded"}

OpenItem(o, opener) ==
    \E i \in 1 .. Len(outbox[o]) :
        /\ outbox[o][i] = opener
        /\ \A j \in i + 1 .. Len(outbox[o]) :
              outbox[o][j] \notin Closes(opener)

\* A payment review or an overdue refund stands in the operator queue exactly
\* while there is work behind it; the overdue event is never queued after the
\* refund landed.
QueueHasWork ==
    \A o \in OrderIds :
        /\ OpenItem(o, "payment.review_started") <=> status[o] = "payment_review"
        /\ OpenItem(o, "refund.became_overdue") <=>
              Some(refunds[o], {"overdue"})

\* Run comes back at every tick, so a pass always goes on, and a step the pass
\* comes to again and again is carried out in the end, between the restarts and
\* the failures. A restart, a user and the clock are owed nothing.
FairOrderSweep(d) ==
    /\ WF_vars(OrderSweepStep(d))
    /\ SF_vars(Expire(d))
    /\ SF_vars(ListPaymentOverdue(d))
    /\ \A o \in OrderIds : SF_vars(Escalate(d, o)) /\ SF_vars(PaymentExpire(d, o))

FairRefundSweep(d) ==
    /\ WF_vars(RefundSweepStep(d))
    /\ SF_vars(MarkOverdue(d))
    /\ \A o \in OrderIds :
          SF_vars(OrderOverdue(d, o) \/ OrderAlreadyMoved(d, o))

FairSpec ==
    Spec /\ \A d \in Dispatchers : FairOrderSweep(d) /\ FairRefundSweep(d)

\* Sweeper.RunOnce: an unanswered order past the grace does not stay created.
UnansweredOrderEnds ==
    \A o \in OrderIds :
        (status[o] = "created" /\ confirmation[o] = "graced")
            ~> status[o] # "created"

\* An unpaid order past its payment deadline does not stay awaiting payment.
UnpaidOrderEnds ==
    \A o \in OrderIds :
        (status[o] = "awaiting_payment" /\ paymentDue[o] = "due")
            ~> status[o] # "awaiting_payment"

\* RefundSweeper.RunOnce: a refund past its due date ends up overdue on both
\* sides, or refunded, even when the dispatcher dies between the two steps.
LateRefundIsFlagged ==
    \A o \in OrderIds :
        (Some(refunds[o], UndueRefunds) /\ refundDue[o] = "due")
            ~> \/ status[o] = "refund_overdue" /\ Some(refunds[o], {"overdue"})
               \/ status[o] = "refunded"
=============================================================================
