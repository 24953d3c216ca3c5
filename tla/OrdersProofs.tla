---------------------------- MODULE OrdersProofs ----------------------------
(***************************************************************************)
(* What holds of the orders of a store whatever the number of orders,      *)
(* offers and dispatchers, the page size and the allowance.                *)
(***************************************************************************)
EXTENDS OrdersProperties, SumProofs, SequenceTheorems, TLAPS

Command(t, from, to) ==
    /\ \A s : ChainPermitted(t, s) <=> s \in from
    /\ Destination(t) = to

\* What transitionTable makes of each trigger that begins a command: where the
\* command is permitted and where it ends, its follow-on edge included.
LEMMA CommandTable ==
    /\ Command("supplier_confirm", {"created"}, "awaiting_payment")
    /\ Command("token_confirm", {"created"}, "awaiting_payment")
    /\ Command("supplier_decline", {"created"}, "buyer_decision_pending")
    /\ Command("buyer_cancel",
               {"created", "buyer_decision_pending",
                "awaiting_payment"},
               "cancelled_by_buyer_sla")
    /\ Command("operator_cancel",
               {"created", "buyer_decision_pending",
                "awaiting_payment", "payment_review"},
               "cancelled_by_operator")
    /\ Command("submit_receipt", {"awaiting_payment"}, "payment_review")
    /\ Command("confirm_payment", {"payment_review"}, "paid")
    /\ Command("reject_payment", {"payment_review"}, "awaiting_payment")
    /\ Command("start_preparing", {"paid"}, "preparing")
    /\ Command("mark_ready", {"preparing"}, "ready")
    /\ Command("confirm_pickup", {"ready", "paid"}, "closed")
    /\ Command("confirm_delivery", {"ready", "paid"}, "closed")
    /\ Command("expire", {"created"}, "expired")
    /\ Command("payment_expire", {"awaiting_payment"}, "expired")
    /\ Command("refund_request", {"paid", "preparing", "ready"},
               "refund_requested")
    /\ Command("refund_overdue", {"refund_requested"}, "refund_overdue")
    /\ Command("confirm_refund", {"refund_requested", "refund_overdue"},
               "refunded")
<1> USE DEF Command, ChainPermitted, Permits, Destination, HasFollow, Follow,
        transitionTable, Transition, Edge, Chained, Releasing, Consuming,
        NoTrigger, NoEvent
<1>1. Command("supplier_confirm", {"created"}, "awaiting_payment")
  OBVIOUS
<1>2. Command("token_confirm", {"created"}, "awaiting_payment")
  OBVIOUS
<1>3. Command("supplier_decline", {"created"}, "buyer_decision_pending")
  OBVIOUS
<1>4. Command("buyer_cancel",
              {"created", "buyer_decision_pending", "awaiting_payment"},
              "cancelled_by_buyer_sla")
  OBVIOUS
<1>5. Command("operator_cancel",
              {"created", "buyer_decision_pending", "awaiting_payment",
               "payment_review"},
              "cancelled_by_operator")
  OBVIOUS
<1>6. Command("submit_receipt", {"awaiting_payment"}, "payment_review")
  OBVIOUS
<1>7. Command("confirm_payment", {"payment_review"}, "paid")
  OBVIOUS
<1>8. Command("reject_payment", {"payment_review"}, "awaiting_payment")
  OBVIOUS
<1>9. Command("start_preparing", {"paid"}, "preparing")
  OBVIOUS
<1>10. Command("mark_ready", {"preparing"}, "ready")
  OBVIOUS
<1>11. Command("confirm_pickup", {"ready", "paid"}, "closed")
  OBVIOUS
<1>12. Command("confirm_delivery", {"ready", "paid"}, "closed")
  OBVIOUS
<1>13. Command("expire", {"created"}, "expired")
  OBVIOUS
<1>14. Command("payment_expire", {"awaiting_payment"}, "expired")
  OBVIOUS
<1>15. Command("refund_request",
               {"paid", "preparing", "ready"},
               "refund_requested")
  OBVIOUS
<1>16. Command("refund_overdue", {"refund_requested"}, "refund_overdue")
  OBVIOUS
<1>17. Command("confirm_refund",
               {"refund_requested", "refund_overdue"},
               "refunded")
  OBVIOUS
<1> HIDE DEF Command
<1> QED
  BY <1>1, <1>2, <1>3, <1>4, <1>5, <1>6, <1>7, <1>8, <1>9, <1>10, <1>11,
     <1>12, <1>13, <1>14, <1>15, <1>16, <1>17

\* Every edge names a status, an event of the program or none, and a trigger
\* to continue with or none.
LEMMA TableTypes ==
    ASSUME NEW t \in Triggers
    PROVE  /\ transitionTable[t].to \in Statuses
           /\ transitionTable[t].event \in Events \cup {NoEvent}
           /\ Follow(t) \in Triggers \cup {NoTrigger}
<1>1. transitionTable[t].to \in Statuses
  BY DEF Triggers, Statuses, transitionTable, Transition, Edge, Chained,
         Releasing, Consuming
<1>2. transitionTable[t].event \in Events \cup {NoEvent}
  BY DEF Triggers, Events, transitionTable, Transition, Edge, Chained,
         Releasing, Consuming, NoEvent
<1>3. Follow(t) \in Triggers \cup {NoTrigger}
  BY DEF Triggers, Follow, transitionTable, Transition, Edge, Chained,
         Releasing, Consuming, NoTrigger
<1>4. QED
  BY <1>1, <1>2, <1>3

\* A command ends in a status and queues events of the program.
LEMMA CommandTypes ==
    ASSUME NEW t \in Triggers
    PROVE  /\ Destination(t) \in Statuses
           /\ EventsOf(t) \in Seq(Events)
<1>1. Destination(t) \in Statuses
  BY TableTypes DEF Destination, HasFollow
<1> DEFINE own(u) == IF transitionTable[u].event = NoEvent
                     THEN << >> ELSE <<transitionTable[u].event>>
<1>2. ASSUME NEW u \in Triggers PROVE own(u) \in Seq(Events)
  BY TableTypes
<1>3. EventsOf(t) = IF HasFollow(t) THEN own(t) \o own(Follow(t)) ELSE own(t)
  BY DEF EventsOf
<1>4. HasFollow(t) => Follow(t) \in Triggers
  BY TableTypes DEF HasFollow
<1> HIDE DEF own
<1>5. EventsOf(t) \in Seq(Events)
  BY <1>2, <1>3, <1>4
<1>6. QED
  BY <1>1, <1>5

-----------------------------------------------------------------------------
(* Stock. *)

SoundStock(stock) ==
    /\ stock \in [Offers -> OfferRows]
    /\ \A f \in Offers : RowAllowed(stock[f])

LEMMA ReserveSound ==
    ASSUME NEW stock, SoundStock(stock), NEW b \in [Offers -> Nat],
           CanReserve(stock, b)
    PROVE  SoundStock(Reserve(stock, b))
<1> SUFFICES ASSUME NEW f \in Offers
             PROVE  /\ Reserve(stock, b)[f] \in OfferRows
                    /\ RowAllowed(Reserve(stock, b)[f])
  BY DEF SoundStock, Reserve
<1>1. /\ stock[f] \in OfferRows
      /\ RowAllowed(stock[f])
      /\ b[f] \in Nat
      /\ b[f] > 0 => Reservable(stock[f], b[f])
      /\ Reserve(stock, b)[f] =
            [stock[f] EXCEPT !.reserved = stock[f].reserved + b[f]]
  BY DEF SoundStock, CanReserve, Reserve
<1>2. QED
  BY <1>1 DEF OfferRows, RowAllowed, Reservable

LEMMA AdjustSound ==
    ASSUME NEW stock, SoundStock(stock), NEW b \in [Offers -> Nat]
    PROVE  SoundStock(Release(stock, b)) /\ SoundStock(Consume(stock, b))
<1>1. ASSUME NEW f \in Offers
      PROVE  /\ Release(stock, b)[f] \in OfferRows
             /\ RowAllowed(Release(stock, b)[f])
             /\ Consume(stock, b)[f] \in OfferRows
             /\ RowAllowed(Consume(stock, b)[f])
  <2>1. /\ stock[f] \in OfferRows
        /\ RowAllowed(stock[f])
        /\ b[f] \in Nat
    BY DEF SoundStock
  <2>2. /\ Release(stock, b)[f] =
              IF stock[f].reserved >= b[f]
              THEN [stock[f] EXCEPT !.reserved = stock[f].reserved - b[f]]
              ELSE stock[f]
        /\ Consume(stock, b)[f] =
              IF stock[f].reserved >= b[f]
              THEN [stock[f] EXCEPT !.reserved = stock[f].reserved - b[f],
                                    !.declared = stock[f].declared - b[f]]
              ELSE stock[f]
    BY DEF SoundStock, Release, ReleaseOfferQuantity, Consume,
           ConsumeOfferQuantity
  <2>3. CASE stock[f].reserved >= b[f]
    <3>1. /\ stock[f].reserved - b[f] \in Nat
          /\ stock[f].declared - b[f] \in Nat
          /\ stock[f].reserved - b[f] <= stock[f].declared - b[f]
          /\ stock[f].reserved - b[f] <= stock[f].declared
      BY <2>1, <2>3 DEF OfferRows, RowAllowed
    <3>2. QED
      BY <2>1, <2>2, <2>3, <3>1 DEF OfferRows, RowAllowed
  <2>4. CASE ~(stock[f].reserved >= b[f])
    BY <2>1, <2>2, <2>4
  <2>5. QED
    BY <2>3, <2>4
<1>2. QED
  BY <1>1 DEF SoundStock, Release, ReleaseOfferQuantity, Consume,
              ConsumeOfferQuantity

\* Whatever an edge does to the stock leaves it sound.
LEMMA AfterEdgeSound ==
    ASSUME NEW stock, SoundStock(stock), NEW o, basket[o] \in [Offers -> Nat],
           NEW t
    PROVE  SoundStock(AfterEdge(stock, o, t))
BY AdjustSound DEF AfterEdge

-----------------------------------------------------------------------------
(* Types. *)

OrderTypes ==
    /\ status \in [OrderIds -> Statuses \cup {NotPlaced}]
    /\ basket \in [OrderIds -> [Offers -> Nat]]
    /\ outbox \in [OrderIds -> Seq(Events)]
    /\ SoundStock(offers)
    /\ sellerActive \in BOOLEAN

BillingTypes ==
    /\ invoices \in [OrderIds -> Seq(InvoiceStatuses)]
    /\ payments \in [OrderIds -> Seq(PaymentStatuses)]
    /\ refunds \in [OrderIds -> Seq(RefundStatuses)]
    /\ ledger \in Seq([order : OrderIds, free : BOOLEAN])

ClockTypes ==
    /\ confirmation \in [OrderIds -> {"running", "due", "graced"}]
    /\ paymentDue \in [OrderIds -> {"unset", "running", "due"}]
    /\ refundDue \in [OrderIds -> {"unset", "running", "due"}]
    /\ token \in [OrderIds -> {"none", "live", "used"}]
    /\ escalated \subseteq OrderIds

OrderSweeps ==
    [phase : {"idle", "confirm", "payment"}, todo : SUBSET OrderIds,
     graced : SUBSET OrderIds, expiring : OrderIds \cup {NoOrder}]

SweepTypes ==
    /\ orderSweep \in [Dispatchers -> OrderSweeps]
    /\ refundSweep \in [Dispatchers ->
          [todo : SUBSET OrderIds, marking : OrderIds \cup {NoOrder}]]

\* The inductive strengthening of TypeOK: a sale takes from the declared
\* quantity what was reserved, so it stays a natural number because the
\* reservation never exceeds it.
TypeInv == OrderTypes /\ BillingTypes /\ ClockTypes /\ SweepTypes

\* A command that goes through keeps the order and the stock well typed.
LEMMA RunTransitionTypes ==
    ASSUME OrderTypes, NEW o \in OrderIds, NEW t \in Triggers,
           runTransition(o, t)
    PROVE  OrderTypes'
<1>1. /\ status' = [status EXCEPT ![o] = Destination(t)]
      /\ outbox' = [outbox EXCEPT ![o] = outbox[o] \o EventsOf(t)]
      /\ offers' = IF HasFollow(t)
                   THEN AfterEdge(AfterEdge(offers, o, t), o, Follow(t))
                   ELSE AfterEdge(offers, o, t)
      /\ UNCHANGED <<basket, sellerActive>>
  BY DEF runTransition, TransitionOrder
<1>2. status' \in [OrderIds -> Statuses \cup {NotPlaced}]
  BY <1>1, CommandTypes DEF OrderTypes
<1>3. outbox' \in [OrderIds -> Seq(Events)]
  BY <1>1, CommandTypes DEF OrderTypes
<1>4. SoundStock(offers')
  BY <1>1, AfterEdgeSound DEF OrderTypes
<1>5. QED
  BY <1>1, <1>2, <1>3, <1>4 DEF OrderTypes, SoundStock

\* An UPDATE keeps the number of rows and moves only those it names.
LEMMA RestateRows ==
    ASSUME NEW S, NEW rows \in Seq(S), NEW from, NEW to \in S
    PROVE  /\ Restate(rows, from, to) \in Seq(S)
           /\ Len(Restate(rows, from, to)) = Len(rows)
           /\ \A i \in 1 .. Len(rows) :
                 Restate(rows, from, to)[i] =
                    IF rows[i] \in from THEN to ELSE rows[i]
BY DEF Restate

LEMMA InvoiceTypes ==
    ASSUME NEW inv \in Seq(InvoiceStatuses)
    PROVE  /\ IssueInvoice(inv) \in Seq(InvoiceStatuses)
           /\ MarkInvoicePaid(inv) \in Seq(InvoiceStatuses)
           /\ MarkInvoiceRefunded(inv) \in Seq(InvoiceStatuses)
           /\ VoidCurrentInvoice(inv) \in Seq(InvoiceStatuses)
BY RestateRows DEF IssueInvoice, MarkInvoicePaid, MarkInvoiceRefunded,
                   VoidCurrentInvoice, InvoiceStatuses

LEMMA PaymentTypes ==
    ASSUME NEW pay \in Seq(PaymentStatuses)
    PROVE  /\ CreateManualPayment(pay) \in Seq(PaymentStatuses)
           /\ SettleManualPayment(pay, "paid") \in Seq(PaymentStatuses)
           /\ SettleManualPayment(pay, "failed") \in Seq(PaymentStatuses)
           /\ FailLivePayment(pay) \in Seq(PaymentStatuses)
           /\ ReversePaidPayment(pay) \in Seq(PaymentStatuses)
BY RestateRows DEF CreateManualPayment, SettleManualPayment, FailLivePayment,
                   ReversePaidPayment, PaymentStatuses

LEMMA RefundTypes ==
    ASSUME NEW ref \in Seq(RefundStatuses)
    PROVE  /\ CreateRefund(ref) \in Seq(RefundStatuses)
           /\ CompleteRefund(ref) \in Seq(RefundStatuses)
           /\ Len(ref) > 0 =>
                 \A to \in RefundStatuses :
                    RestateLatest(ref, to) \in Seq(RefundStatuses)
BY RestateRows, ExceptSeq DEF CreateRefund, CompleteRefund, RestateLatest,
                              AttachRefundEvidence, MarkRefundOverdue,
                              RefundStatuses

\* The triggers that begin a command; the others only continue one.
Beginning ==
    {"supplier_confirm", "token_confirm", "supplier_decline", "buyer_cancel",
     "operator_cancel", "submit_receipt", "confirm_payment", "reject_payment",
     "start_preparing", "mark_ready", "confirm_pickup", "confirm_delivery",
     "expire", "payment_expire", "refund_request", "refund_overdue",
     "confirm_refund"}

LEMMA CommandTriggers == Beginning \subseteq Triggers
BY DEF Beginning, Triggers, transitionTable

\* Commands of buyers, sellers and operators keep the state well typed.
LEMMA CommandStepTypes ==
    ASSUME TypeInv, NEW o \in OrderIds,
           BuyerStep(o) \/ SellerStep(o) \/ OperatorStep(o)
    PROVE  TypeInv'
<1>1. /\ OrderTypes
      /\ BillingTypes
      /\ ClockTypes
      /\ SweepTypes
  BY DEF TypeInv
<1>2. CASE \E b \in Baskets : Create(o, b)
  <2>1. PICK b \in Baskets : Create(o, b)
    BY <1>2
  <2>2. b \in [Offers -> Nat]
    BY BasketsAssumption
  <2>3. OrderTypes'
    BY <1>1, <2>1, <2>2, ReserveSound DEF OrderTypes, Create, CreateOrder,
                                          CreateOrderItems, CreateConfirmToken,
                                          Statuses, Events
  <2>4. BillingTypes' /\ ClockTypes' /\ SweepTypes'
    BY <1>1, <2>1 DEF BillingTypes, ClockTypes, SweepTypes, Create,
                      CreateOrder, CreateOrderItems, CreateConfirmToken,
                      clockVars, billingVars, sweepVars
  <2>5. QED
    BY <2>3, <2>4 DEF TypeInv
<1>3. CASE Cancel(o)
  <2>1. OrderTypes'
    BY <1>1, <1>3, CommandTriggers, RunTransitionTypes
       DEF Beginning, Cancel
  <2>2. BillingTypes' /\ ClockTypes' /\ SweepTypes'
    BY <1>1, <1>3, InvoiceTypes, PaymentTypes, RefundTypes
       DEF BillingTypes, ClockTypes, SweepTypes, Cancel, CancelSettlement,
           clockVars, billingVars, sweepVars
  <2>3. QED
    BY <2>1, <2>2 DEF TypeInv
<1>4. CASE SubmitPaymentReceipt(o)
  <2>1. OrderTypes'
    BY <1>1, <1>4, CommandTriggers, RunTransitionTypes
       DEF Beginning, SubmitPaymentReceipt, RecordPaymentReceipt
  <2>2. BillingTypes' /\ ClockTypes' /\ SweepTypes'
    BY <1>1, <1>4, InvoiceTypes, PaymentTypes, RefundTypes
       DEF BillingTypes, ClockTypes, SweepTypes, SubmitPaymentReceipt,
           RecordPaymentReceipt, clockVars, billingVars, sweepVars
  <2>3. QED
    BY <2>1, <2>2 DEF TypeInv
<1>5. CASE ConfirmPickup(o)
  <2>1. OrderTypes'
    BY <1>1, <1>5, CommandTriggers, RunTransitionTypes
       DEF Beginning, ConfirmPickup
  <2>2. BillingTypes' /\ ClockTypes' /\ SweepTypes'
    BY <1>1, <1>5
       DEF BillingTypes, ClockTypes, SweepTypes, ConfirmPickup,
           AccrueCommission, clockVars, billingVars, sweepVars
  <2>3. QED
    BY <2>1, <2>2 DEF TypeInv
<1>6. CASE ConfirmRefund(o)
  <2>1. OrderTypes'
    BY <1>1, <1>6, CommandTriggers, RunTransitionTypes
       DEF Beginning, ConfirmRefund, SettleRefund
  <2>2. BillingTypes' /\ ClockTypes' /\ SweepTypes'
    BY <1>1, <1>6, InvoiceTypes, PaymentTypes, RefundTypes
       DEF BillingTypes, ClockTypes, SweepTypes, ConfirmRefund, SettleRefund,
           clockVars, billingVars, sweepVars
  <2>3. QED
    BY <2>1, <2>2 DEF TypeInv
<1>7. CASE SupplierConfirm(o)
  <2>1. OrderTypes'
    BY <1>1, <1>7, CommandTriggers, RunTransitionTypes
       DEF Beginning, SupplierConfirm
  <2>2. BillingTypes' /\ ClockTypes' /\ SweepTypes'
    BY <1>1, <1>7, InvoiceTypes, PaymentTypes, RefundTypes
       DEF BillingTypes, ClockTypes, SweepTypes, SupplierConfirm, issueInvoice,
           IssueDocument, SetOrderPaymentDue, clockVars, billingVars, sweepVars
  <2>3. QED
    BY <2>1, <2>2 DEF TypeInv
<1>8. CASE ConfirmToken(o)
  <2>1. OrderTypes'
    BY <1>1, <1>8, CommandTriggers, RunTransitionTypes
       DEF Beginning, ConfirmToken, ConsumeConfirmToken
  <2>2. BillingTypes' /\ ClockTypes' /\ SweepTypes'
    BY <1>1, <1>8, InvoiceTypes, PaymentTypes, RefundTypes
       DEF BillingTypes, ClockTypes, SweepTypes, ConfirmToken,
           ConsumeConfirmToken, issueInvoice, IssueDocument,
           SetOrderPaymentDue, clockVars, billingVars, sweepVars
  <2>3. QED
    BY <2>1, <2>2 DEF TypeInv
<1>9. CASE Decline(o)
  <2>1. OrderTypes'
    BY <1>1, <1>9, CommandTriggers, RunTransitionTypes
       DEF Beginning, Decline
  <2>2. BillingTypes' /\ ClockTypes' /\ SweepTypes'
    BY <1>1, <1>9
       DEF BillingTypes, ClockTypes, SweepTypes, Decline, clockVars,
           billingVars, sweepVars
  <2>3. QED
    BY <2>1, <2>2 DEF TypeInv
<1>10. CASE ConfirmPayment(o)
  <2>1. OrderTypes'
    BY <1>1, <1>10, CommandTriggers, RunTransitionTypes
       DEF Beginning, ConfirmPayment, SettlePayment
  <2>2. BillingTypes' /\ ClockTypes' /\ SweepTypes'
    BY <1>1, <1>10, InvoiceTypes, PaymentTypes, RefundTypes
       DEF BillingTypes, ClockTypes, SweepTypes, ConfirmPayment, SettlePayment,
           clockVars, billingVars, sweepVars
  <2>3. QED
    BY <2>1, <2>2 DEF TypeInv
<1>11. CASE RejectPayment(o)
  <2>1. OrderTypes'
    BY <1>1, <1>11, CommandTriggers, RunTransitionTypes
       DEF Beginning, RejectPayment, SettlePayment
  <2>2. BillingTypes' /\ ClockTypes' /\ SweepTypes'
    BY <1>1, <1>11, InvoiceTypes, PaymentTypes, RefundTypes
       DEF BillingTypes, ClockTypes, SweepTypes, RejectPayment, SettlePayment,
           clockVars, billingVars, sweepVars
  <2>3. QED
    BY <2>1, <2>2 DEF TypeInv
<1>12. CASE StartPreparing(o)
  <2>1. OrderTypes'
    BY <1>1, <1>12, CommandTriggers, RunTransitionTypes
       DEF Beginning, StartPreparing
  <2>2. BillingTypes' /\ ClockTypes' /\ SweepTypes'
    BY <1>1, <1>12
       DEF BillingTypes, ClockTypes, SweepTypes, StartPreparing, clockVars,
           billingVars, sweepVars
  <2>3. QED
    BY <2>1, <2>2 DEF TypeInv
<1>13. CASE MarkReady(o)
  <2>1. OrderTypes'
    BY <1>1, <1>13, CommandTriggers, RunTransitionTypes
       DEF Beginning, MarkReady
  <2>2. BillingTypes' /\ ClockTypes' /\ SweepTypes'
    BY <1>1, <1>13
       DEF BillingTypes, ClockTypes, SweepTypes, MarkReady, clockVars,
           billingVars, sweepVars
  <2>3. QED
    BY <2>1, <2>2 DEF TypeInv
<1>14. CASE ConfirmDelivery(o)
  <2>1. OrderTypes'
    BY <1>1, <1>14, CommandTriggers, RunTransitionTypes
       DEF Beginning, ConfirmDelivery
  <2>2. BillingTypes' /\ ClockTypes' /\ SweepTypes'
    BY <1>1, <1>14
       DEF BillingTypes, ClockTypes, SweepTypes, ConfirmDelivery,
           AccrueCommission, clockVars, billingVars, sweepVars
  <2>3. QED
    BY <2>1, <2>2 DEF TypeInv
<1>15. CASE SubmitRefundEvidence(o)
  <2>1. OrderTypes' /\ ClockTypes' /\ SweepTypes'
    BY <1>1, <1>15
       DEF OrderTypes, ClockTypes, SweepTypes, SubmitRefundEvidence,
           AttachRefundEvidence, orderVars, saleVars, clockVars, sweepVars,
           SoundStock
  <2>2. BillingTypes'
    BY <1>1, <1>15, InvoiceTypes, PaymentTypes, RefundTypes
       DEF BillingTypes, SubmitRefundEvidence, AttachRefundEvidence, Latest,
           RefundStatuses
  <2>3. QED
    BY <2>1, <2>2 DEF TypeInv
<1>16. CASE OperatorCancel(o)
  <2>1. OrderTypes'
    BY <1>1, <1>16, CommandTriggers, RunTransitionTypes
       DEF Beginning, OperatorCancel
  <2>2. BillingTypes' /\ ClockTypes' /\ SweepTypes'
    BY <1>1, <1>16, InvoiceTypes, PaymentTypes, RefundTypes
       DEF BillingTypes, ClockTypes, SweepTypes, OperatorCancel,
           CancelSettlement, clockVars, billingVars, sweepVars
  <2>3. QED
    BY <2>1, <2>2 DEF TypeInv
<1>17. CASE RequestRefund(o)
  <2>1. OrderTypes'
    BY <1>1, <1>17, CommandTriggers, RunTransitionTypes
       DEF Beginning, RequestRefund, OpenRefund
  <2>2. BillingTypes' /\ ClockTypes' /\ SweepTypes'
    BY <1>1, <1>17, InvoiceTypes, PaymentTypes, RefundTypes
       DEF BillingTypes, ClockTypes, SweepTypes, RequestRefund, OpenRefund,
           clockVars, billingVars, sweepVars
  <2>3. QED
    BY <2>1, <2>2 DEF TypeInv
<1>18. QED
  BY <1>2, <1>3, <1>4, <1>5, <1>6, <1>7, <1>8, <1>9, <1>10, <1>11, <1>12,
     <1>13, <1>14, <1>15, <1>16, <1>17
     DEF BuyerStep, SellerStep, OperatorStep

\* The steps of the sweepers keep the state well typed.
LEMMA SweepStepTypes ==
    ASSUME TypeInv, NEW d \in Dispatchers,
           OrderSweepStep(d) \/ RefundSweepStep(d) \/ DispatcherRestarts(d)
    PROVE  TypeInv'
<1>1. /\ OrderTypes
      /\ BillingTypes
      /\ ClockTypes
      /\ SweepTypes
  BY DEF TypeInv
<1>a. ASSUME NEW o \in OrderIds, NEW x \in OrderIds \cup {NoOrder}
      PROVE  /\ Dropped(d, o) \in OrderSweeps
             /\ [Dropped(d, o) EXCEPT !.expiring = x] \in OrderSweeps
  <2>1. orderSweep[d] \in OrderSweeps
    BY <1>1 DEF SweepTypes
  <2>2. Dropped(d, o) \in OrderSweeps
    BY <2>1 DEF Dropped, OrderSweeps
  <2>3. QED
    BY <2>2 DEF OrderSweeps
<1> USE DEF SweepStep, RefundStep, IdleOrderSweep, IdleRefundSweep
<1>2. CASE ListAwaitingConfirmation(d)
  <2>1. SweepTypes'
    BY <1>1, <1>2 DEF SweepTypes, OrderSweeps, ListAwaitingConfirmation
  <2>2. OrderTypes' /\ BillingTypes' /\ ClockTypes'
    BY <1>1, <1>2
       DEF OrderTypes, BillingTypes, ClockTypes, SoundStock,
           ListAwaitingConfirmation, orderVars, saleVars, clockVars,
           billingVars
  <2>3. QED
    BY <2>1, <2>2 DEF TypeInv
<1>3. CASE \E o \in OrderIds : Escalate(d, o)
  <2>1. PICK o \in OrderIds : Escalate(d, o)
    BY <1>3
  <2>2. OrderTypes' /\ BillingTypes' /\ ClockTypes'
    BY <1>1, <2>1 DEF OrderTypes, BillingTypes, ClockTypes, SoundStock, Events,
                      Escalate, saleVars, clockVars, billingVars
  <2>3. SweepTypes'
    BY <1>1, <1>a, <2>1 DEF SweepTypes, Escalate
  <2>4. QED
    BY <2>2, <2>3 DEF TypeInv
<1>4. CASE \E o \in OrderIds : EscalationFails(d, o)
  <2>1. SweepTypes'
    BY <1>1, <1>a, <1>4 DEF SweepTypes, EscalationFails
  <2>2. OrderTypes' /\ BillingTypes' /\ ClockTypes'
    BY <1>1, <1>4
       DEF OrderTypes, BillingTypes, ClockTypes, SoundStock, EscalationFails,
           orderVars, saleVars, clockVars, billingVars
  <2>3. QED
    BY <2>1, <2>2 DEF TypeInv
<1>5. CASE Expire(d)
  <2>1. orderSweep[d].expiring \in OrderIds /\ Expire(d)
    BY <1>1, <1>5 DEF SweepTypes, OrderSweeps, Expire
  <2>2. OrderTypes'
    BY <1>1, <2>1, CommandTriggers, RunTransitionTypes
       DEF Beginning, Expire
  <2>3. BillingTypes' /\ ClockTypes'
    BY <1>1, <2>1 DEF BillingTypes, ClockTypes, Expire,
                      clockVars, billingVars
  <2>4. SweepTypes'
    BY <1>1, <2>1 DEF SweepTypes, OrderSweeps, Expire
  <2>5. QED
    BY <2>2, <2>3, <2>4 DEF TypeInv
<1>6. CASE ExpiryNotApplied(d)
  <2>1. SweepTypes'
    BY <1>1, <1>6 DEF SweepTypes, OrderSweeps, ExpiryNotApplied
  <2>2. OrderTypes' /\ BillingTypes' /\ ClockTypes'
    BY <1>1, <1>6
       DEF OrderTypes, BillingTypes, ClockTypes, SoundStock, ExpiryNotApplied,
           orderVars, saleVars, clockVars, billingVars
  <2>3. QED
    BY <2>1, <2>2 DEF TypeInv
<1>7. CASE ListPaymentOverdue(d)
  <2>1. SweepTypes'
    BY <1>1, <1>7 DEF SweepTypes, OrderSweeps, ListPaymentOverdue
  <2>2. OrderTypes' /\ BillingTypes' /\ ClockTypes'
    BY <1>1, <1>7
       DEF OrderTypes, BillingTypes, ClockTypes, SoundStock,
           ListPaymentOverdue, orderVars, saleVars, clockVars, billingVars
  <2>3. QED
    BY <2>1, <2>2 DEF TypeInv
<1>8. CASE \E o \in OrderIds : PaymentExpire(d, o)
  <2>1. PICK o \in OrderIds : PaymentExpire(d, o)
    BY <1>8
  <2>2. OrderTypes'
    BY <1>1, <2>1, CommandTriggers, RunTransitionTypes
       DEF Beginning, PaymentExpire
  <2>3. BillingTypes' /\ ClockTypes'
    BY <1>1, <2>1, InvoiceTypes, PaymentTypes
       DEF BillingTypes, ClockTypes, PaymentExpire, CancelSettlement,
           clockVars, billingVars
  <2>4. SweepTypes'
    BY <1>1, <1>a, <2>1 DEF SweepTypes, PaymentExpire
  <2>5. QED
    BY <2>2, <2>3, <2>4 DEF TypeInv
<1>9. CASE \E o \in OrderIds : PaymentExpiryNotApplied(d, o)
  <2>1. SweepTypes'
    BY <1>1, <1>a, <1>9 DEF SweepTypes, PaymentExpiryNotApplied
  <2>2. OrderTypes' /\ BillingTypes' /\ ClockTypes'
    BY <1>1, <1>9
       DEF OrderTypes, BillingTypes, ClockTypes, SoundStock,
           PaymentExpiryNotApplied, orderVars, saleVars, clockVars,
           billingVars
  <2>3. QED
    BY <2>1, <2>2 DEF TypeInv
<1>10. CASE EndOrderSweep(d)
  <2>1. SweepTypes'
    BY <1>1, <1>10 DEF SweepTypes, OrderSweeps, EndOrderSweep
  <2>2. OrderTypes' /\ BillingTypes' /\ ClockTypes'
    BY <1>1, <1>10
       DEF OrderTypes, BillingTypes, ClockTypes, SoundStock, EndOrderSweep,
           orderVars, saleVars, clockVars, billingVars
  <2>3. QED
    BY <2>1, <2>2 DEF TypeInv
<1>11. CASE ListRefundsDue(d)
  <2>1. SweepTypes'
    BY <1>1, <1>11 DEF SweepTypes, ListRefundsDue
  <2>2. OrderTypes' /\ BillingTypes' /\ ClockTypes'
    BY <1>1, <1>11
       DEF OrderTypes, BillingTypes, ClockTypes, SoundStock, ListRefundsDue,
           orderVars, saleVars, clockVars, billingVars
  <2>3. QED
    BY <2>1, <2>2 DEF TypeInv
<1>12. CASE \E o \in OrderIds : OrderOverdue(d, o)
  <2>1. PICK o \in OrderIds : OrderOverdue(d, o)
    BY <1>12
  <2>2. OrderTypes'
    BY <1>1, <2>1, CommandTriggers, RunTransitionTypes
       DEF Beginning, OrderOverdue
  <2>3. BillingTypes' /\ ClockTypes'
    BY <1>1, <2>1 DEF BillingTypes, ClockTypes, OrderOverdue,
                      clockVars, billingVars
  <2>4. SweepTypes'
    BY <1>1, <2>1 DEF SweepTypes, OrderOverdue
  <2>5. QED
    BY <2>2, <2>3, <2>4 DEF TypeInv
<1>13. CASE \E o \in OrderIds : OrderAlreadyMoved(d, o)
  <2>1. SweepTypes'
    BY <1>1, <1>13 DEF SweepTypes, OrderAlreadyMoved
  <2>2. OrderTypes' /\ BillingTypes' /\ ClockTypes'
    BY <1>1, <1>13
       DEF OrderTypes, BillingTypes, ClockTypes, SoundStock, OrderAlreadyMoved,
           orderVars, saleVars, clockVars, billingVars
  <2>3. QED
    BY <2>1, <2>2 DEF TypeInv
<1>14. CASE \E o \in OrderIds : OrderOverdueFails(d, o)
  <2>1. SweepTypes'
    BY <1>1, <1>14 DEF SweepTypes, OrderOverdueFails
  <2>2. OrderTypes' /\ BillingTypes' /\ ClockTypes'
    BY <1>1, <1>14
       DEF OrderTypes, BillingTypes, ClockTypes, SoundStock, OrderOverdueFails,
           orderVars, saleVars, clockVars, billingVars
  <2>3. QED
    BY <2>1, <2>2 DEF TypeInv
<1>15. CASE MarkOverdue(d)
  <2>1. /\ refundSweep[d].marking \in OrderIds
        /\ Len(refunds[refundSweep[d].marking]) > 0
    BY <1>1, <1>15 DEF SweepTypes, MarkOverdue, MarkRefundOverdue, Latest
  <2>2. BillingTypes'
    BY <1>1, <1>15, <2>1, RefundTypes
       DEF BillingTypes, MarkOverdue, MarkRefundOverdue, RefundStatuses
  <2>3. OrderTypes' /\ ClockTypes'
    BY <1>1, <1>15, <2>1 DEF OrderTypes, ClockTypes, SoundStock, Events,
                             MarkOverdue, MarkRefundOverdue, saleVars,
                             clockVars
  <2>4. SweepTypes'
    BY <1>1, <1>15 DEF SweepTypes, MarkOverdue, MarkRefundOverdue
  <2>5. QED
    BY <2>2, <2>3, <2>4 DEF TypeInv
<1>16. CASE OverdueNotMarked(d)
  <2>1. SweepTypes'
    BY <1>1, <1>16 DEF SweepTypes, OverdueNotMarked
  <2>2. OrderTypes' /\ BillingTypes' /\ ClockTypes'
    BY <1>1, <1>16
       DEF OrderTypes, BillingTypes, ClockTypes, SoundStock, OverdueNotMarked,
           orderVars, saleVars, clockVars, billingVars
  <2>3. QED
    BY <2>1, <2>2 DEF TypeInv
<1>17. CASE DispatcherRestarts(d)
  <2>1. SweepTypes'
    BY <1>1, <1>17 DEF SweepTypes, OrderSweeps, DispatcherRestarts
  <2>2. OrderTypes' /\ BillingTypes' /\ ClockTypes'
    BY <1>1, <1>17
       DEF OrderTypes, BillingTypes, ClockTypes, SoundStock,
           DispatcherRestarts, orderVars, saleVars, clockVars, billingVars
  <2>3. QED
    BY <2>1, <2>2 DEF TypeInv
<1>18. QED
  BY <1>2, <1>3, <1>4, <1>5, <1>6, <1>7, <1>8, <1>9, <1>10, <1>11, <1>12,
     <1>13, <1>14, <1>15, <1>16, <1>17
     DEF OrderSweepStep, RefundSweepStep

LEMMA TypeInvInit == Init => TypeInv
<1> SUFFICES ASSUME Init PROVE TypeInv
  OBVIOUS
<1>1. OrderTypes
  BY BoundsAssumption DEF Init, OrderTypes, SoundStock, OfferRows,
                          OfferStatuses, RowAllowed
<1>2. BillingTypes /\ ClockTypes /\ SweepTypes
  BY DEF Init, BillingTypes, ClockTypes, SweepTypes, OrderSweeps,
         IdleOrderSweep, IdleRefundSweep
<1>3. QED
  BY <1>1, <1>2 DEF TypeInv

LEMMA TypeInvStep == TypeInv /\ [Next]_vars => TypeInv'
<1> SUFFICES ASSUME TypeInv, [Next]_vars PROVE TypeInv'
  OBVIOUS
<1>1. ASSUME NEW o \in OrderIds,
             BuyerStep(o) \/ SellerStep(o) \/ OperatorStep(o)
      PROVE  TypeInv'
  BY <1>1, CommandStepTypes
<1>2. ASSUME NEW o \in OrderIds, TimeStep(o)
      PROVE  TypeInv'
  <2>1. OrderTypes' /\ BillingTypes' /\ SweepTypes'
    BY <1>2 DEF TypeInv, OrderTypes, BillingTypes, SweepTypes, SoundStock,
                TimeStep, ConfirmationDeadlinePasses, PaymentDeadlinePasses,
                RefundDeadlinePasses, orderVars, saleVars, billingVars,
                sweepVars
  <2>2. ClockTypes
    BY DEF TypeInv
  <2>3. CASE ConfirmationDeadlinePasses(o)
    BY <2>1, <2>2, <2>3 DEF TypeInv, ClockTypes, ConfirmationDeadlinePasses
  <2>4. CASE PaymentDeadlinePasses(o)
    BY <2>1, <2>2, <2>4 DEF TypeInv, ClockTypes, PaymentDeadlinePasses
  <2>5. CASE RefundDeadlinePasses(o)
    BY <2>1, <2>2, <2>5 DEF TypeInv, ClockTypes, RefundDeadlinePasses
  <2>6. QED
    BY <1>2, <2>3, <2>4, <2>5 DEF TimeStep
<1>3. ASSUME NEW f \in Offers, NEW qty \in 0 .. MaxDeclared,
             NEW visibility \in {"published", "hidden"},
             UpdateOffer(f, qty, visibility)
      PROVE  TypeInv'
  <2>1. SoundStock(offers')
    <3>2. SoundStock(offers) /\ qty \in Nat
      BY BoundsAssumption DEF TypeInv, OrderTypes
    <3>4. offers[f] \in [status : OfferStatuses, declared : Nat, reserved : Nat]
      BY <3>2 DEF SoundStock, OfferRows
    <3>5. UpdateOfferStatus(UpdateOfferValues(offers[f], qty), visibility) =
            [status |-> visibility, declared |-> qty,
             reserved |-> offers[f].reserved]
      <4>1. PICK old \in [status : OfferStatuses, declared : Nat,
                          reserved : Nat] : old = offers[f]
        BY <3>4
      <4>2. UpdateOfferValues(old, qty) =
              [status |-> old.status, declared |-> qty,
               reserved |-> old.reserved]
        BY <4>1 DEF UpdateOfferValues
      <4>3. QED
        BY <4>1, <4>2 DEF UpdateOfferStatus
    <3>1. /\ offers' = [offers EXCEPT ![f] =
                [status |-> visibility, declared |-> qty,
                 reserved |-> offers[f].reserved]]
          /\ RowAllowed(offers'[f])
      BY <1>3, <3>5 DEF UpdateOffer
    <3>3. QED
      BY <3>1, <3>2 DEF SoundStock, OfferRows, OfferStatuses
  <2>2. OrderTypes'
    BY <1>3, <2>1 DEF TypeInv, OrderTypes, UpdateOffer, UpdateOfferValues,
                      UpdateOfferStatus, orderVars
  <2>3. BillingTypes' /\ ClockTypes' /\ SweepTypes'
    BY <1>3 DEF TypeInv, BillingTypes, ClockTypes, SweepTypes, UpdateOffer,
                UpdateOfferValues, UpdateOfferStatus, clockVars, billingVars,
                sweepVars
  <2>4. QED
    BY <2>2, <2>3 DEF TypeInv
<1>4. CASE SellerStatusChanges
  BY <1>4 DEF TypeInv, OrderTypes, BillingTypes, ClockTypes, SweepTypes,
              SoundStock, SellerStatusChanges, orderVars, clockVars,
              billingVars, sweepVars
<1>5. ASSUME NEW d \in Dispatchers,
             OrderSweepStep(d) \/ RefundSweepStep(d) \/ DispatcherRestarts(d)
      PROVE  TypeInv'
  BY <1>5, SweepStepTypes
<1>6. CASE UNCHANGED vars
  BY <1>6 DEF TypeInv, OrderTypes, BillingTypes, ClockTypes, SweepTypes,
              SoundStock, vars, orderVars, clockVars, billingVars, sweepVars,
              saleVars
<1>7. QED
  BY <1>1, <1>2, <1>3, <1>4, <1>5, <1>6 DEF Next

LEMMA TypeInvHolds == Spec => []TypeInv
BY TypeInvInit, TypeInvStep, PTL DEF Spec

\* Every state of every store has its type. (Repository.Apply, Sweeper.RunOnce,
\* RefundSweeper.RunOnce.)
THEOREM TypeCorrect == Spec => []TypeOK
<1>1. TypeInv => TypeOK
  BY DEF TypeInv, OrderTypes, BillingTypes, ClockTypes, SweepTypes,
         OrderSweeps, SoundStock, TypeOK
<1>2. QED
  BY <1>1, TypeInvHolds, PTL

\* No offer is ever reserved beyond its declared quantity, whatever the orders,
\* the sellers and the sweepers do. (ReserveOfferQuantity,
\* ReleaseOfferQuantity, ConsumeOfferQuantity.)
THEOREM StockStaysBounded == Spec => []StockBounded
<1>1. TypeInv => StockBounded
  BY DEF TypeInv, OrderTypes, SoundStock, StockBounded
<1>2. QED
  BY <1>1, TypeInvHolds, PTL

-----------------------------------------------------------------------------
(* The documents, payments and refunds of an order agree with its status,    *)
(* in every store and under any number of sweeping dispatchers.              *)

\* Statuses from which no money was asked, is asked, was paid, never came, and
\* in which a refund exists.
Unbilled == {NotPlaced, "created", "buyer_decision_pending"}
Billed == {"awaiting_payment", "payment_review"}
Forgone == {"expired", "cancelled_by_buyer_sla", "cancelled_by_operator"}
Refunding == {"refund_requested", "refund_overdue", "refunded"}

\* The statuses an order rests in between two commands.
Resting == Unbilled \cup Billed \cup PaidFor \cup Forgone \cup {"refunded"}

InvoiceShape(o) ==
    /\ status[o] \in Unbilled => Len(invoices[o]) = 0
    /\ status[o] \in Billed => Len(invoices[o]) = 1 /\ invoices[o][1] = "issued"
    /\ status[o] \in PaidFor => Len(invoices[o]) = 1 /\ invoices[o][1] = "paid"
    /\ status[o] = "refunded" =>
          Len(invoices[o]) = 1 /\ invoices[o][1] = "refunded"
    /\ status[o] \in Forgone =>
          \A i \in 1 .. Len(invoices[o]) : invoices[o][i] = "voided"

\* Every receipt but the last was rejected; the last follows the order.
LastPayment(o, st) ==
    /\ Len(payments[o]) > 0
    /\ \A i \in 1 .. Len(payments[o]) :
          payments[o][i] = IF i = Len(payments[o]) THEN st ELSE "failed"

PaymentShape(o) ==
    /\ status[o] \in Unbilled => Len(payments[o]) = 0
    /\ status[o] \in Forgone \cup {"awaiting_payment"} =>
          \A i \in 1 .. Len(payments[o]) : payments[o][i] = "failed"
    /\ status[o] = "payment_review" => LastPayment(o, "created")
    /\ status[o] \in PaidFor => LastPayment(o, "paid")
    /\ status[o] = "refunded" => LastPayment(o, "reversed")

RefundShape(o) ==
    /\ status[o] \notin Refunding => Len(refunds[o]) = 0
    /\ status[o] = "refund_requested" =>
          Len(refunds[o]) = 1 /\ refunds[o][1] \in UndueRefunds
    /\ status[o] = "refund_overdue" =>
          Len(refunds[o]) = 1 /\ refunds[o][1] \in OpenRefunds
    /\ status[o] = "refunded" =>
          Len(refunds[o]) = 1 /\ refunds[o][1] = "refunded"

Shape(o) ==
    /\ status[o] \in Resting
    /\ InvoiceShape(o)
    /\ PaymentShape(o)
    /\ RefundShape(o)

\* A refund sweeper holds on to orders whose refund was due, and reaches the
\* refund only when its order is no longer waiting in refund_requested.
SweepShape(d) ==
    /\ \A o \in refundSweep[d].todo : status[o] \in Refunding
    /\ refundSweep[d].marking # NoOrder =>
          status[refundSweep[d].marking] \in {"refund_overdue", "refunded"}

BillingInv ==
    /\ \A o \in OrderIds : Shape(o)
    /\ \A d \in Dispatchers : SweepShape(d)

-----------------------------------------------------------------------------
(* Moving one order. *)

\* A command that goes through found its order in one of the statuses of its
\* row and leaves every other order where it was.
LEMMA Moves ==
    ASSUME TypeInv, NEW o \in OrderIds, NEW t, NEW from, NEW to,
           Command(t, from, to), runTransition(o, t)
    PROVE  /\ status[o] \in from
           /\ status'[o] = to
           /\ \A p \in OrderIds : p # o => status'[p] = status[p]
BY DEF Command, runTransition, TransitionOrder, TypeInv, OrderTypes

\* An order whose status and rows stay keeps its shape.
LEMMA ShapeFrame ==
    ASSUME NEW p, Shape(p), status'[p] = status[p],
           invoices'[p] = invoices[p], payments'[p] = payments[p],
           refunds'[p] = refunds[p]
    PROVE  Shape(p)'
BY DEF Shape, InvoiceShape, PaymentShape, RefundShape, LastPayment

\* A status that is not a status of the table is none of those named here.
LEMMA NotPlacedApart ==
    NotPlaced \notin Billed \cup PaidFor \cup Forgone \cup Refunding
                    \cup {"created", "buyer_decision_pending"}
BY NotPlacedAssumption DEF Statuses, Billed, PaidFor, Forgone, Refunding

\* What an action that concerns one order leaves of the others.
OthersStay(o) ==
    \A p \in OrderIds : p # o =>
        /\ status'[p] = status[p]
        /\ invoices'[p] = invoices[p]
        /\ payments'[p] = payments[p]
        /\ refunds'[p] = refunds[p]

LEMMA OneOrder ==
    ASSUME \A p \in OrderIds : Shape(p), NEW o \in OrderIds, OthersStay(o),
           Shape(o)'
    PROVE  \A p \in OrderIds : Shape(p)'
BY ShapeFrame DEF OthersStay

\* A cancellation voids the standing invoice and fails the open payment.
LEMMA CancelShape ==
    ASSUME TypeInv, NEW o \in OrderIds, Shape(o),
           status[o] \in {"created", "buyer_decision_pending",
                          "awaiting_payment", "payment_review"},
           status'[o] \in Forgone, CancelSettlement(o)
    PROVE  Shape(o)'
<1>1. /\ invoices[o] \in Seq(InvoiceStatuses)
      /\ payments[o] \in Seq(PaymentStatuses)
      /\ invoices'[o] = Restate(invoices[o], {"issued"}, "voided")
      /\ payments'[o] = Restate(payments[o], {"created"}, "failed")
      /\ refunds'[o] = refunds[o]
  BY DEF TypeInv, BillingTypes, CancelSettlement, VoidCurrentInvoice,
         FailLivePayment
<1>2. /\ Len(invoices'[o]) = Len(invoices[o])
      /\ \A i \in 1 .. Len(invoices[o]) : invoices'[o][i] =
            IF invoices[o][i] \in {"issued"} THEN "voided" ELSE invoices[o][i]
  BY <1>1, RestateRows DEF InvoiceStatuses
<1>3. /\ Len(payments'[o]) = Len(payments[o])
      /\ \A i \in 1 .. Len(payments[o]) : payments'[o][i] =
            IF payments[o][i] \in {"created"} THEN "failed" ELSE payments[o][i]
  BY <1>1, RestateRows DEF PaymentStatuses
<1>4. status'[o] \notin Unbilled \cup Billed \cup PaidFor \cup Refunding
  BY NotPlacedApart DEF Unbilled, Billed, PaidFor, Refunding, Forgone
<1>5. InvoiceShape(o)'
  BY <1>1, <1>2, <1>4 DEF InvoiceShape, Shape, Unbilled, Billed, Refunding
<1>6. PaymentShape(o)'
  BY <1>1, <1>3, <1>4
     DEF PaymentShape, LastPayment, Shape, Unbilled, Billed, Refunding
<1>7. RefundShape(o)'
  BY <1>1, <1>4 DEF RefundShape, Shape, Refunding
<1>8. QED
  BY <1>5, <1>6, <1>7 DEF Shape, Resting

\* An order with a refund goes on having one, and does not go back to waiting.
KeepsRefunding(o) ==
    /\ status[o] \in Refunding => status'[o] \in Refunding
    /\ status[o] \in {"refund_overdue", "refunded"} =>
          status'[o] \in {"refund_overdue", "refunded"}

\* Commands that move an order and leave its rows.
LEMMA MoveOnlyShape ==
    ASSUME NEW o \in OrderIds, Shape(o),
           invoices'[o] = invoices[o], payments'[o] = payments[o],
           refunds'[o] = refunds[o],
           \/ status[o] = NotPlaced /\ status'[o] = "created"
           \/ status[o] = "created" /\ status'[o] = "buyer_decision_pending"
           \/ status[o] = "created" /\ status'[o] = "expired"
           \/ /\ status[o] \in {"paid", "preparing", "ready"}
              /\ status'[o] \in {"preparing", "ready", "closed"}
           \/ status[o] = "refund_requested" /\ status'[o] = "refund_overdue"
    PROVE  Shape(o)'
<1>1. status'[o] \in Resting
  BY DEF Resting, Unbilled, PaidFor, Forgone
<1>2. InvoiceShape(o)'
  BY NotPlacedApart
     DEF Shape, InvoiceShape, Unbilled, Billed, PaidFor, Forgone, Refunding
<1>3. PaymentShape(o)'
  BY NotPlacedApart
     DEF Shape, PaymentShape, LastPayment, Unbilled, Billed, PaidFor, Forgone,
         Refunding
<1>4. RefundShape(o)'
  BY NotPlacedApart
     DEF Shape, RefundShape, Refunding, UndueRefunds, OpenRefunds
<1>5. QED
  BY <1>1, <1>2, <1>3, <1>4 DEF Shape

LEMMA ConfirmShape ==
    ASSUME TypeInv, NEW o \in OrderIds, Shape(o),
           status[o] = "created", status'[o] = "awaiting_payment",
           issueInvoice(o)
    PROVE  Shape(o)'
<1>1. /\ Len(invoices[o]) = 0 /\ Len(payments[o]) = 0 /\ Len(refunds[o]) = 0
      /\ invoices[o] \in Seq(InvoiceStatuses)
  BY DEF TypeInv, BillingTypes, Shape, InvoiceShape, PaymentShape, RefundShape,
         Unbilled, Refunding
<1>2. /\ invoices'[o] = Append(invoices[o], "issued")
      /\ payments'[o] = payments[o]
      /\ refunds'[o] = refunds[o]
  BY DEF TypeInv, BillingTypes, issueInvoice, IssueDocument,
         SetOrderPaymentDue, IssueInvoice
<1>3. status'[o] \notin Unbilled \cup PaidFor \cup Forgone \cup Refunding
  BY NotPlacedApart DEF Unbilled, Billed, PaidFor, Forgone, Refunding
<1>4. InvoiceShape(o)'
  BY <1>1, <1>2, <1>3 DEF InvoiceShape, Refunding
<1>5. PaymentShape(o)' /\ RefundShape(o)'
  BY <1>1, <1>2, <1>3 DEF PaymentShape, RefundShape, Refunding
<1>6. QED
  BY <1>4, <1>5 DEF Shape, Resting, Billed

LEMMA ReceiptShape ==
    ASSUME TypeInv, NEW o \in OrderIds, Shape(o),
           status[o] = "awaiting_payment", status'[o] = "payment_review",
           invoices'[o] = invoices[o], refunds'[o] = refunds[o],
           payments'[o] = CreateManualPayment(payments[o])
    PROVE  Shape(o)'
<1>1. payments[o] \in Seq(PaymentStatuses)
  BY DEF TypeInv, BillingTypes
<1>2. /\ Len(payments'[o]) = Len(payments[o]) + 1
      /\ \A i \in 1 .. Len(payments[o]) : payments'[o][i] = payments[o][i]
      /\ payments'[o][Len(payments[o]) + 1] = "created"
  BY <1>1 DEF CreateManualPayment, PaymentStatuses
<1>3. status'[o] \notin Unbilled \cup PaidFor \cup Forgone \cup Refunding
  BY NotPlacedApart DEF Unbilled, Billed, PaidFor, Forgone, Refunding
<1>4. LastPayment(o, "created")'
  BY <1>1, <1>2 DEF LastPayment, Shape, PaymentShape
<1>5. PaymentShape(o)'
  BY <1>3, <1>4 DEF PaymentShape, Refunding
<1>6. InvoiceShape(o)' /\ RefundShape(o)'
  BY <1>3 DEF Shape, InvoiceShape, RefundShape, Billed, Refunding
<1>7. QED
  BY <1>5, <1>6 DEF Shape, Resting, Billed

\* Deciding a receipt decides the one row under review.
LEMMA VerdictShape ==
    ASSUME TypeInv, NEW o \in OrderIds, Shape(o), refunds'[o] = refunds[o],
           status[o] = "payment_review",
           \/ /\ status'[o] = "paid"
              /\ invoices'[o] = MarkInvoicePaid(invoices[o])
              /\ payments'[o] = SettleManualPayment(payments[o], "paid")
           \/ /\ status'[o] = "awaiting_payment"
              /\ invoices'[o] = invoices[o]
              /\ payments'[o] = SettleManualPayment(payments[o], "failed")
    PROVE  Shape(o)'
<1>1. /\ invoices[o] \in Seq(InvoiceStatuses)
      /\ payments[o] \in Seq(PaymentStatuses)
      /\ Len(invoices[o]) = 1
      /\ invoices[o][1] = "issued"
      /\ LastPayment(o, "created")
      /\ Len(refunds[o]) = 0
  BY DEF TypeInv, BillingTypes, Shape, InvoiceShape, PaymentShape, RefundShape,
         Billed, Refunding
<1>2. CASE status'[o] = "paid"
  <2>1. /\ invoices'[o] = Restate(invoices[o], {"issued"}, "paid")
        /\ payments'[o] = Restate(payments[o], {"created"}, "paid")
    BY <1>2 DEF MarkInvoicePaid, SettleManualPayment
  <2>2. Len(invoices'[o]) = 1 /\ invoices'[o][1] = "paid"
    BY <1>1, <2>1, RestateRows DEF InvoiceStatuses
  <2>3. LastPayment(o, "paid")'
    <3>1. /\ Len(payments'[o]) = Len(payments[o])
          /\ \A i \in 1 .. Len(payments[o]) : payments'[o][i] =
                IF payments[o][i] \in {"created"} THEN "paid"
                ELSE payments[o][i]
      BY <1>1, <2>1, RestateRows DEF PaymentStatuses
    <3>2. QED
      BY <1>1, <3>1 DEF LastPayment
  <2>4. status'[o] \notin Unbilled \cup Billed \cup Forgone \cup Refunding
    BY <1>2, NotPlacedApart DEF Unbilled, Billed, PaidFor, Forgone, Refunding
  <2>5. InvoiceShape(o)' /\ PaymentShape(o)' /\ RefundShape(o)'
    BY <1>1, <1>2, <2>2, <2>3, <2>4
       DEF InvoiceShape, PaymentShape, RefundShape, Refunding
  <2>6. QED
    BY <1>2, <2>5 DEF Shape, Resting, PaidFor
<1>3. CASE status'[o] = "awaiting_payment"
  <2>1. /\ invoices'[o] = invoices[o]
        /\ payments'[o] = Restate(payments[o], {"created"}, "failed")
    BY <1>3 DEF SettleManualPayment
  <2>2. /\ Len(payments'[o]) = Len(payments[o])
        /\ \A i \in 1 .. Len(payments[o]) : payments'[o][i] =
              IF payments[o][i] \in {"created"} THEN "failed"
              ELSE payments[o][i]
    BY <1>1, <2>1, RestateRows DEF PaymentStatuses
  <2>3. \A i \in 1 .. Len(payments'[o]) : payments'[o][i] = "failed"
    BY <1>1, <2>2 DEF LastPayment
  <2>4. status'[o] \notin Unbilled \cup PaidFor \cup Forgone \cup Refunding
    BY <1>3, NotPlacedApart DEF Unbilled, Billed, PaidFor, Forgone, Refunding
  <2>5. InvoiceShape(o)' /\ PaymentShape(o)' /\ RefundShape(o)'
    BY <1>1, <1>3, <2>1, <2>3, <2>4
       DEF InvoiceShape, PaymentShape, RefundShape, Refunding
  <2>6. QED
    BY <1>3, <2>5 DEF Shape, Resting, Billed
<1>4. QED
  BY <1>2, <1>3

LEMMA RefundOpensShape ==
    ASSUME TypeInv, NEW o \in OrderIds, Shape(o),
           status[o] \in {"paid", "preparing", "ready"},
           status'[o] = "refund_requested",
           invoices'[o] = invoices[o], payments'[o] = payments[o],
           refunds'[o] = CreateRefund(refunds[o])
    PROVE  Shape(o)'
<1>1. refunds[o] \in Seq(RefundStatuses) /\ Len(refunds[o]) = 0
  BY DEF TypeInv, BillingTypes, Shape, RefundShape, Refunding
<1>2. Len(refunds'[o]) = 1 /\ refunds'[o][1] = "requested"
  BY <1>1 DEF CreateRefund
<1>3. status'[o] \notin Unbilled \cup Billed \cup Forgone
  BY NotPlacedApart DEF Unbilled, Billed, Forgone, Refunding
<1>4. InvoiceShape(o)' /\ PaymentShape(o)'
  BY <1>3 DEF Shape, InvoiceShape, PaymentShape, LastPayment, PaidFor, Billed
<1>5. RefundShape(o)'
  BY <1>2 DEF RefundShape, Refunding, UndueRefunds
<1>6. QED
  BY <1>4, <1>5 DEF Shape, Resting, PaidFor

\* Evidence and lateness change the one refund of an order that stays.
LEMMA RestatedRefundShape ==
    ASSUME TypeInv, NEW o \in OrderIds, Shape(o), status'[o] = status[o],
           invoices'[o] = invoices[o], payments'[o] = payments[o],
           NEW to, refunds'[o] = RestateLatest(refunds[o], to),
           \/ Latest(refunds[o], {"requested"}) /\ to = "evidence_uploaded"
           \/ /\ Latest(refunds[o], UndueRefunds) /\ to = "overdue"
              /\ status[o] \in {"refund_overdue", "refunded"}
    PROVE  Shape(o)'
<1>1. /\ refunds[o] \in Seq(RefundStatuses)
      /\ status[o] \in Refunding
      /\ Len(refunds[o]) = 1
      /\ status[o] # "refunded"
  BY DEF TypeInv, BillingTypes, Shape, RefundShape, Latest, Refunding,
         UndueRefunds
<1>2. Len(refunds'[o]) = 1 /\ refunds'[o][1] = to
  <2>1. to \in RefundStatuses
    BY DEF RefundStatuses
  <2>2. refunds'[o] = [refunds[o] EXCEPT ![1] = to]
    BY <1>1 DEF RestateLatest, AttachRefundEvidence, MarkRefundOverdue
  <2>3. QED
    BY <1>1, <2>1, <2>2, ExceptSeq
<1>3. RefundShape(o)'
  BY <1>1, <1>2 DEF RefundShape, Refunding, UndueRefunds, OpenRefunds
<1>4. InvoiceShape(o)' /\ PaymentShape(o)'
  BY DEF Shape, InvoiceShape, PaymentShape, LastPayment
<1>5. QED
  BY <1>3, <1>4 DEF Shape

\* The money comes back: refund, payment and document end together.
LEMMA RefundLandsShape ==
    ASSUME TypeInv, NEW o \in OrderIds, Shape(o),
           status[o] \in {"refund_requested", "refund_overdue"},
           status'[o] = "refunded",
           refunds'[o] = CompleteRefund(refunds[o]),
           payments'[o] = ReversePaidPayment(payments[o]),
           invoices'[o] = MarkInvoiceRefunded(invoices[o])
    PROVE  Shape(o)'
<1>1. /\ invoices[o] \in Seq(InvoiceStatuses)
      /\ payments[o] \in Seq(PaymentStatuses)
      /\ refunds[o] \in Seq(RefundStatuses)
      /\ Len(invoices[o]) = 1 /\ invoices[o][1] = "paid"
      /\ LastPayment(o, "paid")
      /\ Len(refunds[o]) = 1 /\ refunds[o][1] \in OpenRefunds
  BY DEF TypeInv, BillingTypes, Shape, InvoiceShape, PaymentShape, RefundShape,
         PaidFor, UndueRefunds, OpenRefunds
<1>2. Len(invoices'[o]) = 1 /\ invoices'[o][1] = "refunded"
  BY <1>1, RestateRows DEF MarkInvoiceRefunded, InvoiceStatuses
<1>3. Len(refunds'[o]) = 1 /\ refunds'[o][1] = "refunded"
  BY <1>1, RestateRows DEF CompleteRefund, RefundStatuses
<1>4. LastPayment(o, "reversed")'
  <2>1. /\ Len(payments'[o]) = Len(payments[o])
        /\ \A i \in 1 .. Len(payments[o]) : payments'[o][i] =
              IF payments[o][i] \in {"paid"} THEN "reversed"
              ELSE payments[o][i]
    BY <1>1, RestateRows DEF ReversePaidPayment, PaymentStatuses
  <2>2. QED
    BY <1>1, <2>1 DEF LastPayment
<1>5. status'[o] \notin Unbilled \cup Billed \cup PaidFor \cup Forgone
  BY NotPlacedApart DEF Unbilled, Billed, PaidFor, Forgone, Refunding
<1>6. InvoiceShape(o)' /\ PaymentShape(o)' /\ RefundShape(o)'
  BY <1>2, <1>3, <1>4, <1>5
     DEF InvoiceShape, PaymentShape, RefundShape, Billed, Refunding
<1>7. QED
  BY <1>6 DEF Shape, Resting

-----------------------------------------------------------------------------
(* The steps of the system. *)

LEMMA CommandStepShape ==
    ASSUME TypeInv, \A p \in OrderIds : Shape(p), NEW o \in OrderIds,
           BuyerStep(o) \/ SellerStep(o) \/ OperatorStep(o)
    PROVE  OthersStay(o) /\ Shape(o)' /\ KeepsRefunding(o)
<1>1. Shape(o) /\ OrderTypes /\ BillingTypes
  BY DEF TypeInv
<1> USE DEF OrderTypes, BillingTypes
<1>2. CASE \E b \in Baskets : Create(o, b)
  <2>1. /\ status[o] = NotPlaced
        /\ status' = [status EXCEPT ![o] = "created"]
        /\ UNCHANGED <<invoices, payments, refunds>>
    BY <1>2 DEF Create, CreateOrder, CreateOrderItems, CreateConfirmToken,
                billingVars
  <2>2. status'[o] = "created"
    BY <1>1, <2>1
  <2>3. OthersStay(o) /\ Shape(o)'
    BY <1>1, <2>1, <2>2, MoveOnlyShape DEF OthersStay
  <2>4. KeepsRefunding(o)
    BY <2>1, NotPlacedApart DEF KeepsRefunding, Refunding
  <2>5. QED
    BY <2>3, <2>4
<1>3. CASE Cancel(o)
  <2>1. /\ status[o] \in {"created", "buyer_decision_pending", "awaiting_payment"}
        /\ status'[o] = "cancelled_by_buyer_sla"
        /\ \A p \in OrderIds : p # o => status'[p] = status[p]
    BY <1>1, <1>3, CommandTable, Moves DEF Cancel
  <2>2. OthersStay(o)
    BY <1>1, <1>3, <2>1 DEF OthersStay, Cancel, CancelSettlement
  <2>3. Shape(o)'
    BY <1>1, <1>3, <2>1, CancelShape DEF Cancel, CancelSettlement, Forgone
  <2>4. KeepsRefunding(o)
    BY <2>1 DEF KeepsRefunding, Refunding
  <2>5. QED
    BY <2>2, <2>3, <2>4
<1>4. CASE SubmitPaymentReceipt(o)
  <2>1. /\ status[o] \in {"awaiting_payment"}
        /\ status'[o] = "payment_review"
        /\ \A p \in OrderIds : p # o => status'[p] = status[p]
    BY <1>1, <1>4, CommandTable, Moves DEF SubmitPaymentReceipt,
                                           RecordPaymentReceipt
  <2>2. OthersStay(o)
    BY <1>1, <1>4, <2>1 DEF OthersStay, SubmitPaymentReceipt,
                            RecordPaymentReceipt
  <2>3. Shape(o)'
    BY <1>1, <1>4, <2>1, ReceiptShape DEF SubmitPaymentReceipt,
                                          RecordPaymentReceipt
  <2>4. KeepsRefunding(o)
    BY <2>1 DEF KeepsRefunding, Refunding
  <2>5. QED
    BY <2>2, <2>3, <2>4
<1>5. CASE ConfirmPickup(o)
  <2>1. /\ status[o] \in {"ready", "paid"}
        /\ status'[o] = "closed"
        /\ \A p \in OrderIds : p # o => status'[p] = status[p]
    BY <1>1, <1>5, CommandTable, Moves DEF ConfirmPickup
  <2>2. OthersStay(o)
    BY <1>1, <1>5, <2>1 DEF OthersStay, ConfirmPickup, AccrueCommission
  <2>3. Shape(o)'
    BY <1>1, <1>5, <2>1, MoveOnlyShape DEF ConfirmPickup, AccrueCommission
  <2>4. KeepsRefunding(o)
    BY <2>1 DEF KeepsRefunding, Refunding
  <2>5. QED
    BY <2>2, <2>3, <2>4
<1>6. CASE ConfirmRefund(o)
  <2>1. /\ status[o] \in {"refund_requested", "refund_overdue"}
        /\ status'[o] = "refunded"
        /\ \A p \in OrderIds : p # o => status'[p] = status[p]
    BY <1>1, <1>6, CommandTable, Moves DEF ConfirmRefund, SettleRefund
  <2>2. OthersStay(o)
    BY <1>1, <1>6, <2>1 DEF OthersStay, ConfirmRefund, SettleRefund
  <2>3. Shape(o)'
    BY <1>1, <1>6, <2>1, RefundLandsShape DEF ConfirmRefund, SettleRefund
  <2>4. KeepsRefunding(o)
    BY <2>1 DEF KeepsRefunding, Refunding
  <2>5. QED
    BY <2>2, <2>3, <2>4
<1>7. CASE SupplierConfirm(o)
  <2>1. /\ status[o] \in {"created"}
        /\ status'[o] = "awaiting_payment"
        /\ \A p \in OrderIds : p # o => status'[p] = status[p]
    BY <1>1, <1>7, CommandTable, Moves DEF SupplierConfirm
  <2>2. OthersStay(o)
    BY <1>1, <1>7, <2>1 DEF OthersStay, SupplierConfirm, issueInvoice,
                            IssueDocument, SetOrderPaymentDue
  <2>3. Shape(o)'
    BY <1>1, <1>7, <2>1, ConfirmShape DEF SupplierConfirm, issueInvoice,
                                          IssueDocument, SetOrderPaymentDue
  <2>4. KeepsRefunding(o)
    BY <2>1 DEF KeepsRefunding, Refunding
  <2>5. QED
    BY <2>2, <2>3, <2>4
<1>8. CASE ConfirmToken(o)
  <2>1. /\ status[o] \in {"created"}
        /\ status'[o] = "awaiting_payment"
        /\ \A p \in OrderIds : p # o => status'[p] = status[p]
    BY <1>1, <1>8, CommandTable, Moves DEF ConfirmToken, ConsumeConfirmToken
  <2>2. OthersStay(o)
    BY <1>1, <1>8, <2>1 DEF OthersStay, ConfirmToken, ConsumeConfirmToken,
                            issueInvoice, IssueDocument, SetOrderPaymentDue
  <2>3. Shape(o)'
    BY <1>1, <1>8, <2>1, ConfirmShape DEF ConfirmToken, ConsumeConfirmToken,
                                          issueInvoice, IssueDocument,
                                          SetOrderPaymentDue
  <2>4. KeepsRefunding(o)
    BY <2>1 DEF KeepsRefunding, Refunding
  <2>5. QED
    BY <2>2, <2>3, <2>4
<1>9. CASE Decline(o)
  <2>1. /\ status[o] \in {"created"}
        /\ status'[o] = "buyer_decision_pending"
        /\ \A p \in OrderIds : p # o => status'[p] = status[p]
    BY <1>1, <1>9, CommandTable, Moves DEF Decline
  <2>2. OthersStay(o)
    BY <1>1, <1>9, <2>1 DEF OthersStay, Decline, billingVars
  <2>3. Shape(o)'
    BY <1>1, <1>9, <2>1, MoveOnlyShape DEF Decline, billingVars
  <2>4. KeepsRefunding(o)
    BY <2>1 DEF KeepsRefunding, Refunding
  <2>5. QED
    BY <2>2, <2>3, <2>4
<1>10. CASE ConfirmPayment(o)
  <2>1. /\ status[o] \in {"payment_review"}
        /\ status'[o] = "paid"
        /\ \A p \in OrderIds : p # o => status'[p] = status[p]
    BY <1>1, <1>10, CommandTable, Moves DEF ConfirmPayment, SettlePayment
  <2>2. OthersStay(o)
    BY <1>1, <1>10, <2>1 DEF OthersStay, ConfirmPayment, SettlePayment
  <2>3. Shape(o)'
    BY <1>1, <1>10, <2>1, VerdictShape DEF ConfirmPayment, SettlePayment
  <2>4. KeepsRefunding(o)
    BY <2>1 DEF KeepsRefunding, Refunding
  <2>5. QED
    BY <2>2, <2>3, <2>4
<1>11. CASE RejectPayment(o)
  <2>1. /\ status[o] \in {"payment_review"}
        /\ status'[o] = "awaiting_payment"
        /\ \A p \in OrderIds : p # o => status'[p] = status[p]
    BY <1>1, <1>11, CommandTable, Moves DEF RejectPayment, SettlePayment
  <2>2. OthersStay(o)
    BY <1>1, <1>11, <2>1 DEF OthersStay, RejectPayment, SettlePayment
  <2>3. Shape(o)'
    BY <1>1, <1>11, <2>1, VerdictShape DEF RejectPayment, SettlePayment
  <2>4. KeepsRefunding(o)
    BY <2>1 DEF KeepsRefunding, Refunding
  <2>5. QED
    BY <2>2, <2>3, <2>4
<1>12. CASE StartPreparing(o)
  <2>1. /\ status[o] \in {"paid"}
        /\ status'[o] = "preparing"
        /\ \A p \in OrderIds : p # o => status'[p] = status[p]
    BY <1>1, <1>12, CommandTable, Moves DEF StartPreparing
  <2>2. OthersStay(o)
    BY <1>1, <1>12, <2>1 DEF OthersStay, StartPreparing, billingVars
  <2>3. Shape(o)'
    BY <1>1, <1>12, <2>1, MoveOnlyShape DEF StartPreparing, billingVars
  <2>4. KeepsRefunding(o)
    BY <2>1 DEF KeepsRefunding, Refunding
  <2>5. QED
    BY <2>2, <2>3, <2>4
<1>13. CASE MarkReady(o)
  <2>1. /\ status[o] \in {"preparing"}
        /\ status'[o] = "ready"
        /\ \A p \in OrderIds : p # o => status'[p] = status[p]
    BY <1>1, <1>13, CommandTable, Moves DEF MarkReady
  <2>2. OthersStay(o)
    BY <1>1, <1>13, <2>1 DEF OthersStay, MarkReady, billingVars
  <2>3. Shape(o)'
    BY <1>1, <1>13, <2>1, MoveOnlyShape DEF MarkReady, billingVars
  <2>4. KeepsRefunding(o)
    BY <2>1 DEF KeepsRefunding, Refunding
  <2>5. QED
    BY <2>2, <2>3, <2>4
<1>14. CASE ConfirmDelivery(o)
  <2>1. /\ status[o] \in {"ready", "paid"}
        /\ status'[o] = "closed"
        /\ \A p \in OrderIds : p # o => status'[p] = status[p]
    BY <1>1, <1>14, CommandTable, Moves DEF ConfirmDelivery
  <2>2. OthersStay(o)
    BY <1>1, <1>14, <2>1 DEF OthersStay, ConfirmDelivery, AccrueCommission
  <2>3. Shape(o)'
    BY <1>1, <1>14, <2>1, MoveOnlyShape DEF ConfirmDelivery, AccrueCommission
  <2>4. KeepsRefunding(o)
    BY <2>1 DEF KeepsRefunding, Refunding
  <2>5. QED
    BY <2>2, <2>3, <2>4
<1>15. CASE SubmitRefundEvidence(o)
  <2>1. /\ UNCHANGED <<status, invoices, payments>>
        /\ Latest(refunds[o], {"requested"})
        /\ refunds' = [refunds EXCEPT ![o] =
              RestateLatest(refunds[o], "evidence_uploaded")]
    BY <1>15 DEF SubmitRefundEvidence, AttachRefundEvidence, orderVars
  <2>2. OthersStay(o) /\ Shape(o)'
    BY <1>1, <2>1, RestatedRefundShape DEF OthersStay
  <2>3. QED
    BY <2>1, <2>2 DEF KeepsRefunding
<1>16. CASE OperatorCancel(o)
  <2>1. /\ status[o] \in {"created", "buyer_decision_pending", "awaiting_payment",
                        "payment_review"}
        /\ status'[o] = "cancelled_by_operator"
        /\ \A p \in OrderIds : p # o => status'[p] = status[p]
    BY <1>1, <1>16, CommandTable, Moves DEF OperatorCancel
  <2>2. OthersStay(o)
    BY <1>1, <1>16, <2>1 DEF OthersStay, OperatorCancel, CancelSettlement
  <2>3. Shape(o)'
    BY <1>1, <1>16, <2>1, CancelShape
       DEF OperatorCancel, CancelSettlement, Forgone
  <2>4. KeepsRefunding(o)
    BY <2>1 DEF KeepsRefunding, Refunding
  <2>5. QED
    BY <2>2, <2>3, <2>4
<1>17. CASE RequestRefund(o)
  <2>1. /\ status[o] \in {"paid", "preparing", "ready"}
        /\ status'[o] = "refund_requested"
        /\ \A p \in OrderIds : p # o => status'[p] = status[p]
    BY <1>1, <1>17, CommandTable, Moves DEF RequestRefund, OpenRefund
  <2>2. OthersStay(o)
    BY <1>1, <1>17, <2>1 DEF OthersStay, RequestRefund, OpenRefund
  <2>3. Shape(o)'
    BY <1>1, <1>17, <2>1, RefundOpensShape DEF RequestRefund, OpenRefund
  <2>4. KeepsRefunding(o)
    BY <2>1 DEF KeepsRefunding, Refunding
  <2>5. QED
    BY <2>2, <2>3, <2>4
<1>18. QED
  BY <1>2, <1>3, <1>4, <1>5, <1>6, <1>7, <1>8, <1>9, <1>10, <1>11, <1>12,
     <1>13, <1>14, <1>15, <1>16, <1>17
     DEF BuyerStep, SellerStep, OperatorStep

\* What a step of a dispatcher's order pass does to the orders.
LEMMA OrderSweepShape ==
    ASSUME TypeInv, \A p \in OrderIds : Shape(p), NEW d \in Dispatchers,
           OrderSweepStep(d)
    PROVE  \/ UNCHANGED <<status, invoices, payments, refunds>>
           \/ \E o \in OrderIds : OthersStay(o) /\ Shape(o)' /\ KeepsRefunding(o)
<1>1. OrderTypes /\ BillingTypes /\ SweepTypes
  BY DEF TypeInv
<1>2. CASE \E o \in OrderIds : Escalate(d, o)
  BY <1>2 DEF Escalate, billingVars
<1>3. CASE Expire(d)
  <2>1. PICK o \in OrderIds : o = orderSweep[d].expiring
    BY <1>1, <1>3 DEF SweepTypes, OrderSweeps, Expire
  <2>2. /\ status[o] = "created"
        /\ status'[o] = "expired"
        /\ \A p \in OrderIds : p # o => status'[p] = status[p]
    BY <1>3, <2>1, CommandTable, Moves DEF Expire
  <2>3. UNCHANGED <<invoices, payments, refunds>>
    BY <1>3 DEF Expire, billingVars
  <2>4. Shape(o)'
    BY <2>2, <2>3, MoveOnlyShape
  <2>5. OthersStay(o) /\ KeepsRefunding(o)
    BY <2>2, <2>3 DEF OthersStay, KeepsRefunding, Refunding
  <2>6. QED
    BY <2>4, <2>5
<1>4. CASE \E o \in OrderIds : PaymentExpire(d, o)
  <2>1. PICK o \in OrderIds : PaymentExpire(d, o)
    BY <1>4
  <2>2. /\ status[o] = "awaiting_payment"
        /\ status'[o] = "expired"
        /\ \A p \in OrderIds : p # o => status'[p] = status[p]
    BY <2>1, CommandTable, Moves DEF PaymentExpire
  <2>3. CancelSettlement(o)
    BY <2>1 DEF PaymentExpire
  <2>4. Shape(o)'
    BY <2>2, <2>3, CancelShape DEF Forgone
  <2>5. OthersStay(o) /\ KeepsRefunding(o)
    BY <1>1, <2>2, <2>3
       DEF OthersStay, KeepsRefunding, Refunding, CancelSettlement,
           BillingTypes
  <2>6. QED
    BY <2>4, <2>5
<1>5. CASE \/ ListAwaitingConfirmation(d)
           \/ \E o \in OrderIds : EscalationFails(d, o)
           \/ ExpiryNotApplied(d)
           \/ ListPaymentOverdue(d)
           \/ \E o \in OrderIds : PaymentExpiryNotApplied(d, o)
           \/ EndOrderSweep(d)
  BY <1>5 DEF ListAwaitingConfirmation, EscalationFails, ExpiryNotApplied,
              ListPaymentOverdue, PaymentExpiryNotApplied, EndOrderSweep,
              orderVars, billingVars
<1>6. QED
  BY <1>2, <1>3, <1>4, <1>5 DEF OrderSweepStep

\* What a step of a dispatcher's refund pass does to the orders, and where it
\* leaves the pass.
LEMMA RefundSweepShape ==
    ASSUME TypeInv, BillingInv, NEW d \in Dispatchers,
           RefundSweepStep(d) \/ DispatcherRestarts(d)
    PROVE  /\ SweepShape(d)'
           /\ \A c \in Dispatchers : c # d => refundSweep'[c] = refundSweep[c]
           /\ \/ UNCHANGED <<status, invoices, payments, refunds>>
              \/ \E o \in OrderIds :
                    OthersStay(o) /\ Shape(o)' /\ KeepsRefunding(o)
<1>1. /\ OrderTypes /\ BillingTypes /\ SweepTypes
      /\ \A p \in OrderIds : Shape(p)
      /\ SweepShape(d)
  BY DEF TypeInv, BillingInv
<1> USE DEF RefundStep
<1>2. CASE ListRefundsDue(d)
  <2>1. PICK todo \in SUBSET OrderIds :
           /\ todo \subseteq RefundsDue
           /\ refundSweep' = [refundSweep EXCEPT ![d] =
                                 [todo |-> todo, marking |-> NoOrder]]
    BY <1>2 DEF ListRefundsDue, Page
  <2>2. UNCHANGED <<status, invoices, payments, refunds>>
    BY <1>2 DEF ListRefundsDue, orderVars, billingVars
  <2>3. \A o \in RefundsDue : status[o] \in Refunding
    BY <1>1 DEF RefundsDue, Some, Shape, RefundShape, BillingTypes
  <2>4. SweepShape(d)'
    BY <1>1, <2>1, <2>2, <2>3 DEF SweepShape, SweepTypes
  <2>5. QED
    BY <1>1, <2>1, <2>2, <2>4 DEF SweepTypes
<1>3. CASE \E o \in OrderIds : OrderOverdue(d, o)
  <2>1. PICK o \in OrderIds : OrderOverdue(d, o)
    BY <1>3
  <2>2. /\ status[o] = "refund_requested"
        /\ status'[o] = "refund_overdue"
        /\ \A p \in OrderIds : p # o => status'[p] = status[p]
    BY <2>1, CommandTable, Moves DEF OrderOverdue
  <2>3. /\ UNCHANGED <<invoices, payments, refunds>>
        /\ refundSweep' = [refundSweep EXCEPT ![d] =
              [todo |-> refundSweep[d].todo \ {o}, marking |-> o]]
    BY <2>1 DEF OrderOverdue, billingVars
  <2>4. Shape(o)'
    BY <1>1, <2>2, <2>3, MoveOnlyShape
  <2>5. OthersStay(o) /\ KeepsRefunding(o)
    BY <2>2, <2>3 DEF OthersStay, KeepsRefunding, Refunding
  <2>6. SweepShape(d)'
    BY <1>1, <2>2, <2>3 DEF SweepShape, SweepTypes
  <2>7. QED
    BY <1>1, <2>3, <2>4, <2>5, <2>6 DEF SweepTypes
<1>4. CASE \E o \in OrderIds : OrderAlreadyMoved(d, o)
  <2>1. PICK o \in OrderIds : OrderAlreadyMoved(d, o)
    BY <1>4
  <2>2. /\ UNCHANGED <<status, invoices, payments, refunds>>
        /\ refundSweep' = [refundSweep EXCEPT ![d] =
              [todo |-> refundSweep[d].todo \ {o}, marking |-> o]]
        /\ o \in refundSweep[d].todo
        /\ status[o] # "refund_requested"
    BY <2>1, CommandTable
       DEF OrderAlreadyMoved, orderVars, billingVars, Command
  <2>3. status[o] \in {"refund_overdue", "refunded"}
    BY <1>1, <2>2 DEF SweepShape, Refunding
  <2>4. SweepShape(d)'
    BY <1>1, <2>2, <2>3 DEF SweepShape, SweepTypes
  <2>5. QED
    BY <1>1, <2>2, <2>4 DEF SweepTypes
<1>5. CASE \E o \in OrderIds : OrderOverdueFails(d, o)
  <2>1. PICK o \in OrderIds : OrderOverdueFails(d, o)
    BY <1>5
  <2>2. /\ UNCHANGED <<status, invoices, payments, refunds>>
        /\ refundSweep' = [refundSweep EXCEPT ![d] =
              [refundSweep[d] EXCEPT !.todo = refundSweep[d].todo \ {o}]]
    BY <2>1 DEF OrderOverdueFails, orderVars, billingVars
  <2>3. SweepShape(d)'
    BY <1>1, <2>2 DEF SweepShape, SweepTypes
  <2>4. QED
    BY <1>1, <2>2, <2>3 DEF SweepTypes
<1>6. CASE MarkOverdue(d)
  <2>1. PICK o \in OrderIds :
           /\ o = refundSweep[d].marking
           /\ status[o] \in {"refund_overdue", "refunded"}
           /\ Latest(refunds[o], UndueRefunds)
    BY <1>1, <1>6 DEF SweepTypes, SweepShape, MarkOverdue, MarkRefundOverdue
  <2>2. /\ UNCHANGED <<status, invoices, payments>>
        /\ refunds' = [refunds EXCEPT ![o] =
              RestateLatest(refunds[o], "overdue")]
        /\ refundSweep' = [refundSweep EXCEPT ![d] =
              [refundSweep[d] EXCEPT !.marking = NoOrder]]
    BY <1>6, <2>1 DEF MarkOverdue, MarkRefundOverdue
  <2>3. Shape(o)'
    <3>1. refunds'[o] = RestateLatest(refunds[o], "overdue")
      BY <1>1, <2>1, <2>2 DEF BillingTypes
    <3>2. QED
      BY <1>1, <2>1, <2>2, <3>1, RestatedRefundShape
  <2>4. OthersStay(o) /\ KeepsRefunding(o)
    BY <1>1, <2>2 DEF OthersStay, KeepsRefunding, BillingTypes
  <2>5. SweepShape(d)'
    BY <1>1, <2>2 DEF SweepShape, SweepTypes
  <2>6. QED
    BY <1>1, <2>1, <2>2, <2>3, <2>4, <2>5 DEF SweepTypes
<1>7. CASE OverdueNotMarked(d)
  <2>1. /\ UNCHANGED <<status, invoices, payments, refunds>>
        /\ refundSweep' = [refundSweep EXCEPT ![d] =
              [refundSweep[d] EXCEPT !.marking = NoOrder]]
    BY <1>7 DEF OverdueNotMarked, orderVars, billingVars
  <2>2. QED
    BY <1>1, <2>1 DEF SweepShape, SweepTypes
<1>8. CASE DispatcherRestarts(d)
  <2>1. /\ UNCHANGED <<status, invoices, payments, refunds>>
        /\ refundSweep' = [refundSweep EXCEPT ![d] = IdleRefundSweep]
    BY <1>8 DEF DispatcherRestarts, orderVars, billingVars
  <2>2. QED
    BY <1>1, <2>1 DEF SweepShape, SweepTypes, IdleRefundSweep
<1>9. QED
  BY <1>2, <1>3, <1>4, <1>5, <1>6, <1>7, <1>8 DEF RefundSweepStep

\* A step that keeps the orders in shape and the refund pass where it was, or
\* brings it where SweepShape wants it, keeps BillingInv.
LEMMA KeepBillingInv ==
    ASSUME TypeInv, BillingInv,
           \/ UNCHANGED <<status, invoices, payments, refunds>>
           \/ \E o \in OrderIds : OthersStay(o) /\ Shape(o)' /\ KeepsRefunding(o),
           \A d \in Dispatchers : SweepShape(d)' \/ refundSweep'[d] = refundSweep[d]
    PROVE  BillingInv'
<1>1. \A p \in OrderIds : Shape(p)'
  <2>1. CASE UNCHANGED <<status, invoices, payments, refunds>>
    BY <2>1, ShapeFrame DEF BillingInv
  <2>2. CASE \E o \in OrderIds : OthersStay(o) /\ Shape(o)' /\ KeepsRefunding(o)
    BY <2>2, OneOrder DEF BillingInv
  <2>3. QED
    BY <2>1, <2>2
<1>2. \A p \in OrderIds : KeepsRefunding(p)
  BY DEF KeepsRefunding, OthersStay
<1>3. ASSUME NEW d \in Dispatchers, refundSweep'[d] = refundSweep[d]
      PROVE  SweepShape(d)'
  BY <1>2, <1>3 DEF SweepShape, BillingInv, TypeInv, SweepTypes, KeepsRefunding
<1>4. QED
  BY <1>1, <1>3 DEF BillingInv

LEMMA BillingInvInit == Init => BillingInv
<1> SUFFICES ASSUME Init PROVE BillingInv
  OBVIOUS
<1>1. ASSUME NEW o \in OrderIds PROVE Shape(o)
  <2>1. /\ status[o] = NotPlaced
        /\ Len(invoices[o]) = 0 /\ Len(payments[o]) = 0 /\ Len(refunds[o]) = 0
    BY DEF Init
  <2>2. QED
    BY <2>1, NotPlacedApart
       DEF Shape, InvoiceShape, PaymentShape, RefundShape, Resting, Unbilled, Billed,
           Refunding
<1>2. ASSUME NEW d \in Dispatchers PROVE SweepShape(d)
  BY DEF Init, SweepShape, IdleRefundSweep
<1>3. QED
  BY <1>1, <1>2 DEF BillingInv

LEMMA BillingInvStep == TypeInv /\ BillingInv /\ [Next]_vars => BillingInv'
<1> SUFFICES ASSUME TypeInv, BillingInv, [Next]_vars PROVE BillingInv'
  OBVIOUS
<1>1. ASSUME NEW o \in OrderIds,
             BuyerStep(o) \/ SellerStep(o) \/ OperatorStep(o)
      PROVE  BillingInv'
  <2>1. UNCHANGED refundSweep
    BY <1>1 DEF BuyerStep, Create, CreateOrder, CreateOrderItems,
                CreateConfirmToken, Cancel, SubmitPaymentReceipt,
                RecordPaymentReceipt, ConfirmPickup, ConfirmRefund,
                SettleRefund, SellerStep, SupplierConfirm, ConfirmToken,
                ConsumeConfirmToken, Decline, ConfirmPayment, SettlePayment,
                RejectPayment, StartPreparing, MarkReady, ConfirmDelivery,
                SubmitRefundEvidence, AttachRefundEvidence, OperatorStep,
                OperatorCancel, RequestRefund, OpenRefund, sweepVars
  <2>2. OthersStay(o) /\ Shape(o)' /\ KeepsRefunding(o)
    BY <1>1, CommandStepShape DEF BillingInv
  <2>3. QED
    BY <2>1, <2>2, KeepBillingInv
<1>2. CASE \/ \E o \in OrderIds : TimeStep(o)
           \/ \E f \in Offers, qty \in 0 .. MaxDeclared,
                 visibility \in {"published", "hidden"} :
                    UpdateOffer(f, qty, visibility)
           \/ SellerStatusChanges
           \/ UNCHANGED vars
  <2>1. UNCHANGED <<status, invoices, payments, refunds, refundSweep>>
    BY <1>2 DEF TimeStep, ConfirmationDeadlinePasses, PaymentDeadlinePasses,
                RefundDeadlinePasses, UpdateOffer, UpdateOfferValues,
                UpdateOfferStatus, SellerStatusChanges, vars, orderVars,
                billingVars, sweepVars
  <2>2. QED
    BY <2>1, KeepBillingInv
<1>3. ASSUME NEW d \in Dispatchers, OrderSweepStep(d)
      PROVE  BillingInv'
  <2>1. UNCHANGED refundSweep
    BY <1>3 DEF OrderSweepStep, ListAwaitingConfirmation, Escalate,
                EscalationFails, Expire, ExpiryNotApplied, ListPaymentOverdue,
                PaymentExpire, PaymentExpiryNotApplied, EndOrderSweep
  <2>2. \/ UNCHANGED <<status, invoices, payments, refunds>>
        \/ \E o \in OrderIds : OthersStay(o) /\ Shape(o)' /\ KeepsRefunding(o)
    BY <1>3, OrderSweepShape DEF BillingInv
  <2>3. QED
    BY <2>1, <2>2, KeepBillingInv
<1>4. ASSUME NEW d \in Dispatchers, RefundSweepStep(d) \/ DispatcherRestarts(d)
      PROVE  BillingInv'
  BY <1>4, RefundSweepShape, KeepBillingInv
<1>5. QED
  BY <1>1, <1>2, <1>3, <1>4 DEF Next

LEMMA BillingInvHolds == Spec => [](TypeInv /\ BillingInv)
<1>1. TypeInv /\ BillingInv /\ [Next]_vars => TypeInv' /\ BillingInv'
  BY TypeInvStep, BillingInvStep
<1>2. QED
  BY TypeInvInit, BillingInvInit, <1>1, PTL DEF Spec

-----------------------------------------------------------------------------
(* What follows. *)

\* The document of an order follows the order: payable while it waits for money,
\* paid while the seller holds it, refunded when it went back. (settle.)
THEOREM InvoicesFollowOrders == Spec => []InvoiceFollowsOrder
<1>1. ASSUME TypeInv, BillingInv, NEW o \in OrderIds
      PROVE  /\ status[o] \in {"awaiting_payment", "payment_review"}
                   <=> One(invoices[o], "issued")
             /\ status[o] \in PaidFor <=> One(invoices[o], "paid")
             /\ status[o] = "refunded" <=> One(invoices[o], "refunded")
             /\ AtMostOne(invoices[o], {"issued", "paid"})
  <2>1. /\ invoices[o] \in Seq(InvoiceStatuses)
        /\ status[o] \in Resting
        /\ InvoiceShape(o)
    BY <1>1 DEF TypeInv, BillingTypes, BillingInv, Shape
  <2>2. CASE status[o] \in Unbilled \cup Forgone
    BY <2>1, <2>2, NotPlacedApart
       DEF InvoiceShape, One, AtMostOne, Some, Unbilled, Billed, PaidFor,
           Forgone, Refunding
  <2>3. CASE status[o] \in Billed \cup PaidFor \cup {"refunded"}
    BY <2>1, <2>3 DEF InvoiceShape, One, AtMostOne, Some, Billed, PaidFor
  <2>4. QED
    BY <2>1, <2>2, <2>3 DEF Resting
<1>2. TypeInv /\ BillingInv => InvoiceFollowsOrder
  BY <1>1 DEF InvoiceFollowsOrder
<1>3. QED
  BY <1>2, BillingInvHolds, PTL

\* An order has one applied payment exactly while the seller holds the money, an
\* undecided one exactly while it is under review, and never two live ones.
\* (RecordPaymentReceipt, SettlePayment, CancelSettlement, CompleteRefund.)
THEOREM PaymentsFollowOrders == Spec => []PaymentFollowsOrder
<1>1. ASSUME TypeInv, BillingInv, NEW o \in OrderIds
      PROVE  /\ status[o] \in PaidFor <=> One(payments[o], "paid")
             /\ status[o] = "payment_review" <=> One(payments[o], "created")
             /\ status[o] = "refunded" <=> One(payments[o], "reversed")
             /\ AtMostOne(payments[o], LivePayments)
  <2>1. /\ payments[o] \in Seq(PaymentStatuses)
        /\ status[o] \in Resting
        /\ PaymentShape(o)
    BY <1>1 DEF TypeInv, BillingTypes, BillingInv, Shape
  <2>2. CASE status[o] \in Unbilled \cup Forgone \cup {"awaiting_payment"}
    BY <2>1, <2>2, NotPlacedApart
       DEF PaymentShape, One, AtMostOne, Some, LivePayments, Unbilled, Billed,
           PaidFor, Forgone, Refunding
  <2>3. CASE status[o] \in PaidFor \cup {"payment_review", "refunded"}
    BY <2>1, <2>3
       DEF PaymentShape, LastPayment, One, AtMostOne, Some, LivePayments,
           PaidFor
  <2>4. QED
    BY <2>1, <2>2, <2>3 DEF Resting, Billed
<1>2. TypeInv /\ BillingInv => PaymentFollowsOrder
  BY <1>1 DEF PaymentFollowsOrder
<1>3. QED
  BY <1>2, BillingInvHolds, PTL

\* Whatever the sweepers and the users do between the two transactions of a
\* late refund, the refund is never ahead of its order and both end together.
\* (Module.RefundOverdue, RefundSweeper.markOverdue, CompleteRefund.)
THEOREM RefundsFollowOrders == Spec => []RefundFollowsOrder
<1>1. ASSUME TypeInv, BillingInv, NEW o \in OrderIds
      PROVE  /\ status[o] = "refund_requested" => Some(refunds[o], UndueRefunds)
             /\ status[o] = "refund_overdue" => Some(refunds[o], OpenRefunds)
             /\ Some(refunds[o], {"overdue"}) => status[o] = "refund_overdue"
             /\ Some(refunds[o], {"refunded"}) <=> status[o] = "refunded"
             /\ Some(refunds[o], OpenRefunds) =>
                   status[o] \in {"refund_requested", "refund_overdue"}
  <2>1. RefundShape(o)
    BY <1>1 DEF BillingInv, Shape
  <2>2. CASE status[o] \notin Refunding
    BY <2>1, <2>2 DEF RefundShape, Some, Refunding
  <2>3. CASE status[o] \in Refunding
    BY <2>1, <2>3 DEF RefundShape, Some, Refunding, UndueRefunds, OpenRefunds
  <2>4. QED
    BY <2>2, <2>3
<1>2. TypeInv /\ BillingInv => RefundFollowsOrder
  BY <1>1 DEF RefundFollowsOrder
<1>3. QED
  BY <1>2, BillingInvHolds, PTL

-----------------------------------------------------------------------------
(* The kinds of steps a store takes, as far as its orders, their events and  *)
(* their rows are concerned.                                                 *)

\* A command that goes through: the order moves along its row of the table and
\* the settlement port does its part of the transaction.
Settled(o, t) ==
    /\ runTransition(o, t)
    /\ t \in Beginning
    /\ t \in {"supplier_confirm", "token_confirm"} => IssueDocument(o)
    /\ t \in {"buyer_cancel", "operator_cancel", "payment_expire"} =>
          CancelSettlement(o)
    /\ t = "submit_receipt" => RecordPaymentReceipt(o)
    /\ t = "confirm_payment" => SettlePayment(o, "paid")
    /\ t = "reject_payment" => SettlePayment(o, "failed")
    /\ t \in {"confirm_pickup", "confirm_delivery"} => AccrueCommission(o)
    /\ t = "refund_request" => OpenRefund(o)
    /\ t = "confirm_refund" => SettleRefund(o)
    /\ t \in {"supplier_decline", "start_preparing", "mark_ready", "expire",
              "refund_overdue"} => UNCHANGED billingVars
    /\ UNCHANGED escalated

\* No reservation is made, given back or consumed.
ReservedStays == \A f \in Offers : offers'[f].reserved = offers[f].reserved

Quiet ==
    /\ UNCHANGED <<status, basket, outbox, escalated, billingVars>>
    /\ ReservedStays

StepKind ==
    \/ Quiet
    \/ \E o \in OrderIds, b \in Baskets : Create(o, b)
    \/ \E o \in OrderIds, t \in Beginning : Settled(o, t)
    \/ \E d \in Dispatchers, o \in OrderIds : Escalate(d, o)
    \/ \E d \in Dispatchers : MarkOverdue(d)
    \/ \E o \in OrderIds : SubmitRefundEvidence(o)

LEMMA CommandStepKind ==
    ASSUME NEW o \in OrderIds, BuyerStep(o) \/ SellerStep(o) \/ OperatorStep(o)
    PROVE  StepKind
<1> USE DEF Beginning
<1>1. CASE \E b \in Baskets : Create(o, b)
  BY <1>1 DEF StepKind
<1>2. CASE Cancel(o)
  BY <1>2 DEF StepKind, Settled, Cancel
<1>3. CASE SubmitPaymentReceipt(o)
  BY <1>3 DEF StepKind, Settled, SubmitPaymentReceipt
<1>4. CASE ConfirmPickup(o)
  BY <1>4 DEF StepKind, Settled, ConfirmPickup
<1>5. CASE ConfirmRefund(o)
  BY <1>5 DEF StepKind, Settled, ConfirmRefund
<1>6. CASE SupplierConfirm(o)
  BY <1>6 DEF StepKind, Settled, SupplierConfirm, issueInvoice
<1>7. CASE ConfirmToken(o)
  BY <1>7 DEF StepKind, Settled, ConfirmToken, issueInvoice
<1>8. CASE Decline(o)
  BY <1>8 DEF StepKind, Settled, Decline
<1>9. CASE ConfirmPayment(o)
  BY <1>9 DEF StepKind, Settled, ConfirmPayment
<1>10. CASE RejectPayment(o)
  BY <1>10 DEF StepKind, Settled, RejectPayment
<1>11. CASE StartPreparing(o)
  BY <1>11 DEF StepKind, Settled, StartPreparing
<1>12. CASE MarkReady(o)
  BY <1>12 DEF StepKind, Settled, MarkReady
<1>13. CASE ConfirmDelivery(o)
  BY <1>13 DEF StepKind, Settled, ConfirmDelivery
<1>14. CASE SubmitRefundEvidence(o)
  BY <1>14 DEF StepKind
<1>15. CASE OperatorCancel(o)
  BY <1>15 DEF StepKind, Settled, OperatorCancel
<1>16. CASE RequestRefund(o)
  BY <1>16 DEF StepKind, Settled, RequestRefund
<1> QED
  BY <1>1, <1>2, <1>3, <1>4, <1>5, <1>6, <1>7, <1>8, <1>9, <1>10, <1>11, <1>12,
     <1>13, <1>14, <1>15, <1>16 DEF BuyerStep, SellerStep, OperatorStep

LEMMA SweepStepKind ==
    ASSUME TypeInv, NEW d \in Dispatchers,
           OrderSweepStep(d) \/ RefundSweepStep(d) \/ DispatcherRestarts(d)
    PROVE  StepKind
<1>1. CASE Expire(d)
  <2>1. orderSweep[d].expiring \in OrderIds
    BY <1>1 DEF TypeInv, SweepTypes, OrderSweeps, Expire
  <2>2. Settled(orderSweep[d].expiring, "expire")
    BY <1>1 DEF Settled, Expire, Beginning
  <2> QED
    BY <2>1, <2>2 DEF StepKind, Beginning
<1>2. CASE \E o \in OrderIds : PaymentExpire(d, o)
  BY <1>2 DEF StepKind, Settled, PaymentExpire, Beginning
<1>3. CASE \E o \in OrderIds : OrderOverdue(d, o)
  BY <1>3 DEF StepKind, Settled, OrderOverdue, Beginning
<1>4. CASE MarkOverdue(d) \/ \E o \in OrderIds : Escalate(d, o)
  BY <1>4 DEF StepKind
<1>5. CASE \/ ListAwaitingConfirmation(d) \/ ListPaymentOverdue(d)
           \/ ListRefundsDue(d) \/ ExpiryNotApplied(d) \/ EndOrderSweep(d)
           \/ OverdueNotMarked(d) \/ DispatcherRestarts(d)
  BY <1>5 DEF StepKind, Quiet, ListAwaitingConfirmation, ListPaymentOverdue,
              ListRefundsDue, ExpiryNotApplied, EndOrderSweep,
              OverdueNotMarked, DispatcherRestarts, orderVars, saleVars,
              ReservedStays
<1>6. CASE \E o \in OrderIds :
              \/ EscalationFails(d, o) \/ PaymentExpiryNotApplied(d, o)
              \/ OrderAlreadyMoved(d, o) \/ OrderOverdueFails(d, o)
  BY <1>6 DEF StepKind, Quiet, EscalationFails, PaymentExpiryNotApplied,
              OrderAlreadyMoved, OrderOverdueFails, orderVars, saleVars,
              ReservedStays
<1> QED
  BY <1>1, <1>2, <1>3, <1>4, <1>5, <1>6 DEF OrderSweepStep, RefundSweepStep

LEMMA StepKinds ==
    ASSUME TypeInv, [Next]_vars
    PROVE  StepKind
<1>1. CASE \E o \in OrderIds : BuyerStep(o) \/ SellerStep(o) \/ OperatorStep(o)
  BY <1>1, CommandStepKind
<1>2. CASE \E o \in OrderIds : TimeStep(o)
  BY <1>2 DEF StepKind, Quiet, TimeStep, ConfirmationDeadlinePasses,
              PaymentDeadlinePasses, RefundDeadlinePasses, orderVars, saleVars,
              ReservedStays
<1>3. CASE \E f \in Offers, qty \in 0 .. MaxDeclared,
              visibility \in {"published", "hidden"} :
                 UpdateOffer(f, qty, visibility)
  <2>1. ReservedStays
    BY <1>3 DEF UpdateOffer, UpdateOfferStatus, UpdateOfferValues, ReservedStays,
                TypeInv, OrderTypes, SoundStock, OfferRows
  <2> QED
    BY <1>3, <2>1 DEF StepKind, Quiet, UpdateOffer, orderVars
<1>4. CASE SellerStatusChanges \/ UNCHANGED vars
  BY <1>4 DEF StepKind, Quiet, SellerStatusChanges, vars, orderVars, saleVars,
              ReservedStays
<1>5. CASE \E d \in Dispatchers :
              OrderSweepStep(d) \/ RefundSweepStep(d) \/ DispatcherRestarts(d)
  BY <1>5, SweepStepKind
<1> QED
  BY <1>1, <1>2, <1>3, <1>4, <1>5 DEF Next

-----------------------------------------------------------------------------
(* What no step undoes. *)

\* Where a command may begin, the order has not ended.
LEMMA EndedIsClosedToCommands ==
    ASSUME NEW t \in Beginning, NEW s, ChainPermitted(t, s)
    PROVE  s \notin Ended /\ s \in Statuses
<1>1. s \in transitionTable[t].from
  BY DEF ChainPermitted, Permits
<1> QED
  BY <1>1 DEF Beginning, transitionTable, Transition, Edge, Chained, Releasing,
              Consuming, Ended, Statuses

\* An ended order stays ended, under any sweepers, commands and tokens.
\* (Transition.Permits; Repository.transition reads the status under its lock.)
THEOREM EndedStaysEnded == Spec => EndedIsFinal
<1>1. ASSUME TypeInv, [Next]_vars, NEW o \in OrderIds, status[o] \in Ended
      PROVE  status'[o] = status[o]
  <2>1. CASE \E p \in OrderIds, b \in Baskets : Create(p, b)
    <3>1. NotPlaced \notin Ended
      BY NotPlacedAssumption DEF Ended, Statuses
    <3> QED
      BY <1>1, <2>1, <3>1 DEF Create, CreateOrder, TypeInv, OrderTypes
  <2>2. CASE \E p \in OrderIds, t \in Beginning : Settled(p, t)
    BY <1>1, <2>2, EndedIsClosedToCommands
       DEF Settled, runTransition, TransitionOrder, TypeInv, OrderTypes
  <2>3. CASE UNCHANGED status
    BY <2>3
  <2> QED
    BY <1>1, <2>1, <2>2, <2>3, StepKinds
       DEF StepKind, Quiet, Escalate, MarkOverdue, SubmitRefundEvidence, orderVars
<1>2. TypeInv /\ [Next]_vars =>
         [\A o \in OrderIds : status[o] \in Ended => status'[o] = status[o]]_vars
  BY <1>1
<1> QED
  BY <1>2, TypeInvHolds, PTL DEF Spec, EndedIsFinal

\* What a step may do to the documents and the payments of an order.
LEMMA RowSteps ==
    ASSUME TypeInv, [Next]_vars, NEW o \in OrderIds
    PROVE  /\ invoices'[o] \in {invoices[o], IssueInvoice(invoices[o]),
                                MarkInvoicePaid(invoices[o]),
                                MarkInvoiceRefunded(invoices[o]),
                                VoidCurrentInvoice(invoices[o])}
           /\ payments'[o] \in {payments[o], CreateManualPayment(payments[o]),
                                SettleManualPayment(payments[o], "paid"),
                                SettleManualPayment(payments[o], "failed"),
                                FailLivePayment(payments[o]),
                                ReversePaidPayment(payments[o])}
<1>1. CASE \E p \in OrderIds, t \in Beginning : Settled(p, t)
  <2>1. PICK p \in OrderIds, t \in Beginning : Settled(p, t)
    BY <1>1
  <2>2. \/ IssueDocument(p) \/ CancelSettlement(p) \/ RecordPaymentReceipt(p)
        \/ SettlePayment(p, "paid") \/ SettlePayment(p, "failed")
        \/ AccrueCommission(p) \/ OpenRefund(p) \/ SettleRefund(p)
        \/ UNCHANGED billingVars
    BY <2>1 DEF Settled, Beginning
  <2>3. CASE IssueDocument(p)
    BY <2>3 DEF IssueDocument, TypeInv, BillingTypes
  <2>4. CASE CancelSettlement(p)
    BY <2>4 DEF CancelSettlement, TypeInv, BillingTypes
  <2>5. CASE RecordPaymentReceipt(p)
    BY <2>5 DEF RecordPaymentReceipt, TypeInv, BillingTypes
  <2>6. CASE SettlePayment(p, "paid") \/ SettlePayment(p, "failed")
    BY <2>6 DEF SettlePayment, TypeInv, BillingTypes
  <2>7. CASE SettleRefund(p)
    BY <2>7 DEF SettleRefund, TypeInv, BillingTypes
  <2>8. CASE AccrueCommission(p) \/ OpenRefund(p) \/ UNCHANGED billingVars
    BY <2>8 DEF AccrueCommission, OpenRefund, billingVars
  <2> QED
    BY <2>2, <2>3, <2>4, <2>5, <2>6, <2>7, <2>8
<1>2. CASE UNCHANGED <<invoices, payments>>
  BY <1>2
<1> QED
  BY <1>1, <1>2, StepKinds
     DEF StepKind, Quiet, Create, Escalate, MarkOverdue, SubmitRefundEvidence,
         billingVars

\* A settled row keeps its verdict in every store: a paid document or payment
\* only ever goes back by refund, a voided, refunded, failed or reversed one
\* never moves again. (MarkInvoicePaid, VoidCurrentInvoice,
\* SettleManualPayment, FailLivePayment, ReversePaidPayment.)
THEOREM MoneyStaysRemembered == Spec => MoneyIsNotForgotten
<1> DEFINE Kept(o) ==
      /\ \A i \in 1 .. Len(invoices[o]) :
            /\ invoices[o][i] = "paid" => invoices'[o][i] \in {"paid", "refunded"}
            /\ invoices[o][i] \in {"voided", "refunded"} =>
                  invoices'[o][i] = invoices[o][i]
      /\ \A i \in 1 .. Len(payments[o]) :
            /\ payments[o][i] = "paid" => payments'[o][i] \in {"paid", "reversed"}
            /\ payments[o][i] \in {"failed", "reversed"} =>
                  payments'[o][i] = payments[o][i]
<1>1. ASSUME TypeInv, [Next]_vars, NEW o \in OrderIds
      PROVE  Kept(o)
  <2>1. PICK inv \in Seq(InvoiceStatuses), pay \in Seq(PaymentStatuses) :
           inv = invoices[o] /\ pay = payments[o]
    BY <1>1 DEF TypeInv, BillingTypes
  <2>2. ASSUME NEW i \in 1 .. Len(inv)
        PROVE  /\ inv[i] = "paid" => invoices'[o][i] \in {"paid", "refunded"}
               /\ inv[i] \in {"voided", "refunded"} => invoices'[o][i] = inv[i]
    <3>1. invoices'[o] \in {inv, Append(inv, "issued"),
                            Restate(inv, {"issued"}, "paid"),
                            Restate(inv, {"paid"}, "refunded"),
                            Restate(inv, {"issued"}, "voided")}
      BY <1>1, <2>1, RowSteps DEF IssueInvoice, MarkInvoicePaid,
                                  MarkInvoiceRefunded, VoidCurrentInvoice
    <3>2. Append(inv, "issued")[i] = inv[i]
      OBVIOUS
    <3>3. /\ Restate(inv, {"issued"}, "paid")[i] =
                IF inv[i] = "issued" THEN "paid" ELSE inv[i]
          /\ Restate(inv, {"paid"}, "refunded")[i] =
                IF inv[i] = "paid" THEN "refunded" ELSE inv[i]
          /\ Restate(inv, {"issued"}, "voided")[i] =
                IF inv[i] = "issued" THEN "voided" ELSE inv[i]
      BY DEF Restate
    <3> QED
      BY <3>1, <3>2, <3>3
  <2>3. ASSUME NEW i \in 1 .. Len(pay)
        PROVE  /\ pay[i] = "paid" => payments'[o][i] \in {"paid", "reversed"}
               /\ pay[i] \in {"failed", "reversed"} => payments'[o][i] = pay[i]
    <3>1. payments'[o] \in {pay, Append(pay, "created"),
                            Restate(pay, {"created"}, "paid"),
                            Restate(pay, {"created"}, "failed"),
                            Restate(pay, {"paid"}, "reversed")}
      BY <1>1, <2>1, RowSteps DEF CreateManualPayment, SettleManualPayment,
                                  FailLivePayment, ReversePaidPayment
    <3>2. Append(pay, "created")[i] = pay[i]
      OBVIOUS
    <3>3. /\ Restate(pay, {"created"}, "paid")[i] =
                IF pay[i] = "created" THEN "paid" ELSE pay[i]
          /\ Restate(pay, {"created"}, "failed")[i] =
                IF pay[i] = "created" THEN "failed" ELSE pay[i]
          /\ Restate(pay, {"paid"}, "reversed")[i] =
                IF pay[i] = "paid" THEN "reversed" ELSE pay[i]
      BY DEF Restate
    <3> QED
      BY <3>1, <3>2, <3>3
  <2> QED
    BY <2>1, <2>2, <2>3
<1>2. TypeInv /\ [Next]_vars => [\A o \in OrderIds : Kept(o)]_vars
  BY <1>1
<1> QED
  BY <1>2, TypeInvHolds, PTL DEF Spec, MoneyIsNotForgotten

-----------------------------------------------------------------------------
(* The ledger. *)

\* A step either enters the order it closes, or leaves the ledger and the
\* closed orders alone.
LEMMA LedgerSteps ==
    ASSUME TypeInv, [Next]_vars
    PROVE  \/ /\ UNCHANGED ledger
              /\ \A p \in OrderIds : status'[p] = "closed" <=> status[p] = "closed"
           \/ \E o \in OrderIds :
                 /\ AccrueCommission(o)
                 /\ status'[o] = "closed"
                 /\ \A p \in OrderIds : p # o => status'[p] = status[p]
<1> USE DEF TypeInv, OrderTypes, BillingTypes
<1>1. CASE \E o \in OrderIds, t \in Beginning : Settled(o, t)
  <2>1. PICK o \in OrderIds, t \in Beginning : Settled(o, t)
    BY <1>1
  <2>2. /\ status' = [status EXCEPT ![o] = Destination(t)]
        /\ status[o] # "closed"
    BY <2>1, EndedIsClosedToCommands
       DEF Settled, runTransition, TransitionOrder, Ended
  <2>3. CASE t \in {"confirm_pickup", "confirm_delivery"}
    <3>1. Destination(t) = "closed"
      BY <2>3, CommandTable DEF Command
    <3>2. AccrueCommission(o)
      BY <2>1, <2>3 DEF Settled
    <3> QED
      BY <2>2, <3>1, <3>2
  <2>4. CASE t \notin {"confirm_pickup", "confirm_delivery"}
    <3>1. Destination(t) # "closed"
      BY <2>4, CommandTable DEF Command, Beginning
    <3>2. UNCHANGED ledger
      BY <2>1, <2>4 DEF Settled, Beginning, IssueDocument, CancelSettlement,
                        RecordPaymentReceipt, SettlePayment, OpenRefund,
                        SettleRefund, billingVars
    <3> QED
      BY <2>2, <3>1, <3>2
  <2> QED
    BY <2>3, <2>4
<1>2. CASE \E o \in OrderIds, b \in Baskets : Create(o, b)
  <2>1. NotPlaced # "closed"
    BY NotPlacedAssumption DEF Statuses
  <2> QED
    BY <1>2, <2>1 DEF Create, CreateOrder, billingVars
<1>3. CASE UNCHANGED <<status, ledger>>
  BY <1>3
<1> QED
  BY <1>1, <1>2, <1>3, StepKinds
     DEF StepKind, Quiet, Escalate, MarkOverdue, SubmitRefundEvidence,
         orderVars, billingVars

LEMMA AccrualBillsOnce ==
    ASSUME TypeInv, ClosedIsBilledOnce, NEW o \in OrderIds,
           AccrueCommission(o), status'[o] = "closed",
           \A p \in OrderIds : p # o => status'[p] = status[p]
    PROVE  ClosedIsBilledOnce'
<1> DEFINE row == [order |-> o, free |-> Len(ledger) + 1 <= FoundingFree]
<1>1. row.order = o /\ ledger' = Append(ledger, row)
  BY DEF AccrueCommission
<1> HIDE DEF row
<1>2. ledger \in Seq([order : OrderIds, free : BOOLEAN])
  BY DEF TypeInv, BillingTypes
<1>3. /\ Len(ledger) \in Nat
      /\ Len(ledger') = Len(ledger) + 1
      /\ ledger'[Len(ledger) + 1] = row
      /\ \A i \in 1 .. Len(ledger) : ledger'[i] = ledger[i]
  BY <1>1, <1>2
<1>4. \A i \in 1 .. Len(ledger) : ledger[i].order # o
  BY DEF AccrueCommission
<1>5. ASSUME NEW p \in OrderIds
      PROVE  status'[p] = "closed"
                <=> \E i \in 1 .. Len(ledger') : ledger'[i].order = p
  <2>1. CASE p = o
    BY <1>1, <1>3, <2>1
  <2>2. CASE p # o
    BY <1>1, <1>3, <2>2 DEF ClosedIsBilledOnce
  <2> QED
    BY <2>1, <2>2
<1>6. ASSUME NEW i \in 1 .. Len(ledger'), NEW j \in 1 .. Len(ledger'),
             ledger'[i].order = ledger'[j].order
      PROVE  i = j
  <2>1. CASE i \in 1 .. Len(ledger) /\ j \in 1 .. Len(ledger)
    BY <1>3, <1>6, <2>1 DEF ClosedIsBilledOnce
  <2>2. CASE i = Len(ledger) + 1 \/ j = Len(ledger) + 1
    BY <1>1, <1>3, <1>4, <1>6, <2>2
  <2> QED
    BY <1>3, <2>1, <2>2
<1> QED
  BY <1>5, <1>6 DEF ClosedIsBilledOnce

\* Exactly the closed orders are in the ledger, once each, in every store.
\* (accrueCommission, InsertCommissionLedger and its unique order_id.)
THEOREM ClosedOrdersBilledOnce == Spec => []ClosedIsBilledOnce
<1>1. Init => ClosedIsBilledOnce
  <2>1. NotPlaced # "closed"
    BY NotPlacedAssumption DEF Statuses
  <2> QED
    BY <2>1 DEF Init, ClosedIsBilledOnce
<1>2. TypeInv /\ ClosedIsBilledOnce /\ [Next]_vars => ClosedIsBilledOnce'
  <2> SUFFICES ASSUME TypeInv, ClosedIsBilledOnce, [Next]_vars
               PROVE  ClosedIsBilledOnce'
    OBVIOUS
  <2>1. CASE /\ UNCHANGED ledger
             /\ \A p \in OrderIds : status'[p] = "closed" <=> status[p] = "closed"
    BY <2>1 DEF ClosedIsBilledOnce
  <2> QED
    BY <2>1, LedgerSteps, AccrualBillsOnce
<1> QED
  BY <1>1, <1>2, TypeInvHolds, PTL DEF Spec

-----------------------------------------------------------------------------
(* The events of an order. *)

LEMMA TwoEvents ==
    ASSUME NEW a \in Events, NEW b \in Events
    PROVE  <<a>> \o <<b>> = <<a, b>>
<1>1. <<a>> \in Seq(Events)
  OBVIOUS
<1>2. <<a>> \o <<b>> = Append(<<a>>, b)
  BY <1>1, AppendIsConcat
<1>3. /\ Append(<<a>>, b) \in Seq(Events) /\ Len(Append(<<a>>, b)) = 2
      /\ Append(<<a>>, b)[1] = a /\ Append(<<a>>, b)[2] = b
  BY <1>1
<1>4. /\ <<a, b>> \in Seq(Events) /\ Len(<<a, b>>) = 2
      /\ <<a, b>>[1] = a /\ <<a, b>>[2] = b
  OBVIOUS
<1>5. \A i \in 1 .. 2 : Append(<<a>>, b)[i] = <<a, b>>[i]
  BY <1>3, <1>4
<1> QED
  BY <1>2, <1>3, <1>4, <1>5, SeqEqual

\* What each command queues.
LEMMA EventTable ==
    /\ EventsOf("supplier_confirm") = <<"order.accepted", "order.awaiting_payment">>
    /\ EventsOf("token_confirm") = <<"order.accepted", "order.awaiting_payment">>
    /\ EventsOf("supplier_decline") = <<"order.declined">>
    /\ EventsOf("buyer_cancel") = <<"order.cancelled">>
    /\ EventsOf("operator_cancel") = <<"order.cancelled">>
    /\ EventsOf("submit_receipt") = <<"payment.review_started">>
    /\ EventsOf("confirm_payment") = <<"order.paid">>
    /\ EventsOf("reject_payment") = <<"order.awaiting_payment">>
    /\ EventsOf("start_preparing") = <<"order.preparing">>
    /\ EventsOf("mark_ready") = <<"order.ready">>
    /\ EventsOf("confirm_pickup") = <<"order.pickup_confirmed", "order.closed">>
    /\ EventsOf("confirm_delivery") = <<"order.delivered", "order.closed">>
    /\ EventsOf("expire") = <<"order.expired">>
    /\ EventsOf("payment_expire") = <<"order.expired">>
    /\ EventsOf("refund_request") = <<"refund.requested">>
    /\ EventsOf("refund_overdue") = << >>
    /\ EventsOf("confirm_refund") = <<"order.refunded">>
<1> USE DEF EventsOf, HasFollow, Follow, transitionTable, Transition, Edge,
        Chained, Releasing, Consuming, NoTrigger, NoEvent
<1>1. EventsOf("supplier_confirm") = <<"order.accepted", "order.awaiting_payment">>
  BY TwoEvents DEF Events
<1>2. EventsOf("token_confirm") = <<"order.accepted", "order.awaiting_payment">>
  BY TwoEvents DEF Events
<1>3. EventsOf("supplier_decline") = <<"order.declined">>
  OBVIOUS
<1>4. EventsOf("buyer_cancel") = <<"order.cancelled">>
  OBVIOUS
<1>5. EventsOf("operator_cancel") = <<"order.cancelled">>
  OBVIOUS
<1>6. EventsOf("submit_receipt") = <<"payment.review_started">>
  OBVIOUS
<1>7. EventsOf("confirm_payment") = <<"order.paid">>
  OBVIOUS
<1>8. EventsOf("reject_payment") = <<"order.awaiting_payment">>
  OBVIOUS
<1>9. EventsOf("start_preparing") = <<"order.preparing">>
  OBVIOUS
<1>10. EventsOf("mark_ready") = <<"order.ready">>
  OBVIOUS
<1>11. EventsOf("confirm_pickup") = <<"order.pickup_confirmed", "order.closed">>
  BY TwoEvents DEF Events
<1>12. EventsOf("confirm_delivery") = <<"order.delivered", "order.closed">>
  BY TwoEvents DEF Events
<1>13. EventsOf("expire") = <<"order.expired">>
  OBVIOUS
<1>14. EventsOf("payment_expire") = <<"order.expired">>
  OBVIOUS
<1>15. EventsOf("refund_request") = <<"refund.requested">>
  OBVIOUS
<1>16. EventsOf("refund_overdue") = << >>
  OBVIOUS
<1>17. EventsOf("confirm_refund") = <<"order.refunded">>
  OBVIOUS
<1> HIDE DEF EventsOf
<1> QED
  BY <1>1, <1>2, <1>3, <1>4, <1>5, <1>6, <1>7, <1>8, <1>9, <1>10, <1>11,
     <1>12, <1>13, <1>14, <1>15, <1>16, <1>17

\* A command queues neither an escalation nor the lateness of a refund: those
\* are the sweepers' own.
CommandEvents == Events \ {"order.sla_escalated", "refund.became_overdue"}

\* A command queues nothing, or one or two events.
LEMMA CommandQueues ==
    ASSUME NEW t \in Beginning
    PROVE  \/ EventsOf(t) = << >>
           \/ \E e \in CommandEvents : EventsOf(t) = <<e>>
           \/ \E e, f \in CommandEvents : EventsOf(t) = <<e, f>>
BY EventTable DEF Beginning, Events, CommandEvents

\* Every event of a list is among those.
Among(events, s) == \A i \in 1 .. Len(s) : s[i] \in events

LEMMA CommandQueuesItsOwn ==
    ASSUME NEW t \in Beginning
    PROVE  Among(CommandEvents, EventsOf(t))
<1>1. CASE EventsOf(t) = << >>
  BY <1>1 DEF Among
<1>2. CASE \E e \in CommandEvents : EventsOf(t) = <<e>>
  BY <1>2 DEF Among
<1>3. CASE \E e, f \in CommandEvents : EventsOf(t) = <<e, f>>
  BY <1>3 DEF Among
<1> QED
  BY <1>1, <1>2, <1>3, CommandQueues

-----------------------------------------------------------------------------
(* Escalation. *)

\* An order whose escalation was queued has the receipt that stops the next.
EscalationInv ==
    \A o \in OrderIds :
        /\ Queued(o, "order.sla_escalated") => o \in escalated
        /\ AtMostOne(outbox[o], {"order.sla_escalated"})

\* Queueing what is not an escalation keeps what was escalated.
LEMMA OtherEvents ==
    ASSUME NEW s \in Seq(Events), NEW more \in Seq(Events),
           Among(Events \ {"order.sla_escalated"}, more)
    PROVE  /\ \A i \in 1 .. Len(s \o more) :
                 (s \o more)[i] = "order.sla_escalated" =>
                    i \in 1 .. Len(s) /\ s[i] = "order.sla_escalated"
           /\ AtMostOne(s, {"order.sla_escalated"}) =>
                 AtMostOne(s \o more, {"order.sla_escalated"})
<1>1. /\ Len(s) \in Nat /\ Len(more) \in Nat
      /\ Len(s \o more) = Len(s) + Len(more)
      /\ \A i \in 1 .. Len(s \o more) :
            (s \o more)[i] = IF i <= Len(s) THEN s[i] ELSE more[i - Len(s)]
  OBVIOUS
<1>2. \A i \in 1 .. Len(s \o more) :
         (s \o more)[i] = "order.sla_escalated" =>
            i \in 1 .. Len(s) /\ s[i] = "order.sla_escalated"
  <2> TAKE i \in 1 .. Len(s \o more)
  <2>1. CASE i <= Len(s)
    BY <1>1, <2>1
  <2>2. CASE ~(i <= Len(s))
    <3>1. i - Len(s) \in 1 .. Len(more)
      BY <1>1, <2>2
    <3> QED
      BY <1>1, <2>2, <3>1 DEF Among
  <2> QED
    BY <2>1, <2>2
<1> QED
  BY <1>2 DEF AtMostOne

LEMMA EscalationFrame ==
    ASSUME TypeInv, NEW o \in OrderIds, NEW more \in Seq(Events),
           Among(Events \ {"order.sla_escalated"}, more),
           outbox' = [outbox EXCEPT ![o] = outbox[o] \o more],
           UNCHANGED escalated, EscalationInv
    PROVE  EscalationInv'
<1>1. outbox[o] \in Seq(Events) /\ outbox'[o] = outbox[o] \o more
  BY DEF TypeInv, OrderTypes
<1>2. \A p \in OrderIds \ {o} : outbox'[p] = outbox[p]
  BY DEF TypeInv, OrderTypes
<1>3. /\ Queued(o, "order.sla_escalated")' => Queued(o, "order.sla_escalated")
      /\ AtMostOne(outbox[o], {"order.sla_escalated"}) =>
            AtMostOne(outbox'[o], {"order.sla_escalated"})
  <2>1. PICK s \in Seq(Events) : s = outbox[o]
    BY <1>1
  <2>2. /\ \A i \in 1 .. Len(outbox'[o]) :
              outbox'[o][i] = "order.sla_escalated" =>
                 i \in 1 .. Len(s) /\ s[i] = "order.sla_escalated"
        /\ AtMostOne(s, {"order.sla_escalated"}) =>
              AtMostOne(outbox'[o], {"order.sla_escalated"})
    BY <1>1, <2>1, OtherEvents
  <2> QED
    BY <2>1, <2>2 DEF Queued
<1>4. ASSUME NEW p \in OrderIds \ {o}
      PROVE  /\ Queued(p, "order.sla_escalated")' => p \in escalated
             /\ AtMostOne(outbox'[p], {"order.sla_escalated"})
  BY <1>2 DEF Queued, EscalationInv
<1>5. /\ Queued(o, "order.sla_escalated")' => o \in escalated
      /\ AtMostOne(outbox'[o], {"order.sla_escalated"})
  BY <1>3 DEF EscalationInv
<1> QED
  BY <1>4, <1>5 DEF EscalationInv

LEMMA EscalationStep ==
    ASSUME TypeInv, EscalationInv, [Next]_vars
    PROVE  EscalationInv'
<1> USE DEF TypeInv, OrderTypes
<1>1. CASE \E o \in OrderIds, t \in Beginning : Settled(o, t)
  <2>1. PICK o \in OrderIds, t \in Beginning : Settled(o, t)
    BY <1>1
  <2>2. EventsOf(t) \in Seq(Events)
    BY CommandTypes, CommandTriggers
  <2>3. Among(Events \ {"order.sla_escalated"}, EventsOf(t))
    BY CommandQueuesItsOwn DEF Among, CommandEvents
  <2>4. outbox' = [outbox EXCEPT ![o] = outbox[o] \o EventsOf(t)]
    BY <2>1 DEF Settled, runTransition
  <2>5. UNCHANGED escalated
    BY <2>1 DEF Settled
  <2> QED
    BY <2>2, <2>3, <2>4, <2>5, EscalationFrame
<1>2. ASSUME NEW o \in OrderIds, NEW e \in Events \ {"order.sla_escalated"},
             outbox' = [outbox EXCEPT ![o] = Append(outbox[o], e)],
             UNCHANGED escalated
      PROVE  EscalationInv'
  <2>1. outbox' = [outbox EXCEPT ![o] = outbox[o] \o <<e>>]
    <3>1. outbox[o] \in Seq(Events)
      OBVIOUS
    <3>2. Append(outbox[o], e) = outbox[o] \o <<e>>
      BY <3>1, AppendIsConcat
    <3> QED
      BY <1>2, <3>2
  <2>2. <<e>> \in Seq(Events) /\ Among(Events \ {"order.sla_escalated"}, <<e>>)
    BY DEF Among
  <2> QED
    BY <1>2, <2>1, <2>2, EscalationFrame
<1>3. CASE \E o \in OrderIds, b \in Baskets : Create(o, b)
  BY <1>2, <1>3 DEF Create, Events
<1>4. CASE \E d \in Dispatchers : MarkOverdue(d)
  <2>1. PICK d \in Dispatchers : MarkOverdue(d)
    BY <1>4
  <2>2. refundSweep[d].marking \in OrderIds
    BY <2>1 DEF MarkOverdue, SweepTypes
  <2> QED
    BY <1>2, <2>1, <2>2 DEF MarkOverdue, Events
<1>5. CASE UNCHANGED <<outbox, escalated>>
  BY <1>5 DEF EscalationInv, Queued
<1>6. CASE \E d \in Dispatchers, o \in OrderIds : Escalate(d, o)
  <2>1. PICK o \in OrderIds :
           /\ escalated' = escalated \cup {o}
           /\ outbox' = IF o \in escalated THEN outbox
                        ELSE [outbox EXCEPT ![o] =
                                 Append(outbox[o], "order.sla_escalated")]
    BY <1>6 DEF Escalate
  <2>2. CASE o \in escalated
    BY <1>5, <2>1, <2>2
  <2>3. CASE o \notin escalated
    <3>1. /\ outbox[o] \in Seq(Events)
          /\ outbox'[o] = Append(outbox[o], "order.sla_escalated")
          /\ \A p \in OrderIds \ {o} : outbox'[p] = outbox[p]
      BY <2>1, <2>3
    <3>2. \A i \in 1 .. Len(outbox[o]) : outbox[o][i] # "order.sla_escalated"
      BY <2>3 DEF EscalationInv, Queued
    <3>3. \A i \in 1 .. Len(outbox'[o]) :
             outbox'[o][i] = "order.sla_escalated" => i = Len(outbox[o]) + 1
      BY <3>1, <3>2
    <3>4. AtMostOne(outbox'[o], {"order.sla_escalated"})
      BY <3>3 DEF AtMostOne
    <3>5. ASSUME NEW p \in OrderIds \ {o}
          PROVE  /\ Queued(p, "order.sla_escalated")' => p \in escalated
                 /\ AtMostOne(outbox'[p], {"order.sla_escalated"})
      BY <3>1 DEF Queued, EscalationInv
    <3> QED
      BY <2>1, <3>4, <3>5 DEF EscalationInv
  <2> QED
    BY <2>2, <2>3
<1> QED
  BY <1>1, <1>3, <1>4, <1>5, <1>6, StepKinds
     DEF StepKind, Quiet, SubmitRefundEvidence, orderVars

\* However many dispatchers sweep, restart and reread old lists, an order is
\* escalated once. (RecordEscalation and its receipt, Sweeper.RunOnce.)
THEOREM OneEscalation == Spec => []EscalatedOnce
<1>1. Init => EscalationInv
  BY DEF Init, EscalationInv, Queued, AtMostOne
<1>2. EscalationInv => EscalatedOnce
  BY DEF EscalationInv, EscalatedOnce
<1> QED
  BY <1>1, <1>2, TypeInvHolds, EscalationStep, PTL DEF Spec

-----------------------------------------------------------------------------
(* The operator queue. *)

Openers == {"payment.review_started", "refund.became_overdue"}

\* OpenItem of a list of events.
OpenIn(s, opener) ==
    \E i \in 1 .. Len(s) :
        s[i] = opener /\ \A j \in i + 1 .. Len(s) : s[j] \notin Closes(opener)

LEMMA AppendOpens ==
    ASSUME NEW s \in Seq(Events), NEW e \in Events, NEW opener \in Openers
    PROVE  OpenIn(Append(s, e), opener)
              <=> e = opener \/ (OpenIn(s, opener) /\ e \notin Closes(opener))
<1> DEFINE n == Len(s)
           t == Append(s, e)
<1>1. /\ n \in Nat /\ Len(t) = n + 1 /\ t[n + 1] = e
      /\ \A i \in 1 .. n : t[i] = s[i]
  OBVIOUS
<1> HIDE DEF n, t
<1>2. ASSUME e = opener PROVE OpenIn(t, opener)
  BY <1>1, <1>2 DEF OpenIn
<1>3. ASSUME OpenIn(s, opener), e \notin Closes(opener)
      PROVE  OpenIn(t, opener)
  <2>1. PICK i \in 1 .. n :
           s[i] = opener /\ \A j \in i + 1 .. n : s[j] \notin Closes(opener)
    BY <1>3 DEF OpenIn, n
  <2>2. i \in 1 .. Len(t) /\ t[i] = opener
    BY <1>1, <2>1
  <2>3. ASSUME NEW j \in i + 1 .. Len(t) PROVE t[j] \notin Closes(opener)
    <3>1. CASE j = n + 1
      BY <1>1, <1>3, <3>1
    <3>2. CASE j \in i + 1 .. n
      BY <1>1, <2>1, <3>2
    <3> QED
      BY <1>1, <2>1, <3>1, <3>2
  <2> QED
    BY <2>2, <2>3 DEF OpenIn
<1>4. ASSUME OpenIn(t, opener), e # opener
      PROVE  OpenIn(s, opener) /\ e \notin Closes(opener)
  <2>1. PICK i \in 1 .. Len(t) :
           t[i] = opener /\ \A j \in i + 1 .. Len(t) : t[j] \notin Closes(opener)
    BY <1>4 DEF OpenIn
  <2>2. i \in 1 .. n
    BY <1>1, <1>4, <2>1
  <2>3. s[i] = opener /\ \A j \in i + 1 .. n : s[j] \notin Closes(opener)
    BY <1>1, <2>1, <2>2
  <2>4. e \notin Closes(opener)
    BY <1>1, <2>1, <2>2
  <2> QED
    BY <2>2, <2>3, <2>4 DEF OpenIn, n
<1> QED
  BY <1>2, <1>3, <1>4 DEF t

LEMMA QueueOneOrTwo ==
    ASSUME NEW s \in Seq(Events), NEW e \in Events, NEW f \in Events
    PROVE  s \o <<e>> = Append(s, e) /\ s \o <<e, f>> = Append(Append(s, e), f)
<1>1. s \o <<e>> = Append(s, e) /\ Append(s, e) \in Seq(Events)
  BY AppendIsConcat
<1>2. <<e>> \in Seq(Events) /\ <<f>> \in Seq(Events)
  OBVIOUS
<1>3. s \o (<<e>> \o <<f>>) = (s \o <<e>>) \o <<f>>
  BY <1>2, ConcatAssociative
<1>4. (s \o <<e>>) \o <<f>> = Append(Append(s, e), f)
  BY <1>1, AppendIsConcat
<1> QED
  BY <1>1, <1>3, <1>4, TwoEvents

ReviewClosers ==
    {"supplier_confirm", "token_confirm", "buyer_cancel", "operator_cancel",
     "confirm_payment", "reject_payment", "expire", "payment_expire"}

\* What each command does to the two items of its order.
LEMMA CommandOpens ==
    ASSUME NEW s \in Seq(Events), NEW t \in Beginning
    PROVE  /\ OpenIn(s \o EventsOf(t), "payment.review_started")
                 <=> \/ t = "submit_receipt"
                     \/ /\ OpenIn(s, "payment.review_started")
                        /\ t \notin ReviewClosers
           /\ OpenIn(s \o EventsOf(t), "refund.became_overdue")
                 <=> OpenIn(s, "refund.became_overdue") /\ t # "confirm_refund"
<1> DEFINE queued == s \o EventsOf(t)
<1>a. "payment.review_started" \in Openers /\ "refund.became_overdue" \in Openers
  BY DEF Openers
<1>b. /\ Closes("payment.review_started") =
            {"order.paid", "order.awaiting_payment", "order.cancelled",
             "order.expired"}
      /\ Closes("refund.became_overdue") = {"order.refunded"}
  BY DEF Closes
<1>1. ASSUME NEW e \in Events, EventsOf(t) = <<e>>
      PROVE  \A opener \in Openers : OpenIn(queued, opener)
                <=> e = opener \/ (OpenIn(s, opener) /\ e \notin Closes(opener))
  <2>1. queued = Append(s, e)
    BY <1>1, QueueOneOrTwo
  <2> HIDE DEF queued
  <2> QED
    BY <2>1, AppendOpens
<1>2. ASSUME NEW e \in Events, NEW f \in Events, EventsOf(t) = <<e, f>>
      PROVE  \A opener \in Openers : OpenIn(queued, opener)
                <=> \/ f = opener
                    \/ /\ \/ e = opener
                          \/ OpenIn(s, opener) /\ e \notin Closes(opener)
                       /\ f \notin Closes(opener)
  <2>1. queued = Append(Append(s, e), f)
    BY <1>2, QueueOneOrTwo
  <2>2. Append(s, e) \in Seq(Events)
    OBVIOUS
  <2> HIDE DEF queued
  <2>3. \A opener \in Openers : OpenIn(queued, opener)
           <=> f = opener \/ (OpenIn(Append(s, e), opener) /\ f \notin Closes(opener))
    BY <2>1, <2>2, AppendOpens
  <2> QED
    BY <2>3, AppendOpens
<1>3. CASE t \in {"supplier_confirm", "token_confirm"}
  <2>1. EventsOf(t) = <<"order.accepted", "order.awaiting_payment">>
    BY <1>3, EventTable
  <2> QED
    BY <1>a, <1>b, <1>2, <1>3, <2>1 DEF ReviewClosers, Events
<1>4. CASE t \in {"confirm_pickup", "confirm_delivery"}
  <2>1. \E e \in {"order.pickup_confirmed", "order.delivered"} :
           EventsOf(t) = <<e, "order.closed">>
    BY <1>4, EventTable
  <2> QED
    BY <1>a, <1>b, <1>2, <1>4, <2>1 DEF ReviewClosers, Events
<1>5. CASE t = "refund_overdue"
  <2>1. s \o EventsOf(t) = s
    BY <1>5, EventTable
  <2> QED
    BY <1>5, <2>1 DEF ReviewClosers
<1>6. CASE t \in {"buyer_cancel", "operator_cancel", "confirm_payment",
                  "reject_payment", "expire", "payment_expire"}
  <2>1. \E e \in {"order.cancelled", "order.paid", "order.awaiting_payment",
                  "order.expired"} : EventsOf(t) = <<e>>
    BY <1>6, EventTable
  <2> QED
    BY <1>a, <1>b, <1>1, <1>6, <2>1 DEF ReviewClosers, Events
<1>7. CASE t \in {"supplier_decline", "start_preparing", "mark_ready",
                  "refund_request"}
  <2>1. \E e \in {"order.declined", "order.preparing", "order.ready",
                  "refund.requested"} : EventsOf(t) = <<e>>
    BY <1>7, EventTable
  <2> QED
    BY <1>a, <1>b, <1>1, <1>7, <2>1 DEF ReviewClosers, Events
<1>8. CASE t = "submit_receipt"
  <2>1. EventsOf(t) = <<"payment.review_started">>
    BY <1>8, EventTable
  <2> QED
    BY <1>a, <1>b, <1>1, <1>8, <2>1 DEF ReviewClosers, Events
<1>9. CASE t = "confirm_refund"
  <2>1. EventsOf(t) = <<"order.refunded">>
    BY <1>9, EventTable
  <2> QED
    BY <1>a, <1>b, <1>1, <1>9, <2>1 DEF ReviewClosers, Events
<1> QED
  BY <1>3, <1>4, <1>5, <1>6, <1>7, <1>8, <1>9 DEF Beginning

-----------------------------------------------------------------------------
(* Every item of the operator queue has work behind it. *)

Worked(o) ==
    /\ OpenItem(o, "payment.review_started") <=> status[o] = "payment_review"
    /\ OpenItem(o, "refund.became_overdue") <=> Some(refunds[o], {"overdue"})

LEMMA OpenItemIn ==
    \A o \in OrderIds, opener \in Openers :
        /\ OpenItem(o, opener) <=> OpenIn(outbox[o], opener)
        /\ OpenItem(o, opener)' <=> OpenIn(outbox'[o], opener)
BY DEF OpenItem, OpenIn

LEMMA WorkedFrame ==
    ASSUME NEW o \in OrderIds, Worked(o), outbox'[o] = outbox[o],
           status'[o] = "payment_review" <=> status[o] = "payment_review",
           Some(refunds'[o], {"overdue"}) <=> Some(refunds[o], {"overdue"})
    PROVE  Worked(o)'
<1>1. \A opener \in Openers : OpenItem(o, opener)' <=> OpenItem(o, opener)
  BY DEF OpenItem
<1> QED
  BY <1>1 DEF Worked, Openers

\* Queueing an event that neither opens nor closes an item.
LEMMA NeutralEvent ==
    ASSUME TypeInv, NEW o \in OrderIds, Worked(o),
           NEW e \in {"order.created", "order.sla_escalated"},
           outbox'[o] = Append(outbox[o], e),
           status'[o] = "payment_review" <=> status[o] = "payment_review",
           Some(refunds'[o], {"overdue"}) <=> Some(refunds[o], {"overdue"})
    PROVE  Worked(o)'
<1>1. outbox[o] \in Seq(Events) /\ e \in Events
  BY DEF TypeInv, OrderTypes, Events
<1>2. \A opener \in Openers : e # opener /\ e \notin Closes(opener)
  BY DEF Openers, Closes
<1>3. \A opener \in Openers :
         OpenIn(outbox'[o], opener) <=> OpenIn(outbox[o], opener)
  BY <1>1, <1>2, AppendOpens
<1>4. \A opener \in Openers : OpenItem(o, opener)' <=> OpenItem(o, opener)
  BY <1>3, OpenItemIn
<1> QED
  BY <1>4 DEF Worked, Openers

\* A command opens a review when it enters one, closes it when it leaves, and
\* closes the lateness of a refund when the money is back.
LEMMA CommandKeepsWorked ==
    ASSUME TypeInv, NEW o \in OrderIds, NEW t \in Beginning, Settled(o, t),
           Shape(o), Worked(o)
    PROVE  Worked(o)'
<1> DEFINE queued == outbox[o] \o EventsOf(t)
<1>0. outbox[o] \in Seq(Events) /\ outbox'[o] = queued
  BY DEF TypeInv, OrderTypes, Settled, runTransition
<1>1. /\ OpenIn(queued, "payment.review_started")
            <=> \/ t = "submit_receipt"
                \/ /\ OpenIn(outbox[o], "payment.review_started")
                   /\ t \notin ReviewClosers
      /\ OpenIn(queued, "refund.became_overdue")
            <=> /\ OpenIn(outbox[o], "refund.became_overdue")
                /\ t # "confirm_refund"
  BY <1>0, CommandOpens, Zenon
<1> HIDE DEF queued
<1>2. ChainPermitted(t, status[o]) /\ status'[o] = Destination(t)
  BY DEF TypeInv, OrderTypes, Settled, runTransition, TransitionOrder
<1>3. /\ status[o] = "payment_review" => t \in ReviewClosers
      /\ t = "submit_receipt" <=> status'[o] = "payment_review"
  BY <1>2, CommandTable DEF Command, Beginning, ReviewClosers
<1>4. OpenItem(o, "payment.review_started")' <=> status'[o] = "payment_review"
  <2>1. OpenItem(o, "payment.review_started")' <=>
           \/ t = "submit_receipt"
           \/ /\ OpenItem(o, "payment.review_started")
              /\ t \notin ReviewClosers
    BY <1>0, <1>1, OpenItemIn DEF Openers
  <2> QED
    BY <1>3, <2>1 DEF Worked
<1>5. OpenItem(o, "refund.became_overdue")' <=>
         OpenItem(o, "refund.became_overdue") /\ t # "confirm_refund"
  BY <1>0, <1>1, OpenItemIn DEF Openers
<1>6. OpenItem(o, "refund.became_overdue")' <=> Some(refunds'[o], {"overdue"})
  <2>1. refunds[o] \in Seq(RefundStatuses)
    BY DEF TypeInv, BillingTypes
  <2>2. CASE t = "confirm_refund"
    <3>1. refunds'[o] = Restate(refunds[o], OpenRefunds, "refunded")
      BY <2>2 DEF Settled, SettleRefund, CompleteRefund, TypeInv, BillingTypes
    <3>2. ~Some(refunds'[o], {"overdue"})
      BY <2>1, <3>1, RestateRows DEF Some, OpenRefunds, RefundStatuses
    <3> QED
      BY <1>5, <2>2, <3>2
  <2>3. CASE t = "refund_request"
    <3>1. Len(refunds[o]) = 0
      BY <1>2, <2>3, CommandTable DEF Command, Shape, RefundShape, Refunding
    <3>2. refunds'[o] = Append(refunds[o], "requested")
      BY <2>3 DEF Settled, OpenRefund, CreateRefund, TypeInv, BillingTypes
    <3>3. ~Some(refunds[o], {"overdue"}) /\ ~Some(refunds'[o], {"overdue"})
      BY <2>1, <3>1, <3>2 DEF Some
    <3> QED
      BY <1>5, <2>3, <3>3 DEF Worked
  <2>4. CASE t \notin {"confirm_refund", "refund_request"}
    <3>1. UNCHANGED refunds
      BY <2>4 DEF Settled, Beginning, IssueDocument, CancelSettlement,
                  RecordPaymentReceipt, SettlePayment, AccrueCommission,
                  billingVars
    <3> QED
      BY <1>5, <2>4, <3>1 DEF Worked
  <2> QED
    BY <2>2, <2>3, <2>4
<1> QED
  BY <1>4, <1>6 DEF Worked

\* The refund and its event are written in one transaction.
LEMMA LatenessIsWorked ==
    ASSUME TypeInv, NEW d \in Dispatchers, MarkOverdue(d),
           NEW o \in OrderIds, o = refundSweep[d].marking, Worked(o)
    PROVE  Worked(o)'
<1>1. /\ outbox[o] \in Seq(Events)
      /\ refunds[o] \in Seq(RefundStatuses)
      /\ Len(refunds[o]) > 0
  BY DEF TypeInv, OrderTypes, BillingTypes, MarkOverdue, Latest
<1>2. /\ outbox'[o] = Append(outbox[o], "refund.became_overdue")
      /\ refunds'[o] = [refunds[o] EXCEPT ![Len(refunds[o])] = "overdue"]
      /\ status'[o] = status[o]
  BY DEF TypeInv, OrderTypes, BillingTypes, MarkOverdue, MarkRefundOverdue,
         RestateLatest
<1>3. /\ "refund.became_overdue" \in Events
      /\ "refund.became_overdue" \notin Closes("payment.review_started")
      /\ Openers = {"payment.review_started", "refund.became_overdue"}
  BY DEF Events, Closes, Openers
<1>4. /\ OpenIn(outbox'[o], "payment.review_started")
            <=> OpenIn(outbox[o], "payment.review_started")
      /\ OpenIn(outbox'[o], "refund.became_overdue")
  BY <1>1, <1>2, <1>3, AppendOpens
<1>5. /\ OpenItem(o, "payment.review_started")'
            <=> OpenItem(o, "payment.review_started")
      /\ OpenItem(o, "refund.became_overdue")'
  BY <1>3, <1>4, OpenItemIn
<1>6. Some(refunds'[o], {"overdue"})
  <2>1. /\ Len(refunds'[o]) = Len(refunds[o])
        /\ refunds'[o][Len(refunds[o])] = "overdue"
    BY <1>1, <1>2
  <2> QED
    BY <1>1, <2>1 DEF Some
<1> QED
  BY <1>2, <1>5, <1>6 DEF Worked

\* Evidence is only attached to a refund that is not late.
LEMMA EvidenceIsWorked ==
    ASSUME TypeInv, NEW o \in OrderIds, SubmitRefundEvidence(o), Shape(o),
           Worked(o)
    PROVE  Worked(o)'
<1>1. /\ refunds[o] \in Seq(RefundStatuses)
      /\ Latest(refunds[o], {"requested"})
      /\ refunds'[o] = [refunds[o] EXCEPT ![Len(refunds[o])] = "evidence_uploaded"]
  BY DEF TypeInv, BillingTypes, SubmitRefundEvidence, AttachRefundEvidence,
         RestateLatest
<1>2. Len(refunds[o]) = 1 /\ refunds[o][1] = "requested"
  BY <1>1 DEF Shape, RefundShape, Latest, Refunding
<1>3. Len(refunds'[o]) = 1 /\ refunds'[o][1] = "evidence_uploaded"
  BY <1>1, <1>2
<1>4. ~Some(refunds[o], {"overdue"}) /\ ~Some(refunds'[o], {"overdue"})
  BY <1>2, <1>3 DEF Some
<1>5. outbox'[o] = outbox[o] /\ status'[o] = status[o]
  BY DEF SubmitRefundEvidence, orderVars
<1> QED
  BY <1>4, <1>5, WorkedFrame

\* The order that a step of one order is about, and the others.
LEMMA QueueStep ==
    ASSUME TypeInv, BillingInv, \A o \in OrderIds : Worked(o), [Next]_vars
    PROVE  \A o \in OrderIds : Worked(o)'
<1> SUFFICES ASSUME NEW o \in OrderIds PROVE Worked(o)'
  OBVIOUS
<1>0. Worked(o) /\ Shape(o)
  BY DEF BillingInv
<1>1. CASE \E p \in OrderIds, t \in Beginning : Settled(p, t)
  <2>1. PICK p \in OrderIds, t \in Beginning : Settled(p, t)
    BY <1>1
  <2>2. CASE p = o
    BY <1>0, <2>1, <2>2, CommandKeepsWorked
  <2>3. CASE p # o
    <3>1. outbox'[o] = outbox[o] /\ status'[o] = status[o]
      BY <2>1, <2>3 DEF Settled, runTransition, TransitionOrder, TypeInv,
                        OrderTypes
    <3>2. refunds'[o] = refunds[o]
      BY <2>1, <2>3 DEF Settled, Beginning, IssueDocument, CancelSettlement,
                        RecordPaymentReceipt, SettlePayment, AccrueCommission,
                        OpenRefund, SettleRefund, billingVars, TypeInv,
                        BillingTypes
    <3> QED
      BY <1>0, <3>1, <3>2, WorkedFrame
  <2> QED
    BY <2>2, <2>3
<1>2. CASE \E p \in OrderIds, b \in Baskets : Create(p, b)
  <2>1. PICK p \in OrderIds, b \in Baskets : Create(p, b)
    BY <1>2
  <2>2. /\ refunds'[o] = refunds[o]
        /\ status'[o] = "payment_review" <=> status[o] = "payment_review"
    <3>1. NotPlaced # "payment_review"
      BY NotPlacedAssumption DEF Statuses
    <3> QED
      BY <2>1, <3>1 DEF Create, CreateOrder, billingVars, TypeInv, OrderTypes
  <2>3. \/ outbox'[o] = outbox[o]
        \/ outbox'[o] = Append(outbox[o], "order.created")
    BY <2>1 DEF Create, TypeInv, OrderTypes
  <2> QED
    BY <1>0, <2>2, <2>3, WorkedFrame, NeutralEvent
<1>3. CASE \E d \in Dispatchers, p \in OrderIds : Escalate(d, p)
  <2>1. PICK d \in Dispatchers, p \in OrderIds : Escalate(d, p)
    BY <1>3
  <2>2. refunds'[o] = refunds[o] /\ status'[o] = status[o]
    BY <2>1 DEF Escalate, billingVars
  <2>3. \/ outbox'[o] = outbox[o]
        \/ outbox'[o] = Append(outbox[o], "order.sla_escalated")
    BY <2>1 DEF Escalate, TypeInv, OrderTypes
  <2> QED
    BY <1>0, <2>2, <2>3, WorkedFrame, NeutralEvent
<1>4. CASE \E d \in Dispatchers : MarkOverdue(d)
  <2>1. PICK d \in Dispatchers : MarkOverdue(d)
    BY <1>4
  <2>2. CASE refundSweep[d].marking = o
    BY <1>0, <2>1, <2>2, LatenessIsWorked
  <2>3. CASE refundSweep[d].marking # o
    <3>1. /\ outbox'[o] = outbox[o] /\ status'[o] = status[o]
          /\ refunds'[o] = refunds[o]
      BY <2>1, <2>3 DEF MarkOverdue, TypeInv, OrderTypes, BillingTypes
    <3> QED
      BY <1>0, <3>1, WorkedFrame
  <2> QED
    BY <2>2, <2>3
<1>5. CASE \E p \in OrderIds : SubmitRefundEvidence(p)
  <2>1. PICK p \in OrderIds : SubmitRefundEvidence(p)
    BY <1>5
  <2>2. CASE p = o
    BY <1>0, <2>1, <2>2, EvidenceIsWorked
  <2>3. CASE p # o
    <3>1. /\ outbox'[o] = outbox[o] /\ status'[o] = status[o]
          /\ refunds'[o] = refunds[o]
      BY <2>1, <2>3 DEF SubmitRefundEvidence, orderVars, TypeInv, BillingTypes
    <3> QED
      BY <1>0, <3>1, WorkedFrame
  <2> QED
    BY <2>2, <2>3
<1>6. CASE Quiet
  BY <1>0, <1>6, WorkedFrame DEF Quiet, billingVars
<1> QED
  BY <1>1, <1>2, <1>3, <1>4, <1>5, <1>6, StepKinds DEF StepKind

\* Whatever the sweepers and the parties do, a payment review or an overdue
\* refund stands in the operator queue exactly while there is work behind it.
\* (The projection of analytics.operator_queue; markOverdue, transition.)
THEOREM QueuedItemsHaveWork == Spec => []QueueHasWork
<1>1. Init => \A o \in OrderIds : Worked(o)
  <2> SUFFICES ASSUME Init, NEW o \in OrderIds PROVE Worked(o)
    OBVIOUS
  <2>1. /\ Len(outbox[o]) = 0 /\ Len(refunds[o]) = 0
        /\ status[o] = NotPlaced /\ NotPlaced # "payment_review"
    BY NotPlacedAssumption DEF Init, Statuses
  <2> QED
    BY <2>1 DEF Worked, OpenItem, Some
<1>2. (\A o \in OrderIds : Worked(o)) => QueueHasWork
  BY DEF QueueHasWork, Worked
<1>3. (\A o \in OrderIds : Worked(o))' <=> \A o \in OrderIds : Worked(o)'
  OBVIOUS
<1> QED
  BY <1>1, <1>2, <1>3, BillingInvHolds, QueueStep, PTL DEF Spec

-----------------------------------------------------------------------------
(* Stock and the orders that hold it. *)

\* Commands that give the reservation back, and those that sell it.
Returning == {"supplier_decline", "buyer_cancel", "operator_cancel", "expire",
              "payment_expire", "refund_request"}
Selling == {"confirm_pickup", "confirm_delivery"}

\* What each edge does to the stock.
LEMMA EdgeStock ==
    ASSUME NEW o, NEW stock
    PROVE  /\ AfterEdge(stock, o, "supplier_decline") = Release(stock, basket[o])
           /\ AfterEdge(stock, o, "buyer_cancel") = Release(stock, basket[o])
           /\ AfterEdge(stock, o, "operator_cancel") = Release(stock, basket[o])
           /\ AfterEdge(stock, o, "expire") = Release(stock, basket[o])
           /\ AfterEdge(stock, o, "payment_expire") = Release(stock, basket[o])
           /\ AfterEdge(stock, o, "refund_request") = Release(stock, basket[o])
           /\ AfterEdge(stock, o, "close_order") = Consume(stock, basket[o])
           /\ AfterEdge(stock, o, "supplier_confirm") = stock
           /\ AfterEdge(stock, o, "token_confirm") = stock
           /\ AfterEdge(stock, o, "issue_invoice") = stock
           /\ AfterEdge(stock, o, "submit_receipt") = stock
           /\ AfterEdge(stock, o, "confirm_payment") = stock
           /\ AfterEdge(stock, o, "reject_payment") = stock
           /\ AfterEdge(stock, o, "start_preparing") = stock
           /\ AfterEdge(stock, o, "mark_ready") = stock
           /\ AfterEdge(stock, o, "refund_overdue") = stock
           /\ AfterEdge(stock, o, "confirm_refund") = stock
           /\ AfterEdge(stock, o, "confirm_pickup") = stock
           /\ AfterEdge(stock, o, "confirm_delivery") = stock
<1> USE DEF AfterEdge, transitionTable, Transition, Edge, Chained, Releasing,
        Consuming
<1>1. AfterEdge(stock, o, "supplier_decline") = Release(stock, basket[o])
  OBVIOUS
<1>2. AfterEdge(stock, o, "buyer_cancel") = Release(stock, basket[o])
  OBVIOUS
<1>3. AfterEdge(stock, o, "operator_cancel") = Release(stock, basket[o])
  OBVIOUS
<1>4. AfterEdge(stock, o, "expire") = Release(stock, basket[o])
  OBVIOUS
<1>5. AfterEdge(stock, o, "payment_expire") = Release(stock, basket[o])
  OBVIOUS
<1>6. AfterEdge(stock, o, "refund_request") = Release(stock, basket[o])
  OBVIOUS
<1>7. AfterEdge(stock, o, "close_order") = Consume(stock, basket[o])
  OBVIOUS
<1>8. AfterEdge(stock, o, "supplier_confirm") = stock
  OBVIOUS
<1>9. AfterEdge(stock, o, "token_confirm") = stock
  OBVIOUS
<1>10. AfterEdge(stock, o, "issue_invoice") = stock
  OBVIOUS
<1>11. AfterEdge(stock, o, "submit_receipt") = stock
  OBVIOUS
<1>12. AfterEdge(stock, o, "confirm_payment") = stock
  OBVIOUS
<1>13. AfterEdge(stock, o, "reject_payment") = stock
  OBVIOUS
<1>14. AfterEdge(stock, o, "start_preparing") = stock
  OBVIOUS
<1>15. AfterEdge(stock, o, "mark_ready") = stock
  OBVIOUS
<1>16. AfterEdge(stock, o, "refund_overdue") = stock
  OBVIOUS
<1>17. AfterEdge(stock, o, "confirm_refund") = stock
  OBVIOUS
<1>18. AfterEdge(stock, o, "confirm_pickup") = stock
  OBVIOUS
<1>19. AfterEdge(stock, o, "confirm_delivery") = stock
  OBVIOUS
<1> HIDE DEF AfterEdge
<1> QED
  BY <1>1, <1>2, <1>3, <1>4, <1>5, <1>6, <1>7, <1>8, <1>9, <1>10, <1>11, <1>12, <1>13, <1>14, <1>15, <1>16, <1>17, <1>18, <1>19

\* The edges a command continues with.
LEMMA FollowTable ==
    ASSUME NEW t \in Beginning
    PROVE  /\ t \in {"supplier_confirm", "token_confirm"} =>
                 HasFollow(t) /\ Follow(t) = "issue_invoice"
           /\ t \in Selling => HasFollow(t) /\ Follow(t) = "close_order"
           /\ t \notin Selling \cup {"supplier_confirm", "token_confirm"} =>
                 ~HasFollow(t)
<1> USE DEF HasFollow, Follow, transitionTable, Transition, Edge, Chained,
        Releasing, Consuming, NoTrigger
<1>1. /\ Follow("supplier_confirm") = "issue_invoice"
      /\ Follow("token_confirm") = "issue_invoice"
  OBVIOUS
<1>2. /\ Follow("confirm_pickup") = "close_order"
      /\ Follow("confirm_delivery") = "close_order"
  OBVIOUS
<1>3. Follow("supplier_decline") = NoTrigger
  OBVIOUS
<1>4. Follow("buyer_cancel") = NoTrigger
  OBVIOUS
<1>5. Follow("operator_cancel") = NoTrigger
  OBVIOUS
<1>6. Follow("expire") = NoTrigger
  OBVIOUS
<1>7. Follow("payment_expire") = NoTrigger
  OBVIOUS
<1>8. Follow("refund_request") = NoTrigger
  OBVIOUS
<1>9. Follow("submit_receipt") = NoTrigger
  OBVIOUS
<1>10. Follow("confirm_payment") = NoTrigger
  OBVIOUS
<1>11. Follow("reject_payment") = NoTrigger
  OBVIOUS
<1>12. Follow("start_preparing") = NoTrigger
  OBVIOUS
<1>13. Follow("mark_ready") = NoTrigger
  OBVIOUS
<1>14. Follow("refund_overdue") = NoTrigger
  OBVIOUS
<1>15. Follow("confirm_refund") = NoTrigger
  OBVIOUS
<1> HIDE DEF Follow, transitionTable
<1> QED
  BY <1>1, <1>2, <1>3, <1>4, <1>5, <1>6, <1>7, <1>8, <1>9, <1>10, <1>11, <1>12, <1>13, <1>14, <1>15 DEF Beginning, Selling

\* What a command does to the stock, its follow-on edge included.
LEMMA StockTable ==
    ASSUME NEW o \in OrderIds, NEW t \in Beginning, runTransition(o, t)
    PROVE  /\ t \in Returning => offers' = Release(offers, basket[o])
           /\ t \in Selling => offers' = Consume(offers, basket[o])
           /\ t \notin Returning \cup Selling => offers' = offers
<1>1. offers' = IF HasFollow(t)
                THEN AfterEdge(AfterEdge(offers, o, t), o, Follow(t))
                ELSE AfterEdge(offers, o, t)
  BY DEF runTransition
<1>2. CASE t \in Returning
  BY <1>1, <1>2, EdgeStock, FollowTable DEF Returning, Selling
<1>3. CASE t \in Selling
  BY <1>1, <1>3, EdgeStock, FollowTable DEF Returning, Selling
<1>4. CASE t \in {"supplier_confirm", "token_confirm"}
  BY <1>1, <1>4, EdgeStock, FollowTable DEF Returning, Selling
<1>5. CASE t \in Beginning \ (Returning \cup Selling
                                \cup {"supplier_confirm", "token_confirm"})
  BY <1>1, <1>5, EdgeStock, FollowTable DEF Returning, Selling, Beginning
<1> QED
  BY <1>2, <1>3, <1>4, <1>5

\* What a release or a consumption does to a reservation.
LEMMA ReservedAfter ==
    ASSUME SoundStock(offers), NEW b \in [Offers -> Nat], NEW f \in Offers
    PROVE  /\ offers[f].reserved \in Nat
           /\ offers[f].reserved >= b[f] =>
                 /\ Release(offers, b)[f].reserved = offers[f].reserved - b[f]
                 /\ Consume(offers, b)[f].reserved = offers[f].reserved - b[f]
           /\ Reserve(offers, b)[f].reserved = offers[f].reserved + b[f]
<1>1. offers[f] \in OfferRows /\ f \in DOMAIN offers /\ b[f] \in Nat
  BY DEF SoundStock
<1>2. offers[f].reserved \in Nat
  BY <1>1 DEF OfferRows
<1>3. CASE offers[f].reserved >= b[f]
  BY <1>1, <1>2, <1>3 DEF Release, Consume, Reserve, OfferRows,
                          ReleaseOfferQuantity, ConsumeOfferQuantity
<1>4. Reserve(offers, b)[f].reserved = offers[f].reserved + b[f]
  BY <1>1 DEF Reserve, OfferRows
<1> QED
  BY <1>2, <1>3, <1>4

\* How far a command takes an order that held stock, or one that held none.
LEMMA HoldingTable ==
    ASSUME NEW o \in OrderIds, NEW t \in Beginning, runTransition(o, t)
    PROVE  /\ t \in Returning \cup Selling =>
                 /\ Destination(t) \notin Holding
                 /\ status[o] \in Holding
                       \/ (/\ status[o] = "buyer_decision_pending"
                           /\ t \in {"buyer_cancel", "operator_cancel"})
           /\ t \notin Returning \cup Selling =>
                 (Destination(t) \in Holding <=> status[o] \in Holding)
           /\ Destination(t) = "buyer_decision_pending" => t = "supplier_decline"
BY CommandTable DEF runTransition, Command, Returning, Selling, Holding, Beginning

\* A queued event stays queued: rows of the outbox are only ever added.
LEMMA QueuedStays ==
    ASSUME TypeInv, StepKind, NEW o \in OrderIds, NEW event, Queued(o, event)
    PROVE  Queued(o, event)'
<1>1. PICK i \in 1 .. Len(outbox[o]) : outbox[o][i] = event
  BY DEF Queued
<1>2. outbox[o] \in Seq(Events) /\ outbox \in [OrderIds -> Seq(Events)]
  BY DEF TypeInv, OrderTypes
<1>3. CASE Quiet \/ \E q \in OrderIds : SubmitRefundEvidence(q)
  BY <1>1, <1>3 DEF Quiet, SubmitRefundEvidence, orderVars, Queued
<1>4. ASSUME NEW q \in OrderIds, NEW e \in Events,
             outbox' = [outbox EXCEPT ![q] = Append(outbox[q], e)]
      PROVE  Queued(o, event)'
  <2>1. CASE q = o
    <3>1. outbox'[o] = Append(outbox[o], e)
      BY <1>2, <1>4, <2>1
    <3>2. i \in 1 .. Len(outbox'[o]) /\ outbox'[o][i] = event
      BY <1>1, <1>2, <3>1
    <3> QED
      BY <3>2 DEF Queued
  <2>2. CASE q # o
    BY <1>1, <1>2, <1>4, <2>2 DEF Queued
  <2> QED
    BY <2>1, <2>2
<1>5. CASE \E q \in OrderIds, b \in Baskets : Create(q, b)
  BY <1>4, <1>5 DEF Create, Events
<1>6. CASE \E d \in Dispatchers, q \in OrderIds : Escalate(d, q)
  <2>1. PICK d \in Dispatchers, q \in OrderIds : Escalate(d, q)
    BY <1>6
  <2>2. CASE q \in escalated
    BY <1>1, <2>1, <2>2 DEF Escalate, Queued
  <2>3. CASE q \notin escalated
    BY <1>4, <2>1, <2>3 DEF Escalate, Events
  <2> QED
    BY <2>2, <2>3
<1>7. CASE \E d \in Dispatchers : MarkOverdue(d)
  <2>1. PICK d \in Dispatchers : MarkOverdue(d)
    BY <1>7
  <2>2. refundSweep[d].marking \in OrderIds
    BY <2>1 DEF MarkOverdue, TypeInv, SweepTypes
  <2> QED
    BY <1>4, <2>1, <2>2 DEF MarkOverdue, Events
<1>8. CASE \E q \in OrderIds, t \in Beginning : Settled(q, t)
  <2>1. PICK q \in OrderIds, t \in Beginning : Settled(q, t)
    BY <1>8
  <2>2. outbox' = [outbox EXCEPT ![q] = outbox[q] \o EventsOf(t)]
    BY <2>1 DEF Settled, runTransition
  <2>3. EventsOf(t) \in Seq(Events)
    BY CommandTypes, CommandTriggers
  <2>4. CASE q = o
    <3>1. outbox'[o] = outbox[o] \o EventsOf(t)
      BY <1>2, <2>2, <2>4
    <3>2. i \in 1 .. Len(outbox'[o]) /\ outbox'[o][i] = event
      BY <1>1, <1>2, <2>3, <3>1
    <3> QED
      BY <3>2 DEF Queued
  <2>5. CASE q # o
    BY <1>1, <1>2, <2>2, <2>5 DEF Queued
  <2> QED
    BY <2>4, <2>5
<1> QED
  BY <1>3, <1>5, <1>6, <1>7, <1>8 DEF StepKind

\* A cancellation and a refusal queue their events.
LEMMA CommandQueued ==
    ASSUME TypeInv, NEW o \in OrderIds, NEW t \in Beginning, runTransition(o, t)
    PROVE  /\ t = "supplier_decline" => Queued(o, "order.declined")'
           /\ t \in {"buyer_cancel", "operator_cancel"} =>
                 Queued(o, "order.cancelled")'
<1> SUFFICES ASSUME NEW e \in Events, EventsOf(t) = <<e>>
             PROVE  Queued(o, e)'
  BY EventTable DEF Events
<1>1. outbox[o] \in Seq(Events) /\ outbox \in [OrderIds -> Seq(Events)]
  BY DEF TypeInv, OrderTypes
<1>2. outbox'[o] = outbox[o] \o <<e>>
  BY <1>1 DEF runTransition
<1>3. outbox'[o] = Append(outbox[o], e)
  BY <1>1, <1>2, AppendIsConcat
<1>4. Len(outbox[o]) + 1 \in 1 .. Len(outbox'[o])
      /\ outbox'[o][Len(outbox[o]) + 1] = e
  BY <1>1, <1>3
<1> QED
  BY <1>4 DEF Queued

-----------------------------------------------------------------------------
(* The sums of the baskets held. *)

HeldBaskets(f) == [o \in HoldingOrders |-> basket[o][f]]

LEMMA HeldBasketsTyped ==
    ASSUME OrderTypes, NEW f \in Offers
    PROVE  HeldBaskets(f) \in [HoldingOrders -> Nat]
BY DEF OrderTypes, HeldBaskets, HoldingOrders

\* Nothing changes hands.
LEMMA HeldUnchanged ==
    ASSUME HoldingOrders' = HoldingOrders,
           \A o \in HoldingOrders : basket'[o] = basket[o],
           NEW f \in Offers
    PROVE  Held(f)' = Held(f)
<1>1. HeldBaskets(f)' = HeldBaskets(f)
  BY DEF HeldBaskets
<1> QED
  BY <1>1 DEF Held, HeldBaskets

\* One order gives up what it holds.
LEMMA HeldByOneLess ==
    ASSUME OrderTypes, IsFiniteSet(HoldingOrders), NEW o \in HoldingOrders,
           HoldingOrders' = HoldingOrders \ {o}, basket' = basket,
           NEW f \in Offers
    PROVE  /\ Held(f) = basket[o][f] + Held(f)'
           /\ Held(f)' \in Nat
<1>1. HeldBaskets(f) \in [HoldingOrders -> Nat]
  BY HeldBasketsTyped
<1>2. HeldBaskets(f)' = [q \in HoldingOrders \ {o} |-> HeldBaskets(f)[q]]
  BY DEF HeldBaskets
<1>3. HeldBaskets(f)[o] = basket[o][f]
  BY DEF HeldBaskets
<1>4. SumFunction(HeldBaskets(f))
         = HeldBaskets(f)[o] + SumFunction(HeldBaskets(f)')
  BY <1>1, <1>2, SumWithout
<1>5. /\ IsFiniteSet(HoldingOrders \ {o})
      /\ HeldBaskets(f)' \in [HoldingOrders \ {o} -> Nat]
  BY <1>1, <1>2, FS_RemoveElement
<1>6. SumFunction(HeldBaskets(f)') \in Nat
  BY <1>5, SumIsNat
<1> QED
  BY <1>3, <1>4, <1>6 DEF Held, HeldBaskets

\* One order more holds a basket.
LEMMA HeldByOneMore ==
    ASSUME OrderTypes, OrderTypes', IsFiniteSet(HoldingOrders),
           NEW o \in OrderIds, o \notin HoldingOrders,
           HoldingOrders' = HoldingOrders \cup {o},
           \A q \in OrderIds \ {o} : basket'[q] = basket[q],
           NEW f \in Offers
    PROVE  Held(f)' = basket'[o][f] + Held(f)
<1>1. HeldBaskets(f)' \in [HoldingOrders' -> Nat]
  BY DEF OrderTypes, HeldBaskets, HoldingOrders
<1>2. HeldBaskets(f) = [q \in HoldingOrders' \ {o} |-> HeldBaskets(f)'[q]]
  <2>1. HoldingOrders = HoldingOrders' \ {o} /\ HoldingOrders \subseteq OrderIds
    BY DEF HoldingOrders
  <2>2. \A q \in HoldingOrders : HeldBaskets(f)'[q] = HeldBaskets(f)[q]
    BY <2>1 DEF HeldBaskets
  <2>3. HeldBaskets(f) = [q \in HoldingOrders |-> HeldBaskets(f)[q]]
    BY DEF HeldBaskets
  <2> QED
    BY <2>1, <2>2, <2>3
<1>3. HeldBaskets(f)'[o] = basket'[o][f]
  BY DEF HeldBaskets
<1>4. IsFiniteSet(HoldingOrders') /\ o \in HoldingOrders'
  BY FS_AddElement
<1>5. SumFunction(HeldBaskets(f)')
         = HeldBaskets(f)'[o] + SumFunction(HeldBaskets(f))
  BY <1>1, <1>2, <1>4, SumWithout
<1> QED
  BY <1>3, <1>5 DEF Held, HeldBaskets

-----------------------------------------------------------------------------
(* The reservation of an offer is what its live orders took. *)

\* Only finitely many orders hold stock, and whoever waits for the buyer's
\* decision has its refusal queued, so that a cancellation after it shows.
StockInv ==
    /\ IsFiniteSet(HoldingOrders)
    /\ \A o \in OrderIds : status[o] = "buyer_decision_pending" =>
                              Queued(o, "order.declined")
    /\ StockMatchesOrders

NoneDeclinedThenCancelled == \A o \in OrderIds : ~DeclinedThenCancelled(o)

\* A declined order that was cancelled stays one.
LEMMA DoubleReleaseRemembered ==
    ASSUME TypeInv, StepKind, NoneDeclinedThenCancelled'
    PROVE  NoneDeclinedThenCancelled
<1> SUFFICES ASSUME NEW o \in OrderIds, DeclinedThenCancelled(o)
             PROVE  DeclinedThenCancelled(o)'
  BY DEF NoneDeclinedThenCancelled
<1> QED
  BY QueuedStays DEF DeclinedThenCancelled

\* A refusal waiting for the buyer's decision stays queued.
LEMMA DeclinedStep ==
    ASSUME TypeInv, StepKind, StockInv
    PROVE  \A o \in OrderIds : status'[o] = "buyer_decision_pending" =>
                                  Queued(o, "order.declined")'
<1> SUFFICES ASSUME NEW o \in OrderIds, status'[o] = "buyer_decision_pending"
             PROVE  Queued(o, "order.declined")'
  OBVIOUS
<1>1. CASE status[o] = "buyer_decision_pending"
  BY <1>1, QueuedStays DEF StockInv
<1>2. CASE status[o] # "buyer_decision_pending"
  <2>1. ~ UNCHANGED status
    BY <1>2
  <2>2. ~ \E q \in OrderIds, b \in Baskets : Create(q, b)
    BY <1>2 DEF Create, CreateOrder, TypeInv, OrderTypes
  <2>3. PICK q \in OrderIds, t \in Beginning : Settled(q, t)
    BY <2>1, <2>2 DEF StepKind, Quiet, Escalate, MarkOverdue,
                      SubmitRefundEvidence, orderVars
  <2>4. q = o /\ status'[o] = Destination(t)
    BY <1>2, <2>3 DEF Settled, runTransition, TransitionOrder, TypeInv, OrderTypes
  <2>5. runTransition(o, t)
    BY <2>3, <2>4 DEF Settled
  <2>6. t = "supplier_decline"
    BY <2>4, <2>5, HoldingTable
  <2> QED
    BY <2>5, <2>6, CommandQueued
<1> QED
  BY <1>1, <1>2

\* The steps that leave every reservation and every holder alone.
LEMMA StockFrame ==
    ASSUME StockInv, HoldingOrders' = HoldingOrders, basket' = basket,
           ReservedStays
    PROVE  /\ IsFiniteSet(HoldingOrders')
           /\ (\A f \in Offers : offers[f].reserved = Held(f))
                 => (\A f \in Offers : offers'[f].reserved = Held(f)')
<1>1. \A f \in Offers : Held(f)' = Held(f)
  BY HeldUnchanged
<1> QED
  BY <1>1 DEF StockInv, ReservedStays

\* Every step moves the reservations as it moves the holders, except the
\* cancellation of a declined order.
LEMMA StockStep ==
    ASSUME TypeInv, TypeInv', StepKind, StockInv
    PROVE  /\ IsFiniteSet(HoldingOrders')
           /\ NoneDeclinedThenCancelled' =>
                 ((\A f \in Offers : offers[f].reserved = Held(f))
                     => (\A f \in Offers : offers'[f].reserved = Held(f)'))
<1>1. OrderTypes /\ OrderTypes' /\ SoundStock(offers)
  BY DEF TypeInv, OrderTypes
<1>2. IsFiniteSet(HoldingOrders)
  BY DEF StockInv
<1>3. CASE UNCHANGED <<status, basket>> /\ ReservedStays
  <2>1. HoldingOrders' = HoldingOrders
    BY <1>3 DEF HoldingOrders
  <2> QED
    BY <1>3, <2>1, StockFrame
<1>4. CASE \E o \in OrderIds, b \in Baskets : Create(o, b)
  <2>1. PICK o \in OrderIds, b \in Baskets : Create(o, b)
    BY <1>4
  <2>2. /\ status[o] = NotPlaced
        /\ status' = [status EXCEPT ![o] = "created"]
        /\ basket' = [basket EXCEPT ![o] = b]
        /\ offers' = Reserve(offers, b)
    BY <2>1 DEF Create, CreateOrder, CreateOrderItems
  <2>3. o \notin HoldingOrders
    BY <2>2, NotPlacedAssumption DEF HoldingOrders, Holding, Statuses
  <2>4. HoldingOrders' = HoldingOrders \cup {o}
    BY <1>1, <2>2 DEF HoldingOrders, Holding, OrderTypes
  <2>5. /\ basket'[o] = b
        /\ \A q \in OrderIds \ {o} : basket'[q] = basket[q]
    BY <1>1, <2>2 DEF OrderTypes
  <2>6. b \in [Offers -> Nat]
    BY BasketsAssumption
  <2>7. \A f \in Offers : Held(f)' = b[f] + Held(f)
    BY <1>1, <1>2, <2>3, <2>4, <2>5, HeldByOneMore
  <2>8. \A f \in Offers : /\ offers[f].reserved \in Nat
                          /\ b[f] \in Nat
                          /\ offers'[f].reserved = offers[f].reserved + b[f]
    BY <1>1, <2>2, <2>6, ReservedAfter
  <2>9. IsFiniteSet(HoldingOrders')
    BY <1>2, <2>4, FS_AddElement
  <2> QED
    BY <2>7, <2>8, <2>9
<1>5. CASE \E o \in OrderIds, t \in Beginning : Settled(o, t)
  <2>1. PICK o \in OrderIds, t \in Beginning : Settled(o, t)
    BY <1>5
  <2>2. /\ runTransition(o, t)
        /\ status' = [status EXCEPT ![o] = Destination(t)]
        /\ basket' = basket
    BY <2>1 DEF Settled, runTransition, TransitionOrder
  <2>3. CASE t \notin Returning \cup Selling
    <3>1. offers' = offers
      BY <2>2, <2>3, StockTable
    <3>2. HoldingOrders' = HoldingOrders
      BY <1>1, <2>2, <2>3, HoldingTable DEF HoldingOrders, OrderTypes
    <3> QED
      BY <2>2, <3>1, <3>2, StockFrame DEF ReservedStays
  <2>4. CASE t \in Returning \cup Selling /\ status[o] \in Holding
    <3>1. o \in HoldingOrders
      BY <2>4 DEF HoldingOrders
    <3>2. HoldingOrders' = HoldingOrders \ {o}
      BY <1>1, <2>2, <2>4, HoldingTable DEF HoldingOrders, OrderTypes
    <3>3. basket[o] \in [Offers -> Nat]
      BY <1>1 DEF OrderTypes
    <3>4. \A f \in Offers : /\ Held(f) = basket[o][f] + Held(f)'
                            /\ Held(f)' \in Nat
      BY <1>1, <1>2, <2>2, <3>1, <3>2, HeldByOneLess
    <3>5. offers' = Release(offers, basket[o]) \/ offers' = Consume(offers, basket[o])
      BY <2>2, <2>4, StockTable
    <3>6. ASSUME NEW f \in Offers, offers[f].reserved = Held(f)
          PROVE  offers'[f].reserved = Held(f)'
      <4>1. basket[o][f] \in Nat
        BY <3>3
      <4>2. offers[f].reserved >= basket[o][f]
        BY <3>4, <3>6, <4>1
      <4>3. offers'[f].reserved = offers[f].reserved - basket[o][f]
        BY <1>1, <3>3, <3>5, <4>2, ReservedAfter
      <4> QED
        BY <3>4, <3>6, <4>1, <4>3
    <3>7. IsFiniteSet(HoldingOrders')
      BY <1>2, <3>2, FS_RemoveElement
    <3> QED
      BY <3>6, <3>7
  <2>5. CASE /\ status[o] = "buyer_decision_pending"
             /\ t \in {"buyer_cancel", "operator_cancel"}
    <3>1. Queued(o, "order.declined")' /\ Queued(o, "order.cancelled")'
      BY <2>2, <2>5, QueuedStays, CommandQueued DEF StockInv
    <3>2. ~ NoneDeclinedThenCancelled'
      BY <3>1 DEF NoneDeclinedThenCancelled, DeclinedThenCancelled
    <3>3. HoldingOrders' = HoldingOrders
      BY <1>1, <2>2, <2>5, HoldingTable
         DEF HoldingOrders, Holding, OrderTypes, Returning
    <3> QED
      BY <1>2, <3>2, <3>3
  <2> QED
    BY <2>2, <2>3, <2>4, <2>5, HoldingTable
<1>6. CASE \/ Quiet
           \/ \E d \in Dispatchers, o \in OrderIds : Escalate(d, o)
           \/ \E d \in Dispatchers : MarkOverdue(d)
           \/ \E o \in OrderIds : SubmitRefundEvidence(o)
  <2>1. Quiet => UNCHANGED <<status, basket>> /\ ReservedStays
    BY DEF Quiet
  <2>2. ASSUME NEW d \in Dispatchers, NEW o \in OrderIds, Escalate(d, o)
        PROVE  UNCHANGED <<status, basket>> /\ ReservedStays
    BY <2>2 DEF Escalate, saleVars, ReservedStays
  <2>3. ASSUME NEW d \in Dispatchers, MarkOverdue(d)
        PROVE  UNCHANGED <<status, basket>> /\ ReservedStays
    BY <2>3 DEF MarkOverdue, saleVars, ReservedStays
  <2>4. ASSUME NEW o \in OrderIds, SubmitRefundEvidence(o)
        PROVE  UNCHANGED <<status, basket>> /\ ReservedStays
    BY <2>4 DEF SubmitRefundEvidence, orderVars, saleVars, ReservedStays
  <2>5. UNCHANGED <<status, basket>> /\ ReservedStays
    BY <1>6, <2>1, <2>2, <2>3, <2>4
  <2> QED
    BY <1>3, <2>5
<1> QED
  BY <1>4, <1>5, <1>6 DEF StepKind

\* At the start nothing is reserved and nobody holds.
LEMMA StockInvInit == Init => StockInv
<1> SUFFICES ASSUME Init PROVE StockInv
  OBVIOUS
<1>1. \A o \in OrderIds : status[o] = NotPlaced
  BY DEF Init
<1>2. HoldingOrders = {}
  BY <1>1, NotPlacedAssumption DEF HoldingOrders, Holding, Statuses
<1>3. ASSUME NEW f \in Offers PROVE offers[f].reserved = Held(f)
  <2>1. HeldBaskets(f) \in [HoldingOrders -> Nat]
    BY <1>2 DEF HeldBaskets
  <2>2. SumFunction(HeldBaskets(f)) = 0
    BY <1>2, <2>1, SumOfNothing
  <2> QED
    BY <2>2 DEF Init, Held, HeldBaskets
<1>4. \A o \in OrderIds : status[o] # "buyer_decision_pending"
  BY <1>1, NotPlacedAssumption DEF Statuses
<1> QED
  BY <1>2, <1>3, <1>4, FS_EmptySet DEF StockInv, StockMatchesOrders

\* Nothing leaks and nothing is given back twice: as long as no declined order was
\* cancelled, what AfterEdge and ReserveOfferQuantity leave reserved of an offer
\* is what the orders in progress took of it.
THEOREM StockMatches == Spec => []StockMatchesOrders
<1>1. TypeInv /\ TypeInv' /\ StockInv /\ [Next]_vars => StockInv'
  <2> SUFFICES ASSUME TypeInv, TypeInv', StockInv, [Next]_vars PROVE StockInv'
    OBVIOUS
  <2>1. StepKind
    BY StepKinds
  <2>2. /\ IsFiniteSet(HoldingOrders')
        /\ NoneDeclinedThenCancelled' =>
              ((\A f \in Offers : offers[f].reserved = Held(f))
                  => (\A f \in Offers : offers'[f].reserved = Held(f)'))
    BY <2>1, StockStep
  <2>3. \A o \in OrderIds : status'[o] = "buyer_decision_pending" =>
                               Queued(o, "order.declined")'
    BY <2>1, DeclinedStep
  <2>4. StockMatchesOrders'
    <3>1. SUFFICES ASSUME NoneDeclinedThenCancelled'
                   PROVE  \A f \in Offers : offers'[f].reserved = Held(f)'
      BY DEF StockMatchesOrders, NoneDeclinedThenCancelled
    <3>2. NoneDeclinedThenCancelled
      BY <2>1, <3>1, DoubleReleaseRemembered
    <3>3. \A f \in Offers : offers[f].reserved = Held(f)
      BY <3>2 DEF StockInv, StockMatchesOrders, NoneDeclinedThenCancelled
    <3> QED
      BY <2>2, <3>1, <3>3
  <2> QED
    BY <2>2, <2>3, <2>4 DEF StockInv
<1>2. StockInv => StockMatchesOrders
  BY DEF StockInv
<1> QED
  BY <1>1, <1>2, StockInvInit, TypeInvHolds, PTL DEF Spec

\* Overselling takes a declined order that was cancelled: without one, the live
\* orders fit in what the seller declared, however many reserve at once. (The
\* unconditional claim of reservation_race_integration_test.go is refuted by a
\* run; this is the part of it that ReserveOfferQuantity does deliver.)
THEOREM NothingOversold == Spec => [](NoneDeclinedThenCancelled => NeverOversold)
<1>1. ASSUME TypeInv, StockMatchesOrders, StockBounded, NoneDeclinedThenCancelled
      PROVE  NeverOversold
  <2>1. \A f \in Offers : offers[f].reserved = Held(f)
    BY <1>1 DEF StockMatchesOrders, NoneDeclinedThenCancelled
  <2>2. \A f \in Offers : offers[f].reserved <= offers[f].declared
    BY <1>1 DEF StockBounded, RowAllowed
  <2> QED
    BY <2>1, <2>2 DEF NeverOversold
<1>2. TypeInv /\ StockMatchesOrders /\ StockBounded
        => (NoneDeclinedThenCancelled => NeverOversold)
  BY <1>1
<1> QED
  BY <1>2, TypeInvHolds, StockMatches, StockStaysBounded, PTL

-----------------------------------------------------------------------------
(* The trade an order is. *)

\* Goods and money of an order in a status.
GoodsFor(s) ==
    CASE s = NotPlaced -> "none"
      [] s \in Holding -> "reserved"
      [] s = "closed" -> "sold"
      [] OTHER -> "back"
MoneyFor(s) ==
    CASE s = "closed" -> "earned"
      [] s = "refunded" -> "returned"
      [] OTHER -> IF s \in PaidFor THEN "held" ELSE "none"

\* What four tables say of an order's money is what its status says.
DealInv == \A o \in OrderIds : MoneyOf(o) = MoneyFor(status[o])

LEMMA DealInvHolds == Spec => []DealInv
<1>1. ASSUME PaymentFollowsOrder, ClosedIsBilledOnce, NEW o \in OrderIds
      PROVE  MoneyOf(o) = MoneyFor(status[o])
  <2>1. /\ status[o] = "closed" <=> \E i \in 1 .. Len(ledger) : ledger[i].order = o
        /\ status[o] \in PaidFor <=> One(payments[o], "paid")
        /\ status[o] = "refunded" <=> One(payments[o], "reversed")
    BY <1>1 DEF PaymentFollowsOrder, ClosedIsBilledOnce
  <2> QED
    BY <2>1 DEF MoneyOf, MoneyFor
<1>2. PaymentFollowsOrder /\ ClosedIsBilledOnce => DealInv
  BY <1>1 DEF DealInv
<1> QED
  BY <1>2, PaymentsFollowOrders, ClosedOrdersBilledOnce, PTL

\* One order moves and the others stay: one turn of the trade.
LEMMA OneTurns ==
    ASSUME DealInv, DealInv', NEW o \in OrderIds, NEW to,
           status[o] \notin Ended, status'[o] = to,
           \A p \in OrderIds : p # o => status'[p] = status[p]
    PROVE  /\ to \notin Ended =>
                 Bargain!Goes(o, <<GoodsFor(status[o]), MoneyFor(status[o])>>,
                                 <<GoodsFor(to), MoneyFor(to)>>)
           /\ to \in Ended =>
                 Bargain!Ends(o, <<GoodsFor(status[o]), MoneyFor(status[o])>>,
                                 <<GoodsFor(to), MoneyFor(to)>>)
<1> DEFINE g == [p \in OrderIds |-> GoodsOf(p)]
           m == [p \in OrderIds |-> MoneyOf(p)]
           e == {p \in OrderIds : status[p] \in Ended}
<1>1. /\ \A p \in OrderIds : GoodsOf(p) = GoodsFor(status[p])
      /\ \A p \in OrderIds : GoodsOf(p)' = GoodsFor(status'[p])
  BY DEF GoodsOf, GoodsFor
<1>2. /\ g = [p \in OrderIds |-> GoodsFor(status[p])]
      /\ g' = [p \in OrderIds |-> GoodsFor(status'[p])]
  BY <1>1
<1>3. /\ m = [p \in OrderIds |-> MoneyFor(status[p])]
      /\ m' = [p \in OrderIds |-> MoneyFor(status'[p])]
  BY DEF DealInv
<1>4. /\ g' = [g EXCEPT ![o] = GoodsFor(to)]
      /\ m' = [m EXCEPT ![o] = MoneyFor(to)]
      /\ g[o] = GoodsFor(status[o]) /\ m[o] = MoneyFor(status[o])
  <2> HIDE DEF g, m
  <2>1. \A p \in OrderIds :
           /\ GoodsFor(status'[p]) = IF p = o THEN GoodsFor(to) ELSE g[p]
           /\ MoneyFor(status'[p]) = IF p = o THEN MoneyFor(to) ELSE m[p]
    BY <1>2, <1>3
  <2> QED
    BY <1>2, <1>3, <2>1
<1>5. /\ o \notin e
      /\ to \notin Ended => e' = e
      /\ to \in Ended => e' = e \cup {o}
  OBVIOUS
<1> QED
  BY <1>4, <1>5 DEF Bargain!Goes, Bargain!Ends, Bargain!Turn

\* Nobody moves: the trade stands.
LEMMA NoneTurns ==
    ASSUME DealInv, DealInv',
           \A p \in OrderIds : /\ GoodsFor(status'[p]) = GoodsFor(status[p])
                               /\ MoneyFor(status'[p]) = MoneyFor(status[p])
                               /\ status'[p] \in Ended <=> status[p] \in Ended
    PROVE  UNCHANGED Bargain!vars
<1>1. /\ \A p \in OrderIds : GoodsOf(p) = GoodsFor(status[p])
      /\ \A p \in OrderIds : GoodsOf(p)' = GoodsFor(status'[p])
  BY DEF GoodsOf, GoodsFor
<1>2. \A p \in OrderIds : GoodsOf(p)' = GoodsOf(p) /\ MoneyOf(p)' = MoneyOf(p)
  BY <1>1 DEF DealInv
<1> QED
  BY <1>2 DEF Bargain!vars

\* Where an order stands as a trade, by its status.
LEMMA Standing ==
    /\ GoodsFor(NotPlaced) = "none" /\ MoneyFor(NotPlaced) = "none"
    /\ \A s \in {"created", "awaiting_payment", "payment_review"} :
          GoodsFor(s) = "reserved" /\ MoneyFor(s) = "none"
    /\ \A s \in {"paid", "preparing", "ready"} :
          GoodsFor(s) = "reserved" /\ MoneyFor(s) = "held"
    /\ \A s \in {"refund_requested", "refund_overdue"} :
          GoodsFor(s) = "back" /\ MoneyFor(s) = "held"
    /\ \A s \in {"buyer_decision_pending"} \cup Forgone :
          GoodsFor(s) = "back" /\ MoneyFor(s) = "none"
    /\ GoodsFor("closed") = "sold" /\ MoneyFor("closed") = "earned"
    /\ GoodsFor("refunded") = "back" /\ MoneyFor("refunded") = "returned"
<1>1. \A s \in Statuses : s # NotPlaced
  BY NotPlacedAssumption
<1> QED
  BY <1>1 DEF GoodsFor, MoneyFor, Holding, PaidFor, Forgone, Statuses

\* Each command is a turn of its order or leaves the trade as it stands.
LEMMA CommandTurns ==
    ASSUME TypeInv, DealInv, DealInv', NEW o \in OrderIds, NEW t \in Beginning,
           runTransition(o, t)
    PROVE  [Bargain!Next]_(Bargain!vars)
<1> DEFINE s == status[o]
           to == Destination(t)
<1>1. /\ s \notin Ended /\ status'[o] = to
      /\ \A p \in OrderIds : p # o => status'[p] = status[p]
  BY EndedIsClosedToCommands
     DEF runTransition, TransitionOrder, TypeInv, OrderTypes
<1>2. /\ to \notin Ended =>
            Bargain!Goes(o, <<GoodsFor(s), MoneyFor(s)>>, <<GoodsFor(to), MoneyFor(to)>>)
      /\ to \in Ended =>
            Bargain!Ends(o, <<GoodsFor(s), MoneyFor(s)>>, <<GoodsFor(to), MoneyFor(to)>>)
  BY <1>1, OneTurns
<1>3. \A from, end : Command(t, from, end) => s \in from /\ to = end
  BY Moves, <1>1
<1> HIDE DEF s, to
<1> USE DEF Ended
<1>4. CASE t \in {"supplier_confirm", "token_confirm", "reject_payment",
                  "submit_receipt", "start_preparing", "mark_ready",
                  "refund_overdue"}
  <2>1. \/ s \in {"created", "awaiting_payment", "payment_review"}
           /\ to \in {"awaiting_payment", "payment_review"}
        \/ s \in {"paid", "preparing"} /\ to \in {"preparing", "ready"}
        \/ s = "refund_requested" /\ to = "refund_overdue"
    BY <1>3, <1>4, CommandTable
  <2>2. /\ GoodsFor(to) = GoodsFor(s) /\ MoneyFor(to) = MoneyFor(s)
        /\ to \notin Ended
    BY <2>1, Standing
  <2> QED
    BY <1>1, <2>2, NoneTurns DEF s
<1>5. CASE t = "supplier_decline"
  <2>1. s = "created" /\ to = "buyer_decision_pending"
    BY <1>3, <1>5, CommandTable
  <2> QED
    BY <1>2, <2>1, Standing DEF Bargain!Next, Bargain!Decline
<1>6. CASE t \in {"buyer_cancel", "operator_cancel", "expire", "payment_expire"}
  <2>1. /\ s \in {"created", "buyer_decision_pending", "awaiting_payment",
                  "payment_review"}
        /\ to \in Forgone
    BY <1>3, <1>6, CommandTable DEF Forgone
  <2>2. /\ GoodsFor(s) \in {"reserved", "back"} /\ MoneyFor(s) = "none"
        /\ GoodsFor(to) = "back" /\ MoneyFor(to) = "none" /\ to \in Ended
    BY <2>1, Standing DEF Forgone
  <2> QED
    BY <1>2, <2>2 DEF Bargain!Next, Bargain!CallOff
<1>7. CASE t = "confirm_payment"
  <2>1. s = "payment_review" /\ to = "paid"
    BY <1>3, <1>7, CommandTable
  <2> QED
    BY <1>2, <2>1, Standing DEF Bargain!Next, Bargain!Pay
<1>8. CASE t \in {"confirm_pickup", "confirm_delivery"}
  <2>1. s \in {"ready", "paid"} /\ to = "closed"
    BY <1>3, <1>8, CommandTable
  <2> QED
    BY <1>2, <2>1, Standing DEF Bargain!Next, Bargain!HandOver
<1>9. CASE t = "refund_request"
  <2>1. s \in {"paid", "preparing", "ready"} /\ to = "refund_requested"
    BY <1>3, <1>9, CommandTable
  <2> QED
    BY <1>2, <2>1, Standing DEF Bargain!Next, Bargain!Withdraw
<1>10. CASE t = "confirm_refund"
  <2>1. s \in {"refund_requested", "refund_overdue"} /\ to = "refunded"
    BY <1>3, <1>10, CommandTable
  <2> QED
    BY <1>2, <2>1, Standing DEF Bargain!Next, Bargain!Return
<1> QED
  BY <1>4, <1>5, <1>6, <1>7, <1>8, <1>9, <1>10 DEF Beginning

\* The stores, with every command, sweep, failure and restart, carry out the
\* trade: each step is a turn of one order or leaves the trade as it stands.
\* (Repository.runTransition and the settlement port in its transaction.)
THEOREM OrdersKeepTheTrade == Spec => TradeKept
<1>1. Init => Bargain!Init
  <2> SUFFICES ASSUME Init PROVE Bargain!Init
    OBVIOUS
  <2>1. ASSUME NEW o \in OrderIds
        PROVE  GoodsOf(o) = "none" /\ MoneyOf(o) = "none" /\ status[o] \notin Ended
    <3>1. /\ status[o] = NotPlaced /\ Len(payments[o]) = 0 /\ Len(ledger) = 0
          /\ NotPlaced \notin Ended
      BY NotPlacedAssumption DEF Init, Ended, Statuses
    <3>2. /\ ~ \E i \in 1 .. Len(ledger) : ledger[i].order = o
          /\ ~ One(payments[o], "reversed") /\ ~ One(payments[o], "paid")
      BY <3>1 DEF One, Some
    <3>3. MoneyOf(o) = "none"
      BY <3>2 DEF MoneyOf
    <3>4. GoodsOf(o) = GoodsFor(NotPlaced)
      BY <3>1 DEF GoodsOf, GoodsFor
    <3> QED
      BY <3>1, <3>3, <3>4, Standing
  <2> QED
    BY <2>1 DEF Bargain!Init
<1>2. TypeInv /\ DealInv /\ DealInv' /\ [Next]_vars => [Bargain!Next]_(Bargain!vars)
  <2> SUFFICES ASSUME TypeInv, DealInv, DealInv', [Next]_vars
               PROVE  [Bargain!Next]_(Bargain!vars)
    OBVIOUS
  <2>1. CASE \E o \in OrderIds, b \in Baskets : Create(o, b)
    <3>1. PICK o \in OrderIds, b \in Baskets : Create(o, b)
      BY <2>1
    <3>2. /\ status[o] = NotPlaced /\ status'[o] = "created"
          /\ \A p \in OrderIds : p # o => status'[p] = status[p]
      BY <3>1 DEF Create, CreateOrder, TypeInv, OrderTypes
    <3>3. NotPlaced \notin Ended /\ "created" \notin Ended
      BY NotPlacedAssumption DEF Ended, Statuses
    <3>4. Bargain!Goes(o, <<"none", "none">>, <<"reserved", "none">>)
      BY <3>2, <3>3, OneTurns, Standing
    <3> QED
      BY <3>4 DEF Bargain!Next, Bargain!Reserve
  <2>2. CASE \E o \in OrderIds, t \in Beginning : Settled(o, t)
    BY <2>2, CommandTurns DEF Settled
  <2>3. CASE UNCHANGED status
    BY <2>3, NoneTurns
  <2> QED
    BY <2>1, <2>2, <2>3, StepKinds
       DEF StepKind, Quiet, Escalate, MarkOverdue, SubmitRefundEvidence, orderVars
<1> QED
  BY <1>1, <1>2, DealInvHolds, TypeInvHolds, PTL DEF Spec, TradeKept, Bargain!Spec
=============================================================================
