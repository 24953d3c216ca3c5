------------------------------- MODULE Orders -------------------------------
(***************************************************************************)
(* The life of the orders of one store: the order aggregate                *)
(* (internal/modules/orders), the offers whose stock it holds              *)
(* (internal/modules/catalog), the invoices, payments, refunds and ledger  *)
(* rows each transition settles (internal/modules/billing), and the two    *)
(* deadline sweepers of cmd/dispatcher.                                    *)
(*                                                                         *)
(* A command is one database transaction under the order's row lock, so it *)
(* is one action. A sweeper reads a list outside any transaction and then  *)
(* acts on it order by order, so a pass is many actions with those of      *)
(* everyone else in between.                                               *)
(*                                                                         *)
(* Deadlines are the stages an order's clocks have reached, which is all   *)
(* the code compares them for. A repeated command finds its mutation       *)
(* receipt and changes nothing: it is a stuttering step here.              *)
(***************************************************************************)
EXTENDS OrderTable, Stock, Settlement, FiniteSets

CONSTANTS
    OrderIds,       \* orders that may be placed
    Offers,         \* offers of the store
    Baskets,        \* what a buyer may order: quantities by offer
    Dispatchers,    \* running copies of cmd/dispatcher
    Batch,          \* SweeperConfig.Batch and RefundSweepConfig.Batch
    FoundingFree,   \* foundingFreeOrders
    InitialStock,   \* declared quantity of each offer at the start
    MaxDeclared,    \* bound: quantities a seller may declare
    MaxPayments,    \* bound: receipts a buyer files for one order
    NoOrder,        \* no order
    NotPlaced       \* the status of an order that is not placed yet

ASSUME BasketsAssumption ==
    /\ Baskets \subseteq [Offers -> Nat]
    /\ \A b \in Baskets : \E f \in Offers : b[f] > 0
ASSUME BoundsAssumption ==
    /\ Batch \in Nat \ {0}
    /\ FoundingFree \in Nat
    /\ InitialStock \in Nat
    /\ MaxDeclared \in Nat
    /\ MaxPayments \in Nat
ASSUME NoOrderAssumption == NoOrder \notin OrderIds
ASSUME NotPlacedAssumption == NotPlaced \notin Statuses

VARIABLES
    status,         \* orders.status, or NotPlaced
    basket,         \* order_items: the quantities the order took
    outbox,         \* per order, the names of the events queued for it
    confirmation,   \* stage of supplier_confirmation_deadline
    paymentDue,     \* stage of payment_due_at
    token,          \* the order's confirm token
    escalated,      \* orders with a receipt under their escalation key
    offers,         \* catalog.offers
    sellerActive,   \* store and owner both active (the sale gate)
    invoices,       \* per order, statuses of its billing.invoices rows
    payments,       \* per order, statuses of its billing.payments rows
    refunds,        \* per order, statuses of its billing.refunds rows
    refundDue,      \* stage of the refund's due_at
    ledger,         \* the owner's billing.commission_ledger, in order
    orderSweep,     \* per dispatcher, where its order sweeper is
    refundSweep     \* per dispatcher, where its refund sweeper is

orderVars == <<status, basket, outbox>>
clockVars == <<confirmation, paymentDue, refundDue>>
billingVars == <<invoices, payments, refunds, ledger>>
sweepVars == <<orderSweep, refundSweep>>
saleVars == <<offers, sellerActive>>
vars == <<orderVars, clockVars, billingVars, sweepVars, saleVars, token,
          escalated>>

IdleOrderSweep == [phase |-> "idle", todo |-> {}, graced |-> {},
                   expiring |-> NoOrder]
IdleRefundSweep == [todo |-> {}, marking |-> NoOrder]

TypeOK ==
    /\ status \in [OrderIds -> Statuses \cup {NotPlaced}]
    /\ basket \in [OrderIds -> [Offers -> Nat]]
    /\ outbox \in [OrderIds -> Seq(Events)]
    /\ confirmation \in [OrderIds -> {"running", "due", "graced"}]
    /\ paymentDue \in [OrderIds -> {"unset", "running", "due"}]
    /\ token \in [OrderIds -> {"none", "live", "used"}]
    /\ escalated \subseteq OrderIds
    /\ offers \in [Offers -> OfferRows]
    /\ sellerActive \in BOOLEAN
    /\ invoices \in [OrderIds -> Seq(InvoiceStatuses)]
    /\ payments \in [OrderIds -> Seq(PaymentStatuses)]
    /\ refunds \in [OrderIds -> Seq(RefundStatuses)]
    /\ refundDue \in [OrderIds -> {"unset", "running", "due"}]
    /\ ledger \in Seq([order : OrderIds, free : BOOLEAN])
    /\ orderSweep \in [Dispatchers ->
          [phase : {"idle", "confirm", "payment"}, todo : SUBSET OrderIds,
           graced : SUBSET OrderIds, expiring : OrderIds \cup {NoOrder}]]
    /\ refundSweep \in [Dispatchers ->
          [todo : SUBSET OrderIds, marking : OrderIds \cup {NoOrder}]]

Init ==
    /\ status = [o \in OrderIds |-> NotPlaced]
    /\ basket = [o \in OrderIds |-> [f \in Offers |-> 0]]
    /\ outbox = [o \in OrderIds |-> << >>]
    /\ confirmation = [o \in OrderIds |-> "running"]
    /\ paymentDue = [o \in OrderIds |-> "unset"]
    /\ token = [o \in OrderIds |-> "none"]
    /\ escalated = {}
    /\ offers = [f \in Offers |-> [status |-> "published",
                                   declared |-> InitialStock, reserved |-> 0]]
    /\ sellerActive = TRUE
    /\ invoices = [o \in OrderIds |-> << >>]
    /\ payments = [o \in OrderIds |-> << >>]
    /\ refunds = [o \in OrderIds |-> << >>]
    /\ refundDue = [o \in OrderIds |-> "unset"]
    /\ ledger = << >>
    /\ orderSweep = [d \in Dispatchers |-> IdleOrderSweep]
    /\ refundSweep = [d \in Dispatchers |-> IdleRefundSweep]

-----------------------------------------------------------------------------
(* The machine: Repository.runTransition and transition. *)

TransitionOrder(o, trigger) ==
    status' = [status EXCEPT ![o] = Destination(trigger)]

\* What an edge does to the stock the order took.
AfterEdge(stock, o, trigger) ==
    LET edge == transitionTable[trigger]
        released == IF edge.releases THEN Release(stock, basket[o]) ELSE stock
    IN  IF edge.consumes THEN Consume(released, basket[o]) ELSE released

\* Slip: the follow-on edge moves the order and leaves the stock.
FirstEdgeStock(o, trigger) ==
    /\ ChainPermitted(trigger, status[o])
    /\ TransitionOrder(o, trigger)
    /\ outbox' = [outbox EXCEPT ![o] = outbox[o] \o EventsOf(trigger)]
    /\ offers' = AfterEdge(offers, o, trigger)
    /\ UNCHANGED <<basket, sellerActive>>

\* Slip: the status the order is in now is not looked at.
UncheckedTransition(o, trigger) ==
    /\ TransitionOrder(o, trigger)
    /\ outbox' = [outbox EXCEPT ![o] = outbox[o] \o EventsOf(trigger)]
    /\ offers' = AfterEdge(offers, o, trigger)
    /\ UNCHANGED <<basket, sellerActive>>

\* The status, event and stock writes of a command, its follow-on included;
\* a command the table does not permit is a conflict and changes nothing.
runTransition(o, trigger) ==
    /\ ChainPermitted(trigger, status[o])
    /\ TransitionOrder(o, trigger)
    /\ outbox' = [outbox EXCEPT ![o] = outbox[o] \o EventsOf(trigger)]
    /\ offers' = IF HasFollow(trigger)
                 THEN AfterEdge(AfterEdge(offers, o, trigger), o,
                                Follow(trigger))
                 ELSE AfterEdge(offers, o, trigger)
    /\ UNCHANGED <<basket, sellerActive>>

-----------------------------------------------------------------------------
(* Commands of buyers, sellers and operators. *)

CreateOrder(o) == status' = [status EXCEPT ![o] = "created"]
CreateOrderItems(o, b) == basket' = [basket EXCEPT ![o] = b]
CreateConfirmToken(o) == token' = [token EXCEPT ![o] = "live"]

\* Repository.Create: hold every line or roll back, then write the order, its
\* lines, its confirm token and its first event.
Create(o, b) ==
    /\ status[o] = NotPlaced
    /\ sellerActive
    /\ CanReserve(offers, b)
    /\ offers' = Reserve(offers, b)
    /\ CreateOrder(o)
    /\ CreateOrderItems(o, b)
    /\ CreateConfirmToken(o)
    /\ outbox' = [outbox EXCEPT ![o] = Append(outbox[o], "order.created")]
    /\ UNCHANGED <<clockVars, billingVars, sweepVars, sellerActive, escalated>>

\* The settlement port issues the payment document.
IssueDocument(o) ==
    /\ invoices' = [invoices EXCEPT ![o] = IssueInvoice(invoices[o])]
    /\ UNCHANGED <<payments, refunds, ledger>>

SetOrderPaymentDue(o) ==
    /\ paymentDue' = [paymentDue EXCEPT ![o] = "running"]
    /\ UNCHANGED <<confirmation, refundDue>>

\* issueInvoice, the settlement of the follow-on edge of a confirmation. The
\* sale gate refuses it for a store or owner out of service.
issueInvoice(o) ==
    /\ sellerActive
    /\ IssueDocument(o)
    /\ SetOrderPaymentDue(o)

SupplierConfirm(o) ==
    /\ runTransition(o, "supplier_confirm")
    /\ issueInvoice(o)
    /\ UNCHANGED <<sweepVars, token, escalated>>

\* A token that is used or past the confirmation deadline is gone.
ConsumeConfirmToken(o) ==
    /\ token[o] = "live"
    /\ confirmation[o] = "running"
    /\ token' = [token EXCEPT ![o] = "used"]

\* Repository.ConfirmToken: a refused transition leaves the token unused.
ConfirmToken(o) ==
    /\ ConsumeConfirmToken(o)
    /\ runTransition(o, "token_confirm")
    /\ issueInvoice(o)
    /\ UNCHANGED <<sweepVars, escalated>>

Decline(o) ==
    /\ runTransition(o, "supplier_decline")
    /\ UNCHANGED <<clockVars, billingVars, sweepVars, token, escalated>>

\* Slips: one of the two rows is forgotten.
CancelInvoiceOnly(o) ==
    /\ invoices' = [invoices EXCEPT ![o] = VoidCurrentInvoice(invoices[o])]
    /\ UNCHANGED <<payments, refunds, ledger>>
CancelPaymentOnly(o) ==
    /\ payments' = [payments EXCEPT ![o] = FailLivePayment(payments[o])]
    /\ UNCHANGED <<invoices, refunds, ledger>>

CancelSettlement(o) ==
    /\ invoices' = [invoices EXCEPT ![o] = VoidCurrentInvoice(invoices[o])]
    /\ payments' = [payments EXCEPT ![o] = FailLivePayment(payments[o])]
    /\ UNCHANGED <<refunds, ledger>>

Cancel(o) ==
    /\ runTransition(o, "buyer_cancel")
    /\ CancelSettlement(o)
    /\ UNCHANGED <<clockVars, sweepVars, token, escalated>>

OperatorCancel(o) ==
    /\ runTransition(o, "operator_cancel")
    /\ CancelSettlement(o)
    /\ UNCHANGED <<clockVars, sweepVars, token, escalated>>

\* The unique index refuses a second live payment.
RecordPaymentReceipt(o) ==
    /\ CanRecordReceipt(payments[o])
    /\ payments' = [payments EXCEPT ![o] = CreateManualPayment(payments[o])]
    /\ UNCHANGED <<invoices, refunds, ledger>>

SubmitPaymentReceipt(o) ==
    /\ Len(payments[o]) < MaxPayments
    /\ runTransition(o, "submit_receipt")
    /\ RecordPaymentReceipt(o)
    /\ UNCHANGED <<clockVars, sweepVars, token, escalated>>

\* The seller's verdict on the receipt; a paid one settles the document too.
SettlePayment(o, verdict) ==
    /\ CanSettle(payments[o])
    /\ payments' =
          [payments EXCEPT ![o] = SettleManualPayment(payments[o], verdict)]
    /\ invoices' = IF verdict = "paid"
                   THEN [invoices EXCEPT ![o] = MarkInvoicePaid(invoices[o])]
                   ELSE invoices
    /\ UNCHANGED <<refunds, ledger>>

ConfirmPayment(o) ==
    /\ runTransition(o, "confirm_payment")
    /\ SettlePayment(o, "paid")
    /\ UNCHANGED <<clockVars, sweepVars, token, escalated>>

\* The payment deadline is not moved: a rejected receipt may already be late.
RejectPayment(o) ==
    /\ runTransition(o, "reject_payment")
    /\ SettlePayment(o, "failed")
    /\ UNCHANGED <<clockVars, sweepVars, token, escalated>>

StartPreparing(o) ==
    /\ runTransition(o, "start_preparing")
    /\ UNCHANGED <<clockVars, billingVars, sweepVars, token, escalated>>

MarkReady(o) ==
    /\ runTransition(o, "mark_ready")
    /\ UNCHANGED <<clockVars, billingVars, sweepVars, token, escalated>>

\* Slip: a discounted order is not entered at all.
AccrueChargedOnly(o) ==
    /\ ledger' = IF Len(ledger) + 1 <= FoundingFree THEN ledger
                 ELSE Append(ledger, [order |-> o, free |-> FALSE])
    /\ UNCHANGED <<invoices, payments, refunds>>

\* accrueCommission bills the owner whether or not it still trades; one ledger
\* row an order, the first FoundingFree of an owner discounted in full.
AccrueCommission(o) ==
    /\ \A i \in 1 .. Len(ledger) : ledger[i].order # o
    /\ ledger' = Append(ledger, [order |-> o,
                                 free |-> Len(ledger) + 1 <= FoundingFree])
    /\ UNCHANGED <<invoices, payments, refunds>>

ConfirmPickup(o) ==
    /\ runTransition(o, "confirm_pickup")
    /\ AccrueCommission(o)
    /\ UNCHANGED <<clockVars, sweepVars, token, escalated>>

ConfirmDelivery(o) ==
    /\ runTransition(o, "confirm_delivery")
    /\ AccrueCommission(o)
    /\ UNCHANGED <<clockVars, sweepVars, token, escalated>>

OpenRefund(o) ==
    /\ refunds' = [refunds EXCEPT ![o] = CreateRefund(refunds[o])]
    /\ refundDue' = [refundDue EXCEPT ![o] = "running"]
    /\ UNCHANGED <<invoices, payments, ledger, confirmation, paymentDue>>

RequestRefund(o) ==
    /\ runTransition(o, "refund_request")
    /\ OpenRefund(o)
    /\ UNCHANGED <<sweepVars, token, escalated>>

\* billing.Repository.SubmitRefundEvidence: the order does not move.
SubmitRefundEvidence(o) ==
    /\ Latest(refunds[o], {"requested"})
    /\ refunds' =
          [refunds EXCEPT ![o] = AttachRefundEvidence(refunds[o])]
    /\ UNCHANGED <<orderVars, saleVars, clockVars, invoices, payments, ledger,
                   sweepVars, token, escalated>>

\* The port closes the refund, the payment and the document together.
SettleRefund(o) ==
    /\ CanCompleteRefund(refunds[o])
    /\ refunds' = [refunds EXCEPT ![o] = CompleteRefund(refunds[o])]
    /\ payments' = [payments EXCEPT ![o] = ReversePaidPayment(payments[o])]
    /\ invoices' = [invoices EXCEPT ![o] = MarkInvoiceRefunded(invoices[o])]
    /\ UNCHANGED ledger

ConfirmRefund(o) ==
    /\ runTransition(o, "confirm_refund")
    /\ SettleRefund(o)
    /\ UNCHANGED <<clockVars, sweepVars, token, escalated>>

\* catalog.Repository.UpdateOffer: a declared quantity below what is reserved
\* fails the CHECK constraint and the whole update.
UpdateOffer(f, qty, visibility) ==
    /\ offers' = [offers EXCEPT ![f] =
          UpdateOfferStatus(UpdateOfferValues(offers[f], qty), visibility)]
    /\ RowAllowed(offers'[f])
    /\ UNCHANGED <<orderVars, sellerActive, clockVars, billingVars, sweepVars,
                   token, escalated>>

\* The store or its owner is suspended or reinstated, outside this code.
SellerStatusChanges ==
    /\ sellerActive' = ~sellerActive
    /\ UNCHANGED <<orderVars, offers, clockVars, billingVars, sweepVars, token,
                   escalated>>

-----------------------------------------------------------------------------
(* The passing of time, while somebody may still look at the deadline. *)

ConfirmationDeadlinePasses(o) ==
    /\ status[o] = "created"
    /\ confirmation[o] # "graced"
    /\ confirmation' = [confirmation EXCEPT ![o] =
          IF confirmation[o] = "running" THEN "due" ELSE "graced"]
    /\ UNCHANGED <<orderVars, saleVars, paymentDue, refundDue, billingVars,
                   sweepVars, token, escalated>>

PaymentDeadlinePasses(o) ==
    /\ status[o] \in {"awaiting_payment", "payment_review"}
    /\ paymentDue[o] = "running"
    /\ paymentDue' = [paymentDue EXCEPT ![o] = "due"]
    /\ UNCHANGED <<orderVars, saleVars, confirmation, refundDue, billingVars,
                   sweepVars, token, escalated>>

RefundDeadlinePasses(o) ==
    /\ Some(refunds[o], UndueRefunds)
    /\ refundDue[o] = "running"
    /\ refundDue' = [refundDue EXCEPT ![o] = "due"]
    /\ UNCHANGED <<orderVars, saleVars, confirmation, paymentDue, billingVars,
                   sweepVars, token, escalated>>

-----------------------------------------------------------------------------
(* The order sweeper, Sweeper.RunOnce. *)

\* A page of at most Batch of the orders that are due.
Page(due, todo) ==
    /\ todo \subseteq due
    /\ Cardinality(todo) =
          IF Cardinality(due) < Batch THEN Cardinality(due) ELSE Batch

AwaitingConfirmation ==
    {o \in OrderIds : status[o] = "created" /\ confirmation[o] # "running"}

\* Slip: an order with a rejected receipt is no longer looked for.
NeverPaidOverdue ==
    {o \in OrderIds : /\ status[o] = "awaiting_payment"
                      /\ paymentDue[o] = "due"
                      /\ payments[o] = << >>}

PaymentOverdue ==
    {o \in OrderIds : status[o] = "awaiting_payment" /\ paymentDue[o] = "due"}

SweepStep(d, sweep) == orderSweep' = [orderSweep EXCEPT ![d] = sweep]

\* The pass is done with an order of its list.
Dropped(d, o) == [orderSweep[d] EXCEPT !.todo = orderSweep[d].todo \ {o},
                                       !.graced = orderSweep[d].graced \ {o}]

\* A pass starts from a list; its clock reading fixes who is past the grace.
ListAwaitingConfirmation(d) ==
    /\ orderSweep[d].phase = "idle"
    /\ \E todo \in SUBSET OrderIds :
          /\ Page(AwaitingConfirmation, todo)
          /\ SweepStep(d, [phase |-> "confirm", todo |-> todo,
                           graced |-> {o \in todo : confirmation[o] = "graced"},
                           expiring |-> NoOrder])
    /\ UNCHANGED <<orderVars, saleVars, clockVars, billingVars, refundSweep,
                   token, escalated>>

\* Slips: no receipt is looked for; an order with a receipt is passed over.
EscalateAgain(d, o) ==
    /\ orderSweep[d].phase = "confirm"
    /\ orderSweep[d].expiring = NoOrder
    /\ o \in orderSweep[d].todo
    /\ escalated' = escalated \cup {o}
    /\ outbox' = [outbox EXCEPT ![o] = Append(outbox[o], "order.sla_escalated")]
    /\ SweepStep(d, [Dropped(d, o) EXCEPT
          !.expiring = IF o \in orderSweep[d].graced THEN o ELSE NoOrder])
    /\ UNCHANGED <<status, basket, saleVars, clockVars, billingVars,
                   refundSweep, token>>
EscalateThenSkip(d, o) ==
    /\ orderSweep[d].phase = "confirm"
    /\ orderSweep[d].expiring = NoOrder
    /\ o \in orderSweep[d].todo
    /\ escalated' = escalated \cup {o}
    /\ outbox' = IF o \in escalated THEN outbox
                 ELSE [outbox EXCEPT ![o] =
                          Append(outbox[o], "order.sla_escalated")]
    /\ SweepStep(d, [Dropped(d, o) EXCEPT
          !.expiring = IF o \in orderSweep[d].graced \ escalated
                       THEN o ELSE NoOrder])
    /\ UNCHANGED <<status, basket, saleVars, clockVars, billingVars,
                   refundSweep, token>>

\* RecordEscalation, for an order the list named: a receipt and an event,
\* whatever has become of the order since. Then the order may be expired.
Escalate(d, o) ==
    /\ orderSweep[d].phase = "confirm"
    /\ orderSweep[d].expiring = NoOrder
    /\ o \in orderSweep[d].todo
    /\ escalated' = escalated \cup {o}
    /\ outbox' = IF o \in escalated THEN outbox
                 ELSE [outbox EXCEPT ![o] =
                          Append(outbox[o], "order.sla_escalated")]
    /\ SweepStep(d, [Dropped(d, o) EXCEPT
          !.expiring = IF o \in orderSweep[d].graced THEN o ELSE NoOrder])
    /\ UNCHANGED <<status, basket, saleVars, clockVars, billingVars,
                   refundSweep, token>>

\* The escalation fails: the order waits for the next pass.
EscalationFails(d, o) ==
    /\ orderSweep[d].phase = "confirm"
    /\ orderSweep[d].expiring = NoOrder
    /\ o \in orderSweep[d].todo
    /\ SweepStep(d, Dropped(d, o))
    /\ UNCHANGED <<orderVars, saleVars, clockVars, billingVars, refundSweep,
                   token, escalated>>

Expire(d) ==
    /\ orderSweep[d].expiring # NoOrder
    /\ runTransition(orderSweep[d].expiring, "expire")
    /\ SweepStep(d, [orderSweep[d] EXCEPT !.expiring = NoOrder])
    /\ UNCHANGED <<clockVars, billingVars, refundSweep, token, escalated>>

\* The order has moved on, or the database failed: either way the pass goes on.
ExpiryNotApplied(d) ==
    /\ orderSweep[d].expiring # NoOrder
    /\ SweepStep(d, [orderSweep[d] EXCEPT !.expiring = NoOrder])
    /\ UNCHANGED <<orderVars, saleVars, clockVars, billingVars, refundSweep,
                   token, escalated>>

ListPaymentOverdue(d) ==
    /\ orderSweep[d].phase = "confirm"
    /\ orderSweep[d].todo = {}
    /\ orderSweep[d].expiring = NoOrder
    /\ \E todo \in SUBSET OrderIds :
          /\ Page(PaymentOverdue, todo)
          /\ SweepStep(d, [phase |-> "payment", todo |-> todo, graced |-> {},
                           expiring |-> NoOrder])
    /\ UNCHANGED <<orderVars, saleVars, clockVars, billingVars, refundSweep,
                   token, escalated>>

PaymentExpire(d, o) ==
    /\ orderSweep[d].phase = "payment"
    /\ o \in orderSweep[d].todo
    /\ runTransition(o, "payment_expire")
    /\ CancelSettlement(o)
    /\ SweepStep(d, Dropped(d, o))
    /\ UNCHANGED <<clockVars, refundSweep, token, escalated>>

PaymentExpiryNotApplied(d, o) ==
    /\ orderSweep[d].phase = "payment"
    /\ o \in orderSweep[d].todo
    /\ SweepStep(d, Dropped(d, o))
    /\ UNCHANGED <<orderVars, saleVars, clockVars, billingVars, refundSweep,
                   token, escalated>>

EndOrderSweep(d) ==
    /\ orderSweep[d].phase = "payment"
    /\ orderSweep[d].todo = {}
    /\ SweepStep(d, IdleOrderSweep)
    /\ UNCHANGED <<orderVars, saleVars, clockVars, billingVars, refundSweep,
                   token, escalated>>

-----------------------------------------------------------------------------
(* The refund sweeper, RefundSweeper.RunOnce: the order first, then the refund. *)

RefundsDue ==
    {o \in OrderIds : Some(refunds[o], UndueRefunds) /\ refundDue[o] = "due"}

RefundStep(d, sweep) == refundSweep' = [refundSweep EXCEPT ![d] = sweep]

ListRefundsDue(d) ==
    /\ refundSweep[d] = IdleRefundSweep
    /\ \E todo \in SUBSET OrderIds :
          /\ todo # {}
          /\ Page(RefundsDue, todo)
          /\ RefundStep(d, [todo |-> todo, marking |-> NoOrder])
    /\ UNCHANGED <<orderVars, saleVars, clockVars, billingVars, orderSweep,
                   token, escalated>>

\* Module.RefundOverdue moves the order.
OrderOverdue(d, o) ==
    /\ refundSweep[d].marking = NoOrder
    /\ o \in refundSweep[d].todo
    /\ runTransition(o, "refund_overdue")
    /\ RefundStep(d, [todo |-> refundSweep[d].todo \ {o}, marking |-> o])
    /\ UNCHANGED <<clockVars, billingVars, orderSweep, token, escalated>>

\* Slip: the conflict counts as a failure and the refund is left for later.
OrderMovedSkipsRefund(d, o) ==
    /\ refundSweep[d].marking = NoOrder
    /\ o \in refundSweep[d].todo
    /\ ~ChainPermitted("refund_overdue", status[o])
    /\ RefundStep(d, [refundSweep[d] EXCEPT !.todo = refundSweep[d].todo \ {o}])
    /\ UNCHANGED <<orderVars, saleVars, clockVars, billingVars, orderSweep,
                   token, escalated>>

\* An order that already moved on is no error: the refund is still looked at.
OrderAlreadyMoved(d, o) ==
    /\ refundSweep[d].marking = NoOrder
    /\ o \in refundSweep[d].todo
    /\ ~ChainPermitted("refund_overdue", status[o])
    /\ RefundStep(d, [todo |-> refundSweep[d].todo \ {o}, marking |-> o])
    /\ UNCHANGED <<orderVars, saleVars, clockVars, billingVars, orderSweep,
                   token, escalated>>

\* Slip: the refund is marked although the order did not move.
OrderFailsRefundGoesOn(d, o) ==
    /\ refundSweep[d].marking = NoOrder
    /\ o \in refundSweep[d].todo
    /\ RefundStep(d, [todo |-> refundSweep[d].todo \ {o}, marking |-> o])
    /\ UNCHANGED <<orderVars, saleVars, clockVars, billingVars, orderSweep,
                   token, escalated>>

\* The order's transition fails: the refund waits for the next pass.
OrderOverdueFails(d, o) ==
    /\ refundSweep[d].marking = NoOrder
    /\ o \in refundSweep[d].todo
    /\ RefundStep(d, [refundSweep[d] EXCEPT !.todo = refundSweep[d].todo \ {o}])
    /\ UNCHANGED <<orderVars, saleVars, clockVars, billingVars, orderSweep,
                   token, escalated>>

\* Slip: the event is queued whether the update found its refund or not.
MarkOverdueUnseen(d) ==
    LET o == refundSweep[d].marking IN
    /\ o # NoOrder
    /\ refunds' = IF Latest(refunds[o], UndueRefunds)
                  THEN [refunds EXCEPT ![o] = MarkRefundOverdue(refunds[o])]
                  ELSE refunds
    /\ outbox' = [outbox EXCEPT ![o] =
                     Append(outbox[o], "refund.became_overdue")]
    /\ RefundStep(d, [refundSweep[d] EXCEPT !.marking = NoOrder])
    /\ UNCHANGED <<status, basket, saleVars, clockVars, invoices, payments,
                   ledger, orderSweep, token, escalated>>

MarkOverdue(d) ==
    LET o == refundSweep[d].marking IN
    /\ o # NoOrder
    /\ Latest(refunds[o], UndueRefunds)
    /\ refunds' = [refunds EXCEPT ![o] = MarkRefundOverdue(refunds[o])]
    /\ outbox' = [outbox EXCEPT ![o] =
                     Append(outbox[o], "refund.became_overdue")]
    /\ RefundStep(d, [refundSweep[d] EXCEPT !.marking = NoOrder])
    /\ UNCHANGED <<status, basket, saleVars, clockVars, invoices, payments,
                   ledger, orderSweep, token, escalated>>

\* The refund settled meanwhile, or the database failed.
OverdueNotMarked(d) ==
    /\ refundSweep[d].marking # NoOrder
    /\ RefundStep(d, [refundSweep[d] EXCEPT !.marking = NoOrder])
    /\ UNCHANGED <<orderVars, saleVars, clockVars, billingVars, orderSweep,
                   token, escalated>>

\* The dispatcher dies between any two steps and starts over.
DispatcherRestarts(d) ==
    /\ orderSweep' = [orderSweep EXCEPT ![d] = IdleOrderSweep]
    /\ refundSweep' = [refundSweep EXCEPT ![d] = IdleRefundSweep]
    /\ UNCHANGED <<orderVars, saleVars, clockVars, billingVars, token,
                   escalated>>

-----------------------------------------------------------------------------
BuyerStep(o) ==
    \/ \E b \in Baskets : Create(o, b)
    \/ Cancel(o)
    \/ SubmitPaymentReceipt(o)
    \/ ConfirmPickup(o)
    \/ ConfirmRefund(o)

SellerStep(o) ==
    \/ SupplierConfirm(o)
    \/ ConfirmToken(o)
    \/ Decline(o)
    \/ ConfirmPayment(o)
    \/ RejectPayment(o)
    \/ StartPreparing(o)
    \/ MarkReady(o)
    \/ ConfirmDelivery(o)
    \/ SubmitRefundEvidence(o)

OperatorStep(o) == OperatorCancel(o) \/ RequestRefund(o)

TimeStep(o) ==
    \/ ConfirmationDeadlinePasses(o)
    \/ PaymentDeadlinePasses(o)
    \/ RefundDeadlinePasses(o)

OrderSweepStep(d) ==
    \/ ListAwaitingConfirmation(d)
    \/ \E o \in OrderIds : Escalate(d, o) \/ EscalationFails(d, o)
    \/ Expire(d)
    \/ ExpiryNotApplied(d)
    \/ ListPaymentOverdue(d)
    \/ \E o \in OrderIds : PaymentExpire(d, o) \/ PaymentExpiryNotApplied(d, o)
    \/ EndOrderSweep(d)

RefundSweepStep(d) ==
    \/ ListRefundsDue(d)
    \/ \E o \in OrderIds : OrderOverdue(d, o) \/ OrderAlreadyMoved(d, o)
                           \/ OrderOverdueFails(d, o)
    \/ MarkOverdue(d)
    \/ OverdueNotMarked(d)

Next ==
    \/ \E o \in OrderIds : BuyerStep(o) \/ SellerStep(o) \/ OperatorStep(o)
                           \/ TimeStep(o)
    \/ \E f \in Offers, qty \in 0 .. MaxDeclared,
          visibility \in {"published", "hidden"} :
             UpdateOffer(f, qty, visibility)
    \/ SellerStatusChanges
    \/ \E d \in Dispatchers : OrderSweepStep(d) \/ RefundSweepStep(d)
                              \/ DispatcherRestarts(d)

Spec == Init /\ [][Next]_vars
=============================================================================
