----------------------------- MODULE Settlement -----------------------------
(***************************************************************************)
(* The rows internal/modules/billing keeps for one order, as sequences of  *)
(* row statuses in the order of insertion, and the statements the          *)
(* settlement port runs on them inside the order's transaction.            *)
(***************************************************************************)
EXTENDS Naturals, Sequences

InvoiceStatuses == {"issued", "paid", "refunded", "voided"}
PaymentStatuses == {"created", "paid", "failed", "reversed"}
RefundStatuses == {"requested", "evidence_uploaded", "overdue", "refunded"}

\* Payments the unique index ux_payments_order_live lets exist only once.
LivePayments == {"created", "paid"}
OpenRefunds == {"requested", "evidence_uploaded", "overdue"}
\* Refunds that can still become overdue.
UndueRefunds == {"requested", "evidence_uploaded"}

Some(rows, statuses) == \E i \in 1 .. Len(rows) : rows[i] \in statuses

\* UPDATE ... SET status = to WHERE status IN from.
Restate(rows, from, to) ==
    [i \in 1 .. Len(rows) |-> IF rows[i] \in from THEN to ELSE rows[i]]

IssueInvoice(invoices) == Append(invoices, "issued")
MarkInvoicePaid(invoices) == Restate(invoices, {"issued"}, "paid")
MarkInvoiceRefunded(invoices) == Restate(invoices, {"paid"}, "refunded")
VoidCurrentInvoice(invoices) == Restate(invoices, {"issued"}, "voided")

CanRecordReceipt(payments) == ~Some(payments, LivePayments)
CreateManualPayment(payments) == Append(payments, "created")

CanSettle(payments) == Some(payments, {"created"})
\* Slip: every receipt of the order is decided again.
SettleEveryPayment(payments, verdict) ==
    Restate(payments, {"created", "failed"}, verdict)

SettleManualPayment(payments, verdict) ==
    Restate(payments, {"created"}, verdict)
FailLivePayment(payments) == Restate(payments, {"created"}, "failed")

\* Slip: the refund is settled and the payment stays applied.
KeepPaidPayment(payments) == payments

ReversePaidPayment(payments) == Restate(payments, {"paid"}, "reversed")

CreateRefund(refunds) == Append(refunds, "requested")
CanCompleteRefund(refunds) == Some(refunds, OpenRefunds)
CompleteRefund(refunds) == Restate(refunds, OpenRefunds, "refunded")

\* Evidence goes to the order's latest refund. The sweep marks the row it listed,
\* by id: the same one, since an order has one refund (RefundShape in OrdersProofs).
Latest(refunds, statuses) ==
    Len(refunds) > 0 /\ refunds[Len(refunds)] \in statuses
RestateLatest(refunds, to) == [refunds EXCEPT ![Len(refunds)] = to]
AttachRefundEvidence(refunds) == RestateLatest(refunds, "evidence_uploaded")
MarkRefundOverdue(refunds) == RestateLatest(refunds, "overdue")
=============================================================================
