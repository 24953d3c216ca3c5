-------------------------- MODULE PartiesProperties --------------------------
(***************************************************************************)
(* What an order's end says about who agreed to it.                        *)
(***************************************************************************)
EXTENDS Parties

Did(trigger, user) == <<trigger, user>> \in said
StoreSaid(trigger) == Did(trigger, storeOwner)
BuyerSaid(trigger) == Did(trigger, buyer)

\* No trade without both sides (the guards of service.go along the transition
\* table): an order closes only after its store confirmed it (or the link it
\* was sent did), its buyer filed a receipt, its store found the money, and
\* the buyer picked the goods up or the store delivered them.
BothSidesAgreed ==
    status = "closed" =>
        /\ StoreSaid("supplier_confirm") \/ Did("token_confirm", NoUser)
        /\ BuyerSaid("submit_receipt")
        /\ StoreSaid("confirm_payment")
        /\ BuyerSaid("confirm_pickup") \/ StoreSaid("confirm_delivery")

\* Money comes back on an operator's decision and is settled by the buyer
\* (service.go RequestRefund and ConfirmRefund), never by the store.
RefundAsDecided ==
    /\ status \in {"refund_requested", "refund_overdue", "refunded"} =>
          \E u \in Operators : Did("refund_request", u)
    /\ status = "refunded" => BuyerSaid("confirm_refund")

\* Feedback is of the buyer, about a trade that is closed and stays closed
\* (trust.Service reads the status outside the transaction that inserts).
FeedbackOnClosed ==
    feedback # NoUser => feedback = buyer /\ status = "closed"
=============================================================================
