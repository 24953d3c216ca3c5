----------------------------- MODULE PartiesProofs -----------------------------
(***************************************************************************)
(* Who agreed to what, for any users, operators and number of commands in  *)
(* flight. Caller and order are checked outside the transaction, so the    *)
(* invariant says what a check is still worth later: store and buyer of an *)
(* order never change, an operator stays one, and a closed order stays     *)
(* closed.                                                                 *)
(***************************************************************************)
EXTENDS PartiesProperties, TLAPS

Moved(t, from, to) ==
    /\ \A s : ChainPermitted(t, s) => s \in from
    /\ Destination(t) = to

\* Where the table lets each command begin and where it leaves the order.
LEMMA TableOfCommands ==
    /\ Moved("supplier_confirm", {"created"}, "awaiting_payment")
    /\ Moved("token_confirm", {"created"}, "awaiting_payment")
    /\ Moved("supplier_decline", {"created"}, "buyer_decision_pending")
    /\ Moved("confirm_payment", {"payment_review"}, "paid")
    /\ Moved("reject_payment", {"payment_review"}, "awaiting_payment")
    /\ Moved("start_preparing", {"paid"}, "preparing")
    /\ Moved("mark_ready", {"preparing"}, "ready")
    /\ Moved("confirm_delivery", {"ready", "paid"}, "closed")
    /\ Moved("buyer_cancel",
             {"created", "buyer_decision_pending", "awaiting_payment"},
             "cancelled_by_buyer_sla")
    /\ Moved("submit_receipt", {"awaiting_payment"}, "payment_review")
    /\ Moved("confirm_pickup", {"ready", "paid"}, "closed")
    /\ Moved("confirm_refund", {"refund_requested", "refund_overdue"}, "refunded")
    /\ Moved("refund_request", {"paid", "preparing", "ready"}, "refund_requested")
    /\ Moved("expire", {"created"}, "expired")
    /\ Moved("payment_expire", {"awaiting_payment"}, "expired")
    /\ Moved("refund_overdue", {"refund_requested"}, "refund_overdue")
<1> USE DEF Moved, ChainPermitted, Permits, Destination, HasFollow, Follow,
        transitionTable, Transition, Edge, Chained, Releasing, Consuming,
        NoTrigger, NoEvent
<1>1. Moved("supplier_confirm", {"created"}, "awaiting_payment")
    OBVIOUS
<1>2. Moved("token_confirm", {"created"}, "awaiting_payment")
    OBVIOUS
<1>3. Moved("supplier_decline", {"created"}, "buyer_decision_pending")
    OBVIOUS
<1>4. Moved("confirm_payment", {"payment_review"}, "paid")
    OBVIOUS
<1>5. Moved("reject_payment", {"payment_review"}, "awaiting_payment")
    OBVIOUS
<1>6. Moved("start_preparing", {"paid"}, "preparing")
    OBVIOUS
<1>7. Moved("mark_ready", {"preparing"}, "ready")
    OBVIOUS
<1>8. Moved("confirm_delivery", {"ready", "paid"}, "closed")
    OBVIOUS
<1>9. Moved("confirm_pickup", {"ready", "paid"}, "closed")
    OBVIOUS
<1>10. Moved("buyer_cancel",
             {"created", "buyer_decision_pending", "awaiting_payment"},
             "cancelled_by_buyer_sla")
    OBVIOUS
<1>11. Moved("submit_receipt", {"awaiting_payment"}, "payment_review")
    OBVIOUS
<1>12. Moved("confirm_refund",
             {"refund_requested", "refund_overdue"},
             "refunded")
    OBVIOUS
<1>13. Moved("refund_request",
             {"paid", "preparing", "ready"},
             "refund_requested")
    OBVIOUS
<1>14. Moved("refund_overdue", {"refund_requested"}, "refund_overdue")
    OBVIOUS
<1>15. Moved("expire", {"created"}, "expired")
    OBVIOUS
<1>16. Moved("payment_expire", {"awaiting_payment"}, "expired")
    OBVIOUS
<1> HIDE DEF Moved
<1> QED
    BY <1>1, <1>2, <1>3, <1>4, <1>5, <1>6, <1>7, <1>8, <1>9, <1>10, <1>11,
       <1>12, <1>13, <1>14, <1>15, <1>16

-----------------------------------------------------------------------------
(* The invariant. *)

Shape ==
    /\ requests \in [Requests -> [caller : Users \cup {NoUser},
                                  command : Commands \cup {NoTrigger}]]
    /\ status # "none" => storeOwner # NoUser
    /\ status = "none" => feedback = NoUser
    /\ \A u \in Users : "operator" \in roles[u] => u \in Operators
    /\ roles \in [Users -> SUBSET {"buyer", "seller", "operator"}]

\* What the check before a command is worth until the command is applied.
ChecksHold ==
    \A r \in Requests :
        LET command == requests[r].command
            caller == requests[r].caller
        IN  /\ command # NoTrigger => status # "none"
            /\ command \in SellerTriggers => caller = storeOwner
            /\ command \in BuyerTriggers \cup {"feedback"} => caller = buyer
            /\ command = "refund_request" => caller \in Operators
            /\ command = "feedback" => status = "closed"

Confirmed == StoreSaid("supplier_confirm") \/ Did("token_confirm", NoUser)

\* What was said, by the status it led to.
SaidSoFar ==
    /\ status \in {"awaiting_payment", "payment_review", "paid", "preparing",
                   "ready", "closed"} => Confirmed
    /\ status \in {"payment_review", "paid", "preparing", "ready", "closed"} =>
          BuyerSaid("submit_receipt")
    /\ status \in {"paid", "preparing", "ready", "closed"} =>
          StoreSaid("confirm_payment")
    /\ status = "closed" =>
          BuyerSaid("confirm_pickup") \/ StoreSaid("confirm_delivery")
    /\ status \in {"refund_requested", "refund_overdue", "refunded"} =>
          \E u \in Operators : Did("refund_request", u)
    /\ status = "refunded" => BuyerSaid("confirm_refund")

PartiesInv == Shape /\ ChecksHold /\ SaidSoFar /\ FeedbackOnClosed

LEMMA InvHoldsInitially == Init => PartiesInv
<1> SUFFICES ASSUME Init PROVE PartiesInv
    OBVIOUS
<1> USE PartiesAssumption DEF Init, NoTrigger
<1>1. Shape
    BY DEF Shape, Idle, Commands
<1>2. ChecksHold
    BY DEF ChecksHold, Idle, SellerTriggers, BuyerTriggers
<1>3. SaidSoFar /\ FeedbackOnClosed
    BY DEF SaidSoFar, FeedbackOnClosed
<1> QED
    BY <1>1, <1>2, <1>3 DEF PartiesInv

\* A move by one who may make it: the order comes from where the table says,
\* and what led there stays said.
LEMMA MoveKeepsWhatWasSaid ==
    ASSUME Shape, SaidSoFar, NEW t, NEW caller, Move(t, caller),
           \/ t \in SellerTriggers /\ caller = storeOwner
           \/ t \in BuyerTriggers /\ caller = buyer
           \/ t = "refund_request" /\ caller \in Operators
           \/ t \in SweeperTriggers
           \/ t = "token_confirm" /\ caller = NoUser
    PROVE  /\ SaidSoFar'
           /\ status # "closed" /\ status # "none" /\ status' # "none"
<1>1. /\ ChainPermitted(t, status)
      /\ status' = Destination(t)
      /\ said' = said \cup {<<t, caller>>}
      /\ UNCHANGED <<storeOwner, buyer>>
    BY DEF Move, AppendOrderEvent, accountVars
<1> USE <1>1 DEF SaidSoFar, Confirmed, StoreSaid, BuyerSaid, Did, Moved
<1>2. CASE t \in {"supplier_confirm", "token_confirm"}
    BY <1>2, TableOfCommands DEF SellerTriggers, BuyerTriggers, SweeperTriggers
<1>3. CASE t \in {"supplier_decline", "buyer_cancel"}
    BY <1>3, TableOfCommands
<1>4. CASE t = "submit_receipt"
    BY <1>4, TableOfCommands DEF SellerTriggers, BuyerTriggers, SweeperTriggers
<1>5. CASE t = "confirm_payment"
    BY <1>5, TableOfCommands DEF SellerTriggers, BuyerTriggers, SweeperTriggers
<1>6. CASE t = "reject_payment"
    BY <1>6, TableOfCommands
<1>7. CASE t \in {"start_preparing", "mark_ready"}
    BY <1>7, TableOfCommands
<1>8. CASE t = "confirm_delivery"
    BY <1>8, TableOfCommands DEF SellerTriggers, BuyerTriggers, SweeperTriggers
<1>9. CASE t = "confirm_pickup"
    BY <1>9, TableOfCommands DEF SellerTriggers, BuyerTriggers, SweeperTriggers
<1>10. CASE t = "refund_request"
    BY <1>10, TableOfCommands DEF SellerTriggers, BuyerTriggers, SweeperTriggers
<1>11. CASE t = "confirm_refund"
    BY <1>11, TableOfCommands DEF SellerTriggers, BuyerTriggers, SweeperTriggers
<1>12. CASE t \in SweeperTriggers
    BY <1>12, TableOfCommands DEF SweeperTriggers
<1> QED
    BY <1>2, <1>3, <1>4, <1>5, <1>6, <1>7, <1>8, <1>9, <1>10, <1>11, <1>12
    DEF SellerTriggers, BuyerTriggers

\* The order moves and the command that moved it, if any, is over.
LEMMA MoveKeepsInv ==
    ASSUME PartiesInv, NEW t, NEW caller, Move(t, caller),
           \/ t \in SellerTriggers /\ caller = storeOwner
           \/ t \in BuyerTriggers /\ caller = buyer
           \/ t = "refund_request" /\ caller \in Operators
           \/ t \in SweeperTriggers
           \/ t = "token_confirm" /\ caller = NoUser,
           \/ UNCHANGED requests
           \/ \E r \in Requests : requests' = [requests EXCEPT ![r] = Idle]
    PROVE  PartiesInv'
<1>1. /\ SaidSoFar'
      /\ status # "closed" /\ status # "none" /\ status' # "none"
    BY MoveKeepsWhatWasSaid DEF PartiesInv
<1>2. UNCHANGED <<owners, roles, storeOwner, buyer, feedback>>
    BY DEF Move, accountVars
<1>3. \A r \in Requests : requests'[r] = requests[r] \/ requests'[r] = Idle
    BY DEF PartiesInv, Shape
<1>4. requests' \in [Requests -> [caller : Users \cup {NoUser},
                                  command : Commands \cup {NoTrigger}]]
    BY DEF PartiesInv, Shape, Idle
<1>5. Shape'
    BY <1>1, <1>2, <1>4 DEF PartiesInv, Shape
<1>6. ChecksHold'
    BY <1>1, <1>2, <1>3 DEF PartiesInv, ChecksHold, Idle, NoTrigger,
       SellerTriggers, BuyerTriggers
<1>7. FeedbackOnClosed'
    BY <1>1, <1>2 DEF PartiesInv, FeedbackOnClosed
<1> QED
    BY <1>1, <1>5, <1>6, <1>7 DEF PartiesInv

\* The guards, as far as they are about the parties.
LEMMA GuardsAreSound ==
    ASSUME PartiesInv, NEW u \in Users, NEW command \in Commands,
           Authorised(u, command)
    PROVE  /\ status # "none"
           /\ command \in SellerTriggers => u = storeOwner
           /\ command \in BuyerTriggers \cup {"feedback"} => u = buyer
           /\ command = "refund_request" => u \in Operators
           /\ command = "feedback" => status = "closed"
<1> USE DEF Authorised
<1>1. CASE command \in SellerTriggers
    BY <1>1 DEF SellerTriggers, BuyerTriggers, sellerTransition, Summary,
       EnsureOwnsStore, StoreBelongsToUser
<1>2. CASE command \in BuyerTriggers
    BY <1>2 DEF SellerTriggers, BuyerTriggers, authorizeBuyer, Summary,
       EnsureSelf
<1>3. CASE command = "refund_request"
    BY <1>3 DEF SellerTriggers, BuyerTriggers, RequireRole, Has, Summary,
       PartiesInv, Shape
<1>4. CASE command = "feedback"
    BY <1>4 DEF SellerTriggers, BuyerTriggers, MayLeaveFeedback, Summary,
       EnsureSelf, IsClosed
<1> QED
    BY <1>1, <1>2, <1>3, <1>4 DEF Commands

\* Every step keeps the invariant.
LEMMA StepKeepsInv ==
    ASSUME PartiesInv, [Next]_vars
    PROVE  PartiesInv'
<1> USE PartiesAssumption
<1>1. ASSUME NEW u \in Users, SignIn(u)
      PROVE  PartiesInv'
    <2>1. UNCHANGED <<storeOwner, buyer, status, said, feedback, requests>>
        BY <1>1 DEF SignIn, orderVars
    <2>2. rolesFor(u) \subseteq {"buyer", "seller", "operator"}
        BY DEF rolesFor, GetUserRoles
    <2>3. "operator" \in rolesFor(u) => u \in Operators
        BY DEF rolesFor, GetUserRoles
    <2>4. Shape'
        BY <1>1, <2>1, <2>2, <2>3 DEF SignIn, PartiesInv, Shape
    <2>5. ChecksHold' /\ SaidSoFar' /\ FeedbackOnClosed'
        BY <2>1 DEF PartiesInv, ChecksHold, SaidSoFar, Confirmed, StoreSaid,
           BuyerSaid, Did, FeedbackOnClosed
    <2> QED
        BY <2>4, <2>5 DEF PartiesInv
<1>2. ASSUME UNCHANGED <<roles, storeOwner, buyer, status, said, feedback,
                         requests>>
      PROVE  PartiesInv'
    BY <1>2 DEF PartiesInv, Shape, ChecksHold, SaidSoFar, Confirmed, StoreSaid,
       BuyerSaid, Did, FeedbackOnClosed
<1>3. ASSUME NEW u \in Users, RegisterSeller(u)
      PROVE  PartiesInv'
    BY <1>2, <1>3 DEF RegisterSeller, orderVars
<1>4. ASSUME NEW u \in Users, NEW to, OwnerStatusChanges(u, to)
      PROVE  PartiesInv'
    BY <1>2, <1>4 DEF OwnerStatusChanges, orderVars
<1>5. ASSUME NEW u \in Users, OpenStore(u)
      PROVE  PartiesInv'
    <2>1. /\ storeOwner = NoUser /\ storeOwner' = u
          /\ UNCHANGED <<roles, buyer, status, said, feedback, requests>>
        BY <1>5 DEF OpenStore, orderVars
    <2>2. status = "none"
        BY <2>1 DEF PartiesInv, Shape
    <2>3. \A r \in Requests : requests[r].command = NoTrigger
        BY <2>2 DEF PartiesInv, ChecksHold
    <2>4. Shape'
        BY <2>1, <2>2 DEF PartiesInv, Shape
    <2>5. ChecksHold'
        BY <2>1, <2>3 DEF ChecksHold, NoTrigger, SellerTriggers, BuyerTriggers
    <2>6. SaidSoFar' /\ FeedbackOnClosed'
        BY <2>1, <2>2 DEF PartiesInv, SaidSoFar, FeedbackOnClosed
    <2> QED
        BY <2>4, <2>5, <2>6 DEF PartiesInv
<1>6. ASSUME NEW u \in Users, CreateOrder(u)
      PROVE  PartiesInv'
    <2>1. /\ status = "none" /\ status' = "created" /\ storeOwner # NoUser
          /\ UNCHANGED <<roles, storeOwner, said, feedback, requests>>
        BY <1>6 DEF CreateOrder, accountVars
    <2>2. \A r \in Requests : requests[r].command = NoTrigger
        BY <2>1 DEF PartiesInv, ChecksHold
    <2>3. Shape'
        BY <2>1 DEF PartiesInv, Shape
    <2>4. ChecksHold'
        BY <2>1, <2>2 DEF ChecksHold, NoTrigger, SellerTriggers, BuyerTriggers
    <2>5. SaidSoFar' /\ FeedbackOnClosed'
        BY <2>1 DEF PartiesInv, Shape, SaidSoFar, FeedbackOnClosed
    <2> QED
        BY <2>3, <2>4, <2>5 DEF PartiesInv
<1>7. ASSUME NEW r \in Requests, NEW u \in Users, NEW command \in Commands,
             Authorise(r, u, command)
      PROVE  PartiesInv'
    <2>1. /\ requests' = [requests EXCEPT ![r] =
                            [caller |-> u, command |-> command]]
          /\ UNCHANGED <<roles, storeOwner, buyer, status, said, feedback>>
          /\ Authorised(u, command)
        BY <1>7 DEF Authorise, accountVars, orderVars
    <2>2. /\ status # "none"
          /\ command \in SellerTriggers => u = storeOwner
          /\ command \in BuyerTriggers \cup {"feedback"} => u = buyer
          /\ command = "refund_request" => u \in Operators
          /\ command = "feedback" => status = "closed"
        BY <2>1, GuardsAreSound
    <2>3. Shape'
        BY <2>1 DEF PartiesInv, Shape
    <2>4. ChecksHold'
        BY <2>1, <2>2 DEF PartiesInv, Shape, ChecksHold
    <2>5. SaidSoFar' /\ FeedbackOnClosed'
        BY <2>1 DEF PartiesInv, SaidSoFar, Confirmed, StoreSaid, BuyerSaid,
           Did, FeedbackOnClosed
    <2> QED
        BY <2>3, <2>4, <2>5 DEF PartiesInv
<1>8. ASSUME NEW r \in Requests, Apply(r)
      PROVE  PartiesInv'
    <2> DEFINE t == requests[r].command
               caller == requests[r].caller
    <2>1. /\ Move(t, caller) /\ t \in Triggers
          /\ requests' = [requests EXCEPT ![r] = Idle]
        BY <1>8 DEF Apply
    <2>2. t \in Commands \ {"feedback"}
        <3>1. "none" \notin Triggers /\ "feedback" \notin Triggers
            BY DEF Triggers, transitionTable, Chained, Releasing, Consuming,
               Edge, Transition
        <3>2. t \in Commands \cup {"none"}
            BY DEF PartiesInv, Shape, NoTrigger
        <3> QED
            BY <2>1, <3>1, <3>2
    <2>3. \/ t \in SellerTriggers /\ caller = storeOwner
          \/ t \in BuyerTriggers /\ caller = buyer
          \/ t = "refund_request" /\ caller \in Operators
        BY <2>2 DEF PartiesInv, ChecksHold, Commands
    <2> HIDE DEF t, caller
    <2> QED
        BY <2>1, <2>3, MoveKeepsInv
<1>9. ASSUME NEW r \in Requests, CreateOrderFeedback(r)
      PROVE  PartiesInv'
    <2>1. /\ requests[r].command = "feedback"
          /\ feedback' = requests[r].caller
          /\ requests' = [requests EXCEPT ![r] = Idle]
          /\ UNCHANGED <<roles, storeOwner, buyer, status, said>>
        BY <1>9 DEF CreateOrderFeedback, InsertFeedback, accountVars, orderVars
    <2>2. feedback' = buyer /\ status = "closed"
        BY <2>1 DEF PartiesInv, ChecksHold
    <2>3. Shape'
        BY <2>1, <2>2 DEF PartiesInv, Shape, Idle
    <2>4. ChecksHold'
        BY <2>1 DEF PartiesInv, Shape, ChecksHold, Idle, NoTrigger,
           SellerTriggers, BuyerTriggers
    <2>5. SaidSoFar' /\ FeedbackOnClosed'
        BY <2>1, <2>2 DEF PartiesInv, SaidSoFar, Confirmed, StoreSaid,
           BuyerSaid, Did, FeedbackOnClosed
    <2> QED
        BY <2>3, <2>4, <2>5 DEF PartiesInv
<1>10. ASSUME NEW r \in Requests, Refused(r)
       PROVE  PartiesInv'
    <2>1. /\ requests' = [requests EXCEPT ![r] = Idle]
          /\ UNCHANGED <<roles, storeOwner, buyer, status, said, feedback>>
        BY <1>10 DEF Refused, accountVars, orderVars
    <2>2. Shape'
        BY <2>1 DEF PartiesInv, Shape, Idle
    <2>3. ChecksHold'
        BY <2>1 DEF PartiesInv, Shape, ChecksHold, Idle, NoTrigger,
           SellerTriggers, BuyerTriggers
    <2>4. SaidSoFar' /\ FeedbackOnClosed'
        BY <2>1 DEF PartiesInv, SaidSoFar, Confirmed, StoreSaid, BuyerSaid,
           Did, FeedbackOnClosed
    <2> QED
        BY <2>2, <2>3, <2>4 DEF PartiesInv
<1>11. CASE TokenConfirm
    BY <1>11, MoveKeepsInv DEF TokenConfirm
<1>12. ASSUME NEW trigger \in SweeperTriggers, SweeperMoves(trigger)
       PROVE  PartiesInv'
    BY <1>12, MoveKeepsInv DEF SweeperMoves
<1>13. CASE UNCHANGED vars
    BY <1>2, <1>13 DEF vars
<1> QED
    BY <1>1, <1>3, <1>4, <1>5, <1>6, <1>7, <1>8, <1>9, <1>10, <1>11, <1>12,
       <1>13 DEF Next

-----------------------------------------------------------------------------
(* The theorems. *)

\* The invariant holds throughout.
THEOREM PartiesInvariant == Spec => []PartiesInv
<1>1. Init => PartiesInv
    BY InvHoldsInitially
<1>2. PartiesInv /\ [Next]_vars => PartiesInv'
    BY StepKeepsInv
<1> QED
    BY <1>1, <1>2, PTL DEF Spec

\* An order closes only as its own store and its own buyer agreed, however
\* stale the roles and checks behind their commands (service.go, the guards).
THEOREM ClosesAsAgreed == Spec => []BothSidesAgreed
<1>1. PartiesInv => BothSidesAgreed
    BY DEF PartiesInv, SaidSoFar, Confirmed, BothSidesAgreed
<1> QED
    BY <1>1, PartiesInvariant, PTL

\* Money comes back only on an operator's decision and is settled by the buyer
\* (service.go RequestRefund, ConfirmRefund).
THEOREM RefundsAsDecided == Spec => []RefundAsDecided
<1>1. PartiesInv => RefundAsDecided
    BY DEF PartiesInv, SaidSoFar, RefundAsDecided
<1> QED
    BY <1>1, PartiesInvariant, PTL

\* Feedback is of the buyer of an order that is closed and stays so, although
\* trust reads the status outside its transaction.
THEOREM FeedbackIsOfTheBuyer == Spec => []FeedbackOnClosed
<1>1. PartiesInv => FeedbackOnClosed
    BY DEF PartiesInv
<1> QED
    BY <1>1, PartiesInvariant, PTL
=============================================================================
