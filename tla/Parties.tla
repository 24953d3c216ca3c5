------------------------------- MODULE Parties -------------------------------
(***************************************************************************)
(* Who drives an order: the guards that stand before every command         *)
(* (internal/platform/authz, location/guard.go and the services of orders, *)
(* billing and trust), over one order of one store.  A command reads the   *)
(* order and asks the guard outside any transaction and applies its        *)
(* trigger later, when roles, owner accounts and the order itself may have *)
(* moved on.  The roles a caller has are those of its access token, read   *)
(* when the token was issued.                                              *)
(***************************************************************************)
EXTENDS OrderTable

CONSTANTS
    Users,
    Operators,      \* users with is_operator set, granted out of band
    NoUser,
    Requests        \* commands in flight

ASSUME PartiesAssumption == NoUser \notin Users /\ Operators \subseteq Users

VARIABLES
    owners,         \* per user, location.owners.status, "none" without a row
    roles,          \* per user, the roles of its access token
    storeOwner,     \* the user whose owner account has the store
    buyer,          \* orders.orders.buyer_id
    status,         \* orders.orders.status, "none" before the order
    said,           \* orders.order_events: the triggers applied, with the caller
    feedback,       \* trust.order_feedback: who left it
    requests        \* per command, its caller and trigger once authorised

vars == <<owners, roles, storeOwner, buyer, status, said, feedback, requests>>
accountVars == <<owners, roles, storeOwner>>
orderVars == <<buyer, status, said>>

-----------------------------------------------------------------------------
(* Commands. *)

SellerTriggers ==
    {"supplier_confirm", "supplier_decline", "confirm_payment",
     "reject_payment", "start_preparing", "mark_ready", "confirm_delivery"}
BuyerTriggers ==
    {"buyer_cancel", "submit_receipt", "confirm_pickup", "confirm_refund"}
SweeperTriggers == {"expire", "payment_expire", "refund_overdue"}

Commands == SellerTriggers \cup BuyerTriggers \cup {"refund_request", "feedback"}

Idle == [caller |-> NoUser, command |-> NoTrigger]

TypeOK ==
    /\ owners \in [Users -> {"none", "pending", "active", "blocked"}]
    /\ roles \in [Users -> SUBSET {"buyer", "seller", "operator"}]
    /\ storeOwner \in Users \cup {NoUser}
    /\ buyer \in Users \cup {NoUser}
    /\ status \in Statuses \cup {"none"}
    /\ said \subseteq (Triggers \X (Users \cup {NoUser}))
    /\ feedback \in Users \cup {NoUser}
    /\ requests \in [Requests -> [caller : Users \cup {NoUser},
                                  command : Commands \cup {NoTrigger}]]

Init ==
    /\ owners = [u \in Users |-> "none"]
    /\ roles = [u \in Users |-> {}]
    /\ storeOwner = NoUser
    /\ buyer = NoUser
    /\ status = "none"
    /\ said = {}
    /\ feedback = NoUser
    /\ requests = [r \in Requests |-> Idle]

-----------------------------------------------------------------------------
(* Accounts. *)

GetUserRoles(u) == (IF owners[u] = "active" THEN {"seller"} ELSE {})
                   \cup (IF u \in Operators THEN {"operator"} ELSE {})

rolesFor(u) == {"buyer"} \cup GetUserRoles(u)

\* A sign-in or a refresh gives the user a token with the roles of now.
SignIn(u) ==
    /\ roles' = [roles EXCEPT ![u] = rolesFor(u)]
    /\ UNCHANGED <<owners, storeOwner, orderVars, feedback, requests>>

Registered(u) == [owners EXCEPT ![u] = "pending"]

\* A second application, or a TIN already in use, is a conflict.
RegisterSeller(u) ==
    /\ roles[u] # {}
    /\ owners[u] = "none"
    /\ owners' = Registered(u)
    /\ UNCHANGED <<roles, storeOwner, orderVars, feedback, requests>>

\* Out of band: the account is verified, blocked or reinstated.
OwnerStatusChanges(u, to) ==
    /\ owners[u] # "none"
    /\ owners' = [owners EXCEPT ![u] = to]
    /\ UNCHANGED <<roles, storeOwner, orderVars, feedback, requests>>

\* Out of band: an owner account gets the store.
OpenStore(u) ==
    /\ storeOwner = NoUser
    /\ owners[u] = "active"
    /\ storeOwner' = u
    /\ UNCHANGED <<owners, roles, orderVars, feedback, requests>>

-----------------------------------------------------------------------------
(* Guards. *)

Require(u) == roles[u] # {}
Has(u, role) == role \in roles[u]
\* Slip: signed in is enough.
RequireAnyRole(u, role) == Require(u)

RequireRole(u, role) == Require(u) /\ Has(u, role)
EnsureSelf(u, user) == Require(u) /\ u = user

\* Ownership only, whatever the status of store and owner.
StoreBelongsToUser(u) == storeOwner = u

EnsureOwnsStore(u) ==
    /\ Require(u)
    /\ Has(u, "seller")
    /\ StoreBelongsToUser(u)

\* Summary finds the order; the rest is asked of the caller.
Summary == status # "none"

\* Slip: any seller may act for the store.
AnySeller(u) == Summary /\ Require(u) /\ Has(u, "seller")

sellerTransition(u) == Summary /\ EnsureOwnsStore(u)
authorizeBuyer(u) == Require(u) /\ Summary /\ EnsureSelf(u, buyer)

\* Slip: feedback is taken before the order is settled.
FeedbackWhenHandedOver(u) ==
    /\ Require(u) /\ Summary /\ EnsureSelf(u, buyer)
    /\ status \in {"ready", "closed"}

IsClosed == status = "closed"

\* trust.Service: the buyer of an order that is closed when it is read.
MayLeaveFeedback(u) ==
    /\ Require(u) /\ Summary /\ EnsureSelf(u, buyer)
    /\ IsClosed

Authorised(u, command) ==
    CASE command \in SellerTriggers -> sellerTransition(u)
      [] command \in BuyerTriggers -> authorizeBuyer(u)
      [] command = "refund_request" -> RequireRole(u, "operator") /\ Summary
      [] command = "feedback" -> MayLeaveFeedback(u)

-----------------------------------------------------------------------------
(* The order. *)

CreateOrder(u) ==
    /\ RequireRole(u, "buyer")
    /\ status = "none"
    /\ storeOwner # NoUser
    /\ owners[storeOwner] = "active"
    /\ status' = "created"
    /\ buyer' = u
    /\ UNCHANGED <<accountVars, said, feedback, requests>>

\* The service has read the order and the guard has let the caller through.
Authorise(r, u, command) ==
    /\ requests[r] = Idle
    /\ Authorised(u, command)
    /\ requests' = [requests EXCEPT ![r] = [caller |-> u, command |-> command]]
    /\ UNCHANGED <<accountVars, orderVars, feedback>>

AppendOrderEvent(trigger, caller) == said' = said \cup {<<trigger, caller>>}

\* The machine moves the order if the trigger is permitted now; the sale gate
\* is asked again before an invoice is issued.
Move(trigger, caller) ==
    /\ ChainPermitted(trigger, status)
    /\ Follow(trigger) = "issue_invoice" => owners[storeOwner] = "active"
    /\ status' = Destination(trigger)
    /\ AppendOrderEvent(trigger, caller)
    /\ UNCHANGED <<accountVars, buyer, feedback>>

Apply(r) ==
    /\ requests[r].command \in Triggers
    /\ Move(requests[r].command, requests[r].caller)
    /\ requests' = [requests EXCEPT ![r] = Idle]

\* The primary key refuses a second feedback of the order.
InsertFeedback(user) == feedback = NoUser /\ feedback' = user

CreateOrderFeedback(r) ==
    /\ requests[r].command = "feedback"
    /\ InsertFeedback(requests[r].caller)
    /\ requests' = [requests EXCEPT ![r] = Idle]
    /\ UNCHANGED <<accountVars, orderVars>>

\* A conflict, an error or the end of the server.
Refused(r) ==
    /\ requests[r] # Idle
    /\ requests' = [requests EXCEPT ![r] = Idle]
    /\ UNCHANGED <<accountVars, orderVars, feedback>>

\* The confirmation link asks for no sign-in: whoever holds it answers for the
\* store.
TokenConfirm ==
    /\ Summary
    /\ Move("token_confirm", NoUser)
    /\ UNCHANGED requests

SweeperMoves(trigger) ==
    /\ Summary
    /\ Move(trigger, NoUser)
    /\ UNCHANGED requests

-----------------------------------------------------------------------------
Next ==
    \/ \E u \in Users :
          \/ SignIn(u) \/ RegisterSeller(u) \/ OpenStore(u) \/ CreateOrder(u)
          \/ \E to \in {"active", "blocked"} : OwnerStatusChanges(u, to)
          \/ \E r \in Requests, command \in Commands : Authorise(r, u, command)
    \/ \E r \in Requests : Apply(r) \/ CreateOrderFeedback(r) \/ Refused(r)
    \/ TokenConfirm
    \/ \E trigger \in SweeperTriggers : SweeperMoves(trigger)

Spec == Init /\ [][Next]_vars
=============================================================================
