-------------------------------- MODULE Stock --------------------------------
(***************************************************************************)
(* The stock side of internal/modules/catalog: an offer row and the three  *)
(* guarded updates order lines make of it. A stock is a function from      *)
(* offers to rows; a basket gives the quantity an order takes of each      *)
(* offer, 0 for an offer it has no line for.                               *)
(***************************************************************************)
EXTENDS Integers

OfferStatuses == {"published", "hidden", "archived"}

OfferRows == [status : OfferStatuses, declared : Nat, reserved : Nat]

\* Slip: what is free is not looked at.
ReservableOnSale(offer, qty) == offer.status = "published"

\* ReserveOfferQuantity finds the row: the offer is on sale and free enough.
Reservable(offer, qty) ==
    /\ offer.status = "published"
    /\ offer.declared >= offer.reserved + qty

\* Every line must be held or the caller's transaction rolls back.
CanReserve(stock, basket) ==
    \A f \in DOMAIN stock : basket[f] > 0 => Reservable(stock[f], basket[f])

\* Slip: one unit a line, whatever its quantity.
ReserveUnitLines(stock, basket) ==
    [f \in DOMAIN stock |->
        [stock[f] EXCEPT !.reserved =
            stock[f].reserved + IF basket[f] > 0 THEN 1 ELSE 0]]

Reserve(stock, basket) ==
    [f \in DOMAIN stock |->
        [stock[f] EXCEPT !.reserved = stock[f].reserved + basket[f]]]

\* A release or a consumption of more than is reserved matches no row: it is
\* logged and the transition goes on.
ReleaseOfferQuantity(offer, qty) ==
    IF offer.reserved >= qty
    THEN [offer EXCEPT !.reserved = offer.reserved - qty]
    ELSE offer

ConsumeOfferQuantity(offer, qty) ==
    IF offer.reserved >= qty
    THEN [offer EXCEPT !.reserved = offer.reserved - qty,
                       !.declared = offer.declared - qty]
    ELSE offer

\* Slip: the guard of the release is lost.
ReleaseUnguarded(stock, basket) ==
    [f \in DOMAIN stock |->
        [stock[f] EXCEPT !.reserved = stock[f].reserved - basket[f]]]

Release(stock, basket) ==
    [f \in DOMAIN stock |-> ReleaseOfferQuantity(stock[f], basket[f])]

Consume(stock, basket) ==
    [f \in DOMAIN stock |-> ConsumeOfferQuantity(stock[f], basket[f])]

\* What a seller changes: the declared quantity, and whether it is on sale.
UpdateOfferValues(offer, qty) == [offer EXCEPT !.declared = qty]
UpdateOfferStatus(offer, visibility) == [offer EXCEPT !.status = visibility]

\* The CHECK constraint on catalog.offers.
RowAllowed(offer) == offer.reserved <= offer.declared
=============================================================================
