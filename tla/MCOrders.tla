------------------------------ MODULE MCOrders ------------------------------
(* Small stores for TLC. *)
EXTENDS OrdersProperties, TLC

\* One line of one unit of any one offer.
SingleUnits == {[f \in Offers |-> IF f = g THEN 1 ELSE 0] : g \in Offers}

\* Every basket of up to two units of each offer.
UpToTwo == {b \in [Offers -> 0 .. 2] : \E f \in Offers : b[f] > 0}

Symmetry == Permutations(OrderIds) \cup Permutations(Dispatchers)
=============================================================================
