---------------------------- MODULE MCCommission ----------------------------
(* Owners, orders and lines for TLC. *)
EXTENDS CommissionProperties, TLC

CONSTANTS o1, o2, o3, w1, w2

\* Two orders of one owner and one of another.
TwoOwners == (o1 :> w1) @@ (o2 :> w1) @@ (o3 :> w2)

LineOf(amount, bps) == [amount |-> amount, bps |-> bps]

\* Halves and just less than halves, a free line and a line that is all fee.
SmallLines ==
    (o1 :> <<LineOf(20, 250), LineOf(100, 249)>>)
    @@ (o2 :> <<LineOf(3, 10000), LineOf(7, 0)>>)
    @@ (o3 :> <<LineOf(60, 250)>>)
=============================================================================
