------------------------------- MODULE Trade -------------------------------
(***************************************************************************)
(* What an order is to its two parties: goods are set aside, paid for, and *)
(* then either handed over against the money or given back, and only for   *)
(* goods that went back is the money returned. No order ends while the     *)
(* seller holds money for goods the buyer did not get.                     *)
(***************************************************************************)
CONSTANT OrderIds

VARIABLES
    goods,  \* per order: "none", "reserved", "sold" or "back"
    money,  \* per order: "none", "held", "earned" or "returned"
    ended   \* orders nothing happens to any more

vars == <<goods, money, ended>>

Init ==
    /\ goods = [o \in OrderIds |-> "none"]
    /\ money = [o \in OrderIds |-> "none"]
    /\ ended = {}

\* An open order goes from one pair of goods and money to another.
Turn(o, from, to) ==
    /\ o \notin ended
    /\ <<goods[o], money[o]>> = from
    /\ goods' = [goods EXCEPT ![o] = to[1]]
    /\ money' = [money EXCEPT ![o] = to[2]]

Goes(o, from, to) == Turn(o, from, to) /\ ended' = ended
Ends(o, from, to) == Turn(o, from, to) /\ ended' = ended \cup {o}

Reserve(o) == Goes(o, <<"none", "none">>, <<"reserved", "none">>)
Pay(o) == Goes(o, <<"reserved", "none">>, <<"reserved", "held">>)
HandOver(o) == Ends(o, <<"reserved", "held">>, <<"sold", "earned">>)

\* The seller has no such goods; the buyer has not yet decided what to do.
Decline(o) == Goes(o, <<"reserved", "none">>, <<"back", "none">>)
CallOff(o) ==
    \E was \in {"reserved", "back"} : Ends(o, <<was, "none">>, <<"back", "none">>)

Withdraw(o) == Goes(o, <<"reserved", "held">>, <<"back", "held">>)
Return(o) == Ends(o, <<"back", "held">>, <<"back", "returned">>)

Next ==
    \E o \in OrderIds :
        \/ Reserve(o) \/ Pay(o) \/ HandOver(o)
        \/ Decline(o) \/ CallOff(o)
        \/ Withdraw(o) \/ Return(o)

Spec == Init /\ [][Next]_vars
=============================================================================
