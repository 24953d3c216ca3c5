-------------------------------- MODULE MCLists --------------------------------
EXTENDS ListsProperties

\* Offers 1 and 2 are of one owner.
TwoOwners == [i \in Ids |-> IF i = 3 THEN 2 ELSE 1]

\* From the west 1 is near and 2 far, from the east the other way round; 3 is far.
Crossed == [p \in Places |->
              [i \in Ids |-> CASE i = 1 -> IF p = "west" THEN 1 ELSE 2
                               [] i = 2 -> IF p = "west" THEN 2 ELSE 1
                               [] i = 3 -> 2]]
=============================================================================
