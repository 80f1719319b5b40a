------------------------------ MODULE CartBag -------------------------------
(***************************************************************************)
(* What a shopping cart promises: a quantity for every menu id, and at     *)
(* most MAX_ORDER_ITEMS ids with a quantity above zero.                    *)
(***************************************************************************)
EXTENDS Integers, FiniteSets

CONSTANTS MenuIds, MAX_ORDER_ITEMS

VARIABLE wanted    \* how many of each menu id

Chosen(w) == { id \in MenuIds : w[id] > 0 }

Init == wanted = [id \in MenuIds |-> 0]

\* One more: only an id that is new to a full cart is refused.
More(id) ==
    /\ wanted' = [wanted EXCEPT ![id] = @ + 1]
    /\ Cardinality(Chosen(wanted')) <= MAX_ORDER_ITEMS

Less(id) == wanted[id] > 0 /\ wanted' = [wanted EXCEPT ![id] = @ - 1]

Drop(id) == wanted' = [wanted EXCEPT ![id] = 0]

Clear == wanted' = [id \in MenuIds |-> 0]

Next == Clear \/ \E id \in MenuIds : More(id) \/ Less(id) \/ Drop(id)

Spec == Init /\ [][Next]_wanted
=============================================================================
