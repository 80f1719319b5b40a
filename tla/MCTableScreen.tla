--------------------------- MODULE MCTableScreen ---------------------------
(* Values for the constants of TableScreen: a menu with a category of its   *)
(* own for the last item, the same with its first item sold out, and one    *)
(* whose only item is not in the second category.  The server edits item 1. *)
EXTENDS TableScreen

Card(id, in, sold_out) ==
    [id |-> id, in |-> in, price |-> 3, sold_out |-> sold_out]

MCCatalogues ==
    {<<Card(1, {"meal"}, FALSE), Card(2, {"meal"}, FALSE), Card(3, {"drink"}, FALSE)>>,
     <<Card(1, {"meal"}, TRUE), Card(2, {"drink"}, FALSE), Card(3, {"meal"}, TRUE)>>,
     <<Card(2, {"meal"}, FALSE)>>}

MCPrices == <<{3, 5, NotForSale}, {3}, {3}>>
=============================================================================
