-------------------------------- MODULE Cart --------------------------------
(***************************************************************************)
(* From the keys on the table's screen to the priced order: the cart of    *)
(* order.c as the table client uses it, the request the client sends, and  *)
(* the order the server prices anew from its own menu.  The client's cart  *)
(* keeps the price it saw when a line was first added; its copy of the     *)
(* menu may be any older one, so that price is any price.  The keys on the     *)
(* table's screen, and which line each acts on, are in TableScreen.        *)
(***************************************************************************)
EXTENDS Integers, Sequences, SequencesExt

CONSTANTS MenuIds,          \* menu ids there have ever been
          Prices,           \* what the menu may say of each id: prices, NotForSale
          MAX_ORDER_ITEMS,  \* common.h
          MAX_QTY,          \* bound: keys add no more than this of one id
          NotForSale        \* the id is deleted, or marked sold out

ASSUME CartAssumption ==
    /\ IsFiniteSet(MenuIds)
    /\ Prices \in [MenuIds -> SUBSET (Nat \cup {NotForSale})]
    /\ MAX_ORDER_ITEMS \in Nat \ {0}
    /\ MAX_QTY \in Nat \ {0}

VARIABLES menu,     \* ctx->menu of the server
          cart,     \* the table client's cart
          request,  \* ORDER_CREATE lines on their way, << >> if there are none
          order     \* lines of an order not yet answered, << >> likewise

vars == <<menu, cart, request, order>>

-----------------------------------------------------------------------------
(* order.c *)

HasLine(c, id) == \E i \in DOMAIN c : c[i].menu_id = id

\* The first line with this id; every loop of order.c looks for it.
LineAt(c, id) == CHOOSE i \in DOMAIN c :
                    /\ c[i].menu_id = id
                    /\ \A j \in 1 .. (i - 1) : c[j].menu_id # id

\* cart_add answers 0: the quantity is good, and there is a line or room.
CanAdd(c, line) == /\ line.qty > 0
                   /\ HasLine(c, line.menu_id) \/ Len(c) < MAX_ORDER_ITEMS

cart_addFault(c, line) == IF CanAdd(c, line) THEN Append(c, line) ELSE c

\* A second line for an id only adds to the quantity of the first.
cart_add(c, line) ==
    IF ~ CanAdd(c, line) THEN c
    ELSE IF HasLine(c, line.menu_id)
         THEN [c EXCEPT ![LineAt(c, line.menu_id)].qty = @ + line.qty]
         ELSE Append(c, line)

cart_remove_line(c, id) ==
    IF HasLine(c, id) THEN RemoveAt(c, LineAt(c, id)) ELSE c

cart_set_qtyFault(c, id, qty) ==
    IF HasLine(c, id) THEN [c EXCEPT ![LineAt(c, id)].qty = qty] ELSE c

\* Nothing left of a line removes the line.
cart_set_qty(c, id, qty) ==
    IF qty <= 0 THEN cart_remove_line(c, id)
    ELSE IF HasLine(c, id) THEN [c EXCEPT ![LineAt(c, id)].qty = qty]
    ELSE c

cart_total(c) == FoldSeq(LAMBDA line, t : line.price * line.qty + t, 0, c)

-----------------------------------------------------------------------------
AllPrices == (UNION {Prices[id] : id \in MenuIds}) \ {NotForSale}

Line == [menu_id : MenuIds, price : AllPrices \cup {0}, qty : 1 .. MAX_QTY]

Init ==
    /\ menu \in [MenuIds -> AllPrices]
    /\ \A id \in MenuIds : menu[id] \in Prices[id]
    /\ cart = << >>
    /\ request = << >>
    /\ order = << >>

\* A menu card is chosen; the result of cart_add is not looked at.
ui_add(id, price) ==
    /\ HasLine(cart, id) => cart[LineAt(cart, id)].qty < MAX_QTY
    /\ cart' = cart_add(cart, [menu_id |-> id, price |-> price, qty |-> 1])
    /\ UNCHANGED <<menu, request, order>>

\* Keys + and - and r on the selected line of the cart screen.
ui_plus(i) ==
    /\ cart[i].qty < MAX_QTY
    /\ cart' = cart_set_qty(cart, cart[i].menu_id, cart[i].qty + 1)
    /\ UNCHANGED <<menu, request, order>>

ui_minus(i) ==
    /\ cart' = cart_set_qty(cart, cart[i].menu_id, cart[i].qty - 1)
    /\ UNCHANGED <<menu, request, order>>

ui_remove(i) ==
    /\ cart' = cart_remove_line(cart, cart[i].menu_id)
    /\ UNCHANGED <<menu, request, order>>

\* The confirmed cart is sent as ids and quantities and forgotten at once.
\* Bound: one request is on its way at a time.
ui_submit_cart_order ==
    /\ cart # << >>
    /\ request = << >> /\ order = << >>
    /\ request' = [i \in DOMAIN cart |->
                      [menu_id |-> cart[i].menu_id, price |-> 0,
                       qty |-> cart[i].qty]]
    /\ cart' = << >>
    /\ UNCHANGED <<menu, order>>

\* The server's own cart: every line of the request, in turn.
Rebuilt(lines) == FoldLeft(cart_add, << >>, lines)

\* finalize_cart_lines puts the menu's price on every line.
Priced(lines) == [i \in DOMAIN lines |->
                     [lines[i] EXCEPT !.price = menu[lines[i].menu_id]]]

ForSaleFault(lines) == \E i \in DOMAIN lines : menu[lines[i].menu_id] # NotForSale

\* finalize_cart_lines refuses the whole request for one line.
ForSale(lines) == \A i \in DOMAIN lines : menu[lines[i].menu_id] # NotForSale

\* handle_order_create_client, when the order is taken.
TakeOrder ==
    /\ request # << >>
    /\ ForSale(request)
    /\ order' = Rebuilt(Priced(request))
    /\ request' = << >>
    /\ UNCHANGED <<menu, cart>>

\* ... and when it is refused with ERROR|unknown menu id or ERROR|sold out.
RefuseOrder ==
    /\ request # << >>
    /\ ~ ForSale(request)
    /\ request' = << >>
    /\ UNCHANGED <<menu, cart, order>>

\* ORDER_CREATED|...|total goes back.
Answer == order # << >> /\ order' = << >> /\ UNCHANGED <<menu, cart, request>>

\* The POS screen changes a price, sells out, deletes or restores an item.
EditMenu(id) ==
    /\ \E p \in Prices[id] : menu' = [menu EXCEPT ![id] = p]
    /\ UNCHANGED <<cart, request, order>>

\* What goes on at the server, whatever the table's screen shows.
ServerStep ==
    \/ TakeOrder
    \/ RefuseOrder
    \/ Answer
    \/ \E id \in MenuIds : EditMenu(id)

-----------------------------------------------------------------------------
(* Properties *)

CartTypeOK ==
    /\ menu \in [MenuIds -> AllPrices \cup {NotForSale}]
    /\ \A lines \in {cart, request, order} :
           /\ Len(lines) <= MAX_ORDER_ITEMS
           /\ lines \in Seq(Line)

Quantity(lines) ==
    LET upto[n \in 0 .. Len(lines)] ==
            IF n = 0 THEN [id \in MenuIds |-> 0]
            ELSE [upto[n - 1] EXCEPT ![lines[n].menu_id] = @ + lines[n].qty]
    IN  upto[Len(lines)]

Bag == INSTANCE CartBag WITH wanted <- Quantity(cart)

\* An order that is taken has exactly the quantities that were confirmed and
\* sent, each at the price the menu has at that moment, and its total is their
\* sum; an item that is not for sale is in no order.
Sum(f) == FoldFunction(LAMBDA x, t : x + t, 0, f)

OrderIsWhatWasSent ==
    [][order' # order /\ order' # << >> =>
          LET sent == Quantity(request)
          IN  /\ Quantity(order') = sent
              /\ \A id \in MenuIds : sent[id] > 0 => menu[id] # NotForSale
              /\ cart_total(order') =
                     Sum([id \in MenuIds |->
                             IF sent[id] = 0 THEN 0 ELSE sent[id] * menu[id]])]_vars
=============================================================================
