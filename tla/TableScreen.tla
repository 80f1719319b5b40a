---------------------------- MODULE TableScreen -----------------------------
(***************************************************************************)
(* The screen of a table terminal (ui_run_table) over the cart of Cart:    *)
(* which item or line each key acts on.  Between two keys the screen shows *)
(* what is in the variables here, since ui_run_table empties its queue and *)
(* draws before it waits for a key.                                        *)
(*                                                                         *)
(* Which entry of the sidebar is marked is left out: with the focus there, *)
(* a blank may choose any.  The rows of the order list are the mirror of   *)
(* OrderSync; here it may have any length up to MAX_ROWS at any time.      *)
(***************************************************************************)
EXTENDS Cart

CONSTANTS Catalogues,  \* menus that menu.csv and a MENU_RESPONSE may bring
          Categories,  \* what the sidebar offers, All and popular among them
          All,         \* the category of all items
          GRID_COLS,   \* menu cards in a row
          MAX_ROWS     \* bound: rows of the order list

MenuItem == [id : MenuIds, in : SUBSET Categories, price : AllPrices, sold_out : BOOLEAN]

ASSUME TableScreenAssumption ==
    /\ Catalogues \subseteq Seq(MenuItem)
    /\ All \in Categories
    /\ GRID_COLS \in Nat \ {0}
    /\ MAX_ROWS \in Nat \ {0}

VARIABLES
    cat,       \* the table's copy of the menu
    scr,       \* which of the three screens is shown
    focus,     \* "menu" or "sidebar", on the menu screen
    category,  \* current_category
    sel,       \* the index, from 0, of the selected item, line or row
    popup,     \* table_confirm_popup
    loose      \* history: the screen came up, or another menu came in, and no
               \* key has put the selection in its place since

screen == <<cat, scr, focus, category, sel, popup, loose>>
tableVars == <<vars, screen>>

-----------------------------------------------------------------------------
(* The menu cards of a category k in a catalogue c *)

Indices(c) == 0 .. Len(c) - 1

ui_menu_match_category(item, k) == k = All \/ k \in item.in

Visible(c, k) == {i \in Indices(c) : ui_menu_match_category(c[i + 1], k)}

ForSaleIn(c, k) == {i \in Visible(c, k) : ~ c[i + 1].sold_out}

\* The place of a card among those shown, from 0.
VisiblePos(c, k, i) == Cardinality({j \in Visible(c, k) : j < i})

\* ui_menu_visible_pos_of_index, with 0 for an item that is not shown.
visible_sel(c, k, s) == IF s \in Visible(c, k) THEN VisiblePos(c, k, s) ELSE 0

ui_menu_first_selectable_in_category(c, k) ==
    IF ForSaleIn(c, k) = {} THEN 0 ELSE Min(ForSaleIn(c, k))

\* ui_find_selectable_visible_from: the first card for sale at the places
\* start, start + step and so on; s is kept if there is none.
Found(c, k, start, step, s) ==
    LET at(n) == {i \in ForSaleIn(c, k) : VisiblePos(c, k, i) = start + n * step}
        hits  == {n \in Indices(c) : at(n) # {}}
    IN  IF hits = {} THEN s ELSE CHOOSE i \in at(Min(hits)) : TRUE

NormalizedFault(c, k, s) == IF s \in Indices(c) THEN s ELSE 0

\* What a key on the menu screen leaves selected: a card that is shown, and one
\* for sale, after it or else before it.
Normalized(c, k, s) ==
    LET shown == IF s \in Visible(c, k) THEN s
                 ELSE ui_menu_first_selectable_in_category(c, k)
        v     == visible_sel(c, k, shown)
    IN  IF Visible(c, k) = {} THEN 0
        ELSE IF shown \notin Visible(c, k) \ ForSaleIn(c, k) THEN shown
        ELSE Found(c, k, v + 1, 1, Found(c, k, v - 1, -1, shown))

-----------------------------------------------------------------------------
TableInit ==
    /\ Init
    /\ cat \in Catalogues
    /\ scr = "menu"
    /\ focus = "menu"
    /\ category = All
    /\ sel = 0
    /\ popup = FALSE
    /\ loose = FALSE

\* MENU_RESPONSE: only the catalogue changes.
MenuArrives ==
    /\ cat' \in Catalogues
    /\ loose' = (loose \/ scr = "menu")
    /\ UNCHANGED <<scr, focus, category, sel, popup, vars>>

(* Keys of the menu screen.  Each ends with the same normalisation. *)

\* A key that would leave focus f, category k and selection s.
MenuKey(f, k, s) ==
    /\ scr = "menu"
    /\ scr' = "menu"
    /\ focus' = f
    /\ category' = k
    /\ sel' = Normalized(cat, k, s)
    /\ loose' = FALSE
    /\ UNCHANGED <<cat, popup>>

\* Right, left, down and up among the cards; left of the first column and
\* right of the sidebar move the focus.
Arrow ==
    LET v == visible_sel(cat, category, sel)
        Go(step) == MenuKey(focus, category, Found(cat, category, v + step, step, sel))
    IN  /\ \/ focus = "menu" /\ \E step \in {1, GRID_COLS, - GRID_COLS} : Go(step)
           \/ focus = "menu" /\ v % GRID_COLS # 0 /\ Go(-1)
           \/ focus = "menu" /\ v % GRID_COLS = 0 /\ MenuKey("sidebar", category, sel)
           \/ focus = "sidebar" /\ MenuKey("menu", category, sel)
        /\ UNCHANGED vars

\* Blank on a category of the sidebar.
ChooseCategory ==
    /\ focus = "sidebar"
    /\ \E k \in Categories :
           MenuKey("menu", k, ui_menu_first_selectable_in_category(cat, k))
    /\ UNCHANGED vars

\* Up and down in the sidebar, blank on CALL, a key without a meaning.
OtherKey == MenuKey(focus, category, sel) /\ UNCHANGED vars

\* Blank on a card: the item with the selected index is put into the cart
\* unless it is sold out, whether its card is shown or not.
Add ==
    /\ focus = "menu"
    /\ sel \in Indices(cat)
    /\ ~ cat[sel + 1].sold_out
    /\ ui_add(cat[sel + 1].id, cat[sel + 1].price)
    /\ MenuKey(focus, category, sel)

\* Blank on CART and ORDER sets sel to 0, and then ends as every key of the
\* menu screen: what is selected is an index among the menu's items.
OpenScreen(s) ==
    /\ scr = "menu" /\ focus = "sidebar"
    /\ scr' = s
    /\ sel' = Normalized(cat, category, 0)
    /\ loose' = (s = "cart")
    /\ UNCHANGED <<cat, focus, category, popup, vars>>

(* Keys of the cart screen *)

CartKey == scr = "cart" /\ ~ popup /\ UNCHANGED <<cat, scr, focus, category>>

ClampedFault(c, s) == s

\* Where - and r leave the selection.
Clamped(c, s) == IF s >= Len(c) THEN Max({0, Len(c) - 1}) ELSE s

CartUpDown ==
    /\ CartKey
    /\ cart # << >>
    /\ \E d \in {1, Len(cart) - 1} : sel' = (sel + d) % Len(cart)
    /\ loose' = FALSE
    /\ UNCHANGED <<popup, vars>>

OnALine == sel < Len(cart)

Plus ==
    /\ CartKey
    /\ OnALine
    /\ ui_plus(sel + 1)
    /\ UNCHANGED <<sel, popup, loose>>

MinusOrRemove ==
    /\ CartKey
    /\ OnALine
    /\ ui_minus(sel + 1) \/ ui_remove(sel + 1)
    /\ sel' = Clamped(cart', sel)
    /\ loose' = FALSE
    /\ UNCHANGED popup

\* The same keys with the selection behind the last line read an entry of the
\* array that is no line: what a removed line left there, zeros, or memory
\* behind the array.  Its id and quantity may be any.
KeyOffTheLines ==
    /\ CartKey
    /\ cart # << >> /\ ~ OnALine
    /\ \E id \in MenuIds, qty \in 0 .. MAX_QTY : cart' = cart_set_qty(cart, id, qty)
    /\ \/ UNCHANGED <<sel, loose>>
       \/ sel' = Clamped(cart', sel) /\ loose' = FALSE
    /\ UNCHANGED <<menu, request, order, popup>>

\* Enter asks before the order is sent.
AskToConfirm ==
    /\ CartKey
    /\ cart # << >>
    /\ popup' = TRUE
    /\ UNCHANGED <<sel, loose, vars>>

Confirm ==
    /\ popup
    /\ ui_submit_cart_order
    /\ scr' = "status"
    /\ sel' = 0
    /\ popup' = FALSE
    /\ loose' = FALSE
    /\ UNCHANGED <<cat, focus, category>>

Decline == popup /\ popup' = FALSE /\ UNCHANGED <<cat, scr, focus, category, sel, loose, vars>>

CartToMenu ==
    /\ scr = "cart" /\ ~ popup
    /\ scr' = "menu"
    /\ sel' = 0
    /\ loose' = FALSE
    /\ UNCHANGED <<cat, focus, category, popup, vars>>

(* Keys of the order list *)

\* Up, down, and the drawing, which puts the selection on a row.
StatusMoves ==
    /\ scr = "status"
    /\ sel' \in 0 .. MAX_ROWS - 1
    /\ UNCHANGED <<cat, scr, focus, category, popup, loose, vars>>

\* m takes the row's index along as the menu's selection.  The drawing before
\* the key has put it on a row.
StatusToMenu ==
    /\ scr = "status" /\ sel < MAX_ROWS
    /\ scr' = "menu"
    /\ focus' = "menu"
    /\ loose' = TRUE
    /\ UNCHANGED <<cat, category, sel, popup, vars>>

TableNext ==
    \/ MenuArrives
    \/ Arrow
    \/ ChooseCategory
    \/ OtherKey
    \/ Add
    \/ \E s \in {"cart", "status"} : OpenScreen(s)
    \/ CartUpDown
    \/ Plus
    \/ MinusOrRemove
    \/ KeyOffTheLines
    \/ AskToConfirm
    \/ Confirm
    \/ Decline
    \/ CartToMenu
    \/ StatusMoves
    \/ StatusToMenu
    \/ ServerStep /\ UNCHANGED screen

TableSpec == TableInit /\ [][TableNext]_tableVars

-----------------------------------------------------------------------------
(* Properties *)

\* Types; a cart is never longer than its array or holds an empty line
\* (order.c), and a confirmation only asks about a cart that is shown and not
\* empty, so that y always sends (ui.c 3577-3591).
TableTypeOK ==
    /\ CartTypeOK
    /\ cat \in Catalogues
    /\ scr \in {"menu", "cart", "status"}
    /\ focus \in {"menu", "sidebar"}
    /\ category \in Categories
    /\ sel \in Nat
    /\ popup => scr = "cart" /\ cart # << >>
    /\ loose \in BOOLEAN

\* Every key but those of KeyOffTheLines does to the quantities of the cart
\* what it says, although it only knows an index: the cart is a bag of menu ids
\* with no line twice and none empty (order.c and the keys of ui_run_table).
CartIsABag ==
    /\ Bag!Init
    /\ [][scr # "cart" \/ popup \/ OnALine => [Bag!Next]_(Quantity(cart))]_tableVars

\* A key that puts an item into the cart puts one in whose card is shown,
\* unless the selection is loose or nothing of the category is for sale
\* (ui.c 3484, 3515-3557).
AddsACardShown ==
    [][scr = "menu" /\ cart' # cart =>
          \/ sel \in Visible(cat, category)
          \/ loose
          \/ ForSaleIn(cat, category) = {}]_tableVars

\* Once a key of the cart screen has moved or clamped the selection, it is on a
\* line for as long as the cart is shown (ui.c 3597-3632).
CartKeysActOnALine ==
    scr = "cart" /\ cart # << >> /\ ~ loose => OnALine
=============================================================================
