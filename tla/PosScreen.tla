----------------------------- MODULE PosScreen ------------------------------
(***************************************************************************)
(* The POS screen of ui_run_pos and the sessions that change what it       *)
(* shows.  The screen's thread looks at two revision counters, draws if    *)
(* something is new, waits up to 200 ms for a key and acts on it; sessions *)
(* change orders under ctx->lock and count orders_revision before they     *)
(* unlock, and count staff_revision without the lock.  What is drawn and   *)
(* what a key acts on are read at different times, and what does not fit   *)
(* the terminal is not drawn: tables outside the viewport around the       *)
(* cursor, orders below the last line of the payment list.                 *)
(*                                                                         *)
(* An order is known by its place in ctx->orders, where nothing is ever    *)
(* taken out.  The tabs without orders are "OTHER"; key q is left out, the *)
(* layout and the size of the terminal are fixed.                          *)
(***************************************************************************)
EXTENDS Integers, Sequences, FiniteSets, OrderRules

CONSTANTS Tables,       \* the tables of the layout
          Cell,         \* where each is on the grid
          GRID_ROWS, GRID_COLS,
          VIEW_ROWS, VIEW_COLS,  \* cells that fit, 0 where too few do
          MAX_ROWS,     \* lines that fit the payment list, max_rows
          MAX_ORDERS,   \* common.h
          Sessions,     \* session threads of tables that call for staff
          Pos,          \* the thread of the POS screen
          MaxNews       \* bound on changes of orders and calls together: no
                        \* more follow, a call counting as two changes

ASSUME PosAssumption ==
    /\ Tables \subseteq Nat \ {0} /\ Tables # {}
    /\ GRID_ROWS \in Nat \ {0} /\ GRID_COLS \in Nat \ {0}
    /\ VIEW_ROWS \in 0 .. GRID_ROWS /\ VIEW_COLS \in 0 .. GRID_COLS
    /\ Cell \in [Tables -> [row : 0 .. (GRID_ROWS - 1), col : 0 .. (GRID_COLS - 1)]]
    /\ \A t, u \in Tables : Cell[t] = Cell[u] => t = u
    /\ MAX_ROWS \in Nat /\ MAX_ORDERS \in Nat \ {0}
    /\ Pos \notin Sessions /\ IsFiniteSet(Sessions)
    /\ MaxNews \in Nat

All  == 0                   \* pay_table before one is chosen
None == 0                   \* no table under the cursor, no order
Every == MAX_ORDERS + 1     \* what key y pays is not one highlighted order

Places   == 1 .. MAX_ORDERS
Counters == Sessions \cup {Pos}

VARIABLES
    orders,             \* ctx->orders
    orders_revision,
    lock,               \* ctx->lock held by a change not yet counted
    staff_call,         \* staff_call[t]: called less than 180 s ago
    staff_revision,
    count,              \* where each thread is in server_touch_staff
    raced,              \* history: two counts of staff_revision overlapped
    pos,                \* the locals of ui_run_pos
    screen,             \* what is drawn
    meant               \* history: the order highlighted when Enter came

ordersVars == <<orders, orders_revision, lock>>
staffVars  == <<staff_call, staff_revision, count, raced>>
posVars    == <<pos, screen, meant>>
vars       == <<ordersVars, staffVars, posVars>>

Idle == [step |-> "idle", seen |-> 0]

Blank(tab) == [tab |-> tab, rows |-> [t \in Tables \cup {All} |-> << >>],
               staff |-> [t \in Tables |-> FALSE]]

Init ==
    /\ orders = << >> /\ orders_revision = 0 /\ lock = "none"
    /\ staff_call = [t \in Tables |-> FALSE]
    /\ staff_revision = 0
    /\ count = [w \in Counters |-> Idle]
    /\ raced = FALSE
    /\ pos = [pc |-> "look", tab |-> "HOME", grid_row |-> 0, grid_col |-> 0,
              table |-> All, sel |-> 0, last_rev |-> 0, last_staff_rev |-> 0,
              dirty |-> TRUE, left |-> {}, box |-> None, todo |-> << >>]
    /\ screen = Blank("OTHER")
    /\ meant = None

-----------------------------------------------------------------------------
(* The sessions *)

\* A session changes an order: created, updated by the kitchen, cancelled.
SessionChangesOrder ==
    /\ lock = "none"
    /\ orders_revision + 2 * staff_revision < MaxNews
    /\ \/ /\ Len(orders) < MAX_ORDERS
          /\ \E t \in Tables :
                 orders' = Append(orders, [table |-> t, status |-> "WAITING"])
       \/ \E i \in DOMAIN orders, st \in Status :
              /\ \/ valid_kitchen_transition(orders[i].status, st)
                 \/ Cancellable(orders[i].status) /\ st = "CANCELLED"
              /\ orders' = [orders EXCEPT ![i].status = st]
    /\ lock' = "session"
    /\ UNCHANGED <<orders_revision, staffVars, posVars>>

\* The last thing a change does under the lock.
server_touch_orders ==
    /\ lock # "none"
    /\ orders_revision' = orders_revision + 1
    /\ lock' = "none"
    /\ UNCHANGED <<orders, staffVars, posVars>>

Counting(w) == count[w].step # "idle"

\* Whatever is still to be written to staff_revision stays within the bound.
MayCount ==
    \A n \in {staff_revision} \cup {count[w].seen : w \in Counters} :
        orders_revision + 2 * (n + Cardinality({w \in Counters : Counting(w)}) + 1)
            <= MaxNews

\* CALL_STAFF of table t, under the lock; the counter comes after the unlock.
handle_call_staff(w, t) ==
    /\ ~ Counting(w) /\ MayCount
    /\ lock = "none"
    /\ staff_call' = [staff_call EXCEPT ![t] = TRUE]
    /\ count' = [count EXCEPT ![w].step = "read"]
    /\ UNCHANGED <<ordersVars, staff_revision, raced, posVars>>

\* staff_revision++ reads ...
ReadStaffRevision(w) ==
    /\ count[w].step = "read"
    /\ count' = [count EXCEPT ![w] = [step |-> "write", seen |-> staff_revision]]
    /\ UNCHANGED <<ordersVars, staff_call, staff_revision, raced, posVars>>

\* ... and writes back, whatever other threads wrote in between.
WriteStaffRevision(w) ==
    /\ count[w].step = "write"
    /\ staff_revision' = count[w].seen + 1
    /\ raced' = (raced \/ staff_revision # count[w].seen)
    /\ count' = [count EXCEPT ![w] = Idle]
    /\ UNCHANGED <<ordersVars, staff_call, posVars>>

\* ui_pos_staff_active: 180 seconds after the call.
StaffCallExpires(t) ==
    /\ staff_call[t]
    /\ staff_call' = [staff_call EXCEPT ![t] = FALSE]
    /\ UNCHANGED <<ordersVars, staff_revision, count, raced, posVars>>

-----------------------------------------------------------------------------
(* The top of the loop, and drawing *)

OrdersNewsFault(p) == [p EXCEPT !.last_rev = orders_revision, !.sel = 0]
OrdersNews(p) == [p EXCEPT !.last_rev = orders_revision, !.sel = 0, !.dirty = TRUE]

\* The screen's thread runs when it holds no lock and counts nothing.
At(pc) == pos.pc = pc /\ lock # "pos" /\ ~ Counting(Pos)

LookAtOrders ==
    /\ At("look")
    /\ pos' = [(IF orders_revision # pos.last_rev THEN OrdersNews(pos) ELSE pos)
                  EXCEPT !.pc = "lookStaff", !.todo = << >>]
    /\ meant' = None
    /\ UNCHANGED <<ordersVars, staffVars, screen>>

StaffNewsFault(p) == [p EXCEPT !.last_staff_rev = staff_revision]
StaffNews(p) == [p EXCEPT !.last_staff_rev = staff_revision, !.dirty = TRUE]

\* Where the cells that fit begin: around the cursor, but within the grid.
ViewStart(cur, view, grid) ==
    LET start == cur - view \div 2
    IN  IF start < 0 THEN 0 ELSE IF start + view > grid THEN grid - view ELSE start

\* The tables whose cells are drawn when the cursor is at (r, c); each of them
\* has the width and height it needs.
InView(r, c) ==
    LET view_r0 == ViewStart(r, VIEW_ROWS, GRID_ROWS)
        view_c0 == ViewStart(c, VIEW_COLS, GRID_COLS)
    IN  {t \in Tables : /\ Cell[t].row \in view_r0 .. (view_r0 + VIEW_ROWS - 1)
                        /\ Cell[t].col \in view_c0 .. (view_c0 + VIEW_COLS - 1)}

LookAtStaff ==
    /\ At("lookStaff")
    /\ LET p == IF staff_revision # pos.last_staff_rev THEN StaffNews(pos) ELSE pos
       IN  /\ pos' = [p EXCEPT !.pc = IF p.dirty THEN "draw" ELSE "key",
                               !.left = IF p.dirty /\ p.tab = "HOME"
                                        THEN InView(p.grid_row, p.grid_col) ELSE {}]
           /\ screen' = IF p.dirty THEN Blank(p.tab) ELSE screen
    /\ UNCHANGED <<ordersVars, staffVars, meant>>

\* What all lists of a table's orders leave out.
OnList(order, t) == /\ order.status # "CANCELLED"
                    /\ t = All \/ order.table = t

\* The places of a set in the order of the table of orders.
InOrder(S) == CHOOSE at \in [1 .. Cardinality(S) -> S] :
                  \A m, n \in DOMAIN at : m < n => at[m] < at[n]

Listed(os, t) == InOrder({i \in DOMAIN os : OnList(os[i], t)})

\* The first k orders of a list.
RowsOf(os, t, k) == [n \in 1 .. k |-> [at |-> Listed(os, t)[n],
                                       status |-> os[Listed(os, t)[n]].status]]

Rows(os, t) == RowsOf(os, t, Len(Listed(os, t)))

Fits(n) == IF n < MAX_ROWS THEN n ELSE MAX_ROWS

\* The lock is taken for the orders of each table of the home screen ...
ui_pos_table_summary(t) ==
    /\ pos.tab = "HOME" /\ pos.box = None /\ lock = "none"
    /\ screen' = [screen EXCEPT !.rows[t] = Rows(orders, t)]
    /\ pos' = [pos EXCEPT !.box = t]

\* ... and again for the call of the same table.
ui_pos_staff_active(t) ==
    /\ pos.box = t /\ lock = "none"
    /\ screen' = [screen EXCEPT !.staff[t] = staff_call[t]]
    /\ pos' = [pos EXCEPT !.left = @ \ {t}, !.box = None]

Drawn == [pos EXCEPT !.pc = "key", !.dirty = FALSE]

\* The list has no scrolling: what does not fit is not shown.
ui_draw_pos_payment ==
    /\ pos.tab = "PAYMENT" /\ lock = "none"
    /\ screen' = [screen EXCEPT !.rows[pos.table] =
                      RowsOf(orders, pos.table, Fits(Len(Listed(orders, pos.table))))]
    /\ pos' = Drawn

\* refresh, once no table is left to draw.
Refresh ==
    /\ pos.tab # "PAYMENT" /\ pos.left = {}
    /\ pos' = Drawn
    /\ UNCHANGED screen

Draw ==
    /\ At("draw")
    /\ \/ \E t \in pos.left : ui_pos_table_summary(t) \/ ui_pos_staff_active(t)
       \/ ui_draw_pos_payment
       \/ Refresh
    /\ UNCHANGED <<ordersVars, staffVars, meant>>

-----------------------------------------------------------------------------
(* Keys *)

Loop(p) == [p EXCEPT !.pc = "look"]
Redraw(p) == [p EXCEPT !.pc = "look", !.dirty = TRUE]

\* The order whose row is highlighted on the screen, or none.
Highlighted ==
    LET rows == screen.rows[pos.table]
    IN  IF screen.tab = "PAYMENT" /\ pos.sel < Len(rows)
        THEN rows[pos.sel + 1].at ELSE None

\* The table under the cursor, or none.
layout_find_at ==
    IF \E t \in Tables : Cell[t] = [row |-> pos.grid_row, col |-> pos.grid_col]
    THEN CHOOSE t \in Tables : Cell[t] = [row |-> pos.grid_row, col |-> pos.grid_col]
    ELSE None

\* The arrows, on the home screen and in the layout editor.
Arrow ==
    \/ pos.grid_row > 0 /\ pos' = Redraw([pos EXCEPT !.grid_row = @ - 1])
    \/ pos.grid_row + 1 < GRID_ROWS /\ pos' = Redraw([pos EXCEPT !.grid_row = @ + 1])
    \/ pos.grid_col > 0 /\ pos' = Redraw([pos EXCEPT !.grid_col = @ - 1])
    \/ pos.grid_col + 1 < GRID_COLS /\ pos' = Redraw([pos EXCEPT !.grid_col = @ + 1])

\* No key within 200 ms, a tab, an arrow of the grid.
PlainKey ==
    /\ At("key")
    /\ \/ pos' = Loop(pos)
       \/ \E tab \in {"HOME", "PAYMENT", "OTHER"} : pos' = Redraw([pos EXCEPT !.tab = tab])
       \/ pos.tab # "PAYMENT" /\ Arrow
    /\ UNCHANGED <<ordersVars, staffVars, screen, meant>>

\* Enter on a table opens its payment list; the same key then goes on to the
\* block of the payment tab.
HomeEnter ==
    /\ At("key") /\ pos.tab = "HOME" /\ layout_find_at # None
    /\ pos' = [pos EXCEPT !.pc = "collect", !.tab = "PAYMENT",
                          !.table = layout_find_at, !.sel = 0, !.dirty = TRUE]
    /\ meant' = Highlighted
    /\ UNCHANGED <<ordersVars, staffVars, screen>>

\* Key c clears the call of the table under the cursor and counts.
ClearCall ==
    /\ At("key") /\ pos.tab = "HOME" /\ layout_find_at # None
    /\ MayCount /\ lock = "none"
    /\ staff_call' = [staff_call EXCEPT ![layout_find_at] = FALSE]
    /\ count' = [count EXCEPT ![Pos].step = "read"]
    /\ pos' = Redraw(pos)
    /\ UNCHANGED <<ordersVars, staff_revision, raced, screen, meant>>

\* A fault: paid orders are drawn but left out of what a key selects from.
ui_pos_collect_table_order_indicesFault(t) ==
    InOrder({i \in DOMAIN orders : OnList(orders[i], t) /\ orders[i].status # "PAID"})

\* The places a key of the payment tab selects from, read for every key.
ui_pos_collect_table_order_indices(t) == Listed(orders, t)

StepDownFault(sel, nshow) == sel + 1
StepDown(sel, nshow) == (sel + 1) % (IF nshow = 0 THEN 1 ELSE nshow)
StepUp(sel, nshow)   == (sel + nshow - 1) % (IF nshow = 0 THEN 1 ELSE nshow)

\* Up, down, and t with the number of a table.
PaymentKey ==
    /\ At("key") /\ pos.tab = "PAYMENT" /\ lock = "none"
    /\ LET nshow == Len(ui_pos_collect_table_order_indices(pos.table))
       IN  \/ pos' = Redraw([pos EXCEPT !.sel = StepUp(@, nshow)])
           \/ pos' = Redraw([pos EXCEPT !.sel = StepDown(@, nshow)])
           \/ \E t \in Tables : pos' = Redraw([pos EXCEPT !.table = t, !.sel = 0])
    /\ UNCHANGED <<ordersVars, staffVars, screen, meant>>

PaymentEnter ==
    /\ At("key") /\ pos.tab = "PAYMENT"
    /\ pos' = [pos EXCEPT !.pc = "collect"]
    /\ meant' = Highlighted
    /\ UNCHANGED <<ordersVars, staffVars, screen>>

CollectForEnter ==
    /\ At("collect") /\ lock = "none"
    /\ LET idxs == ui_pos_collect_table_order_indices(pos.table)
       IN  pos' = IF pos.sel < Len(idxs)
                  THEN [pos EXCEPT !.pc = "read", !.todo = <<idxs[pos.sel + 1]>>]
                  ELSE Loop(pos)
    /\ UNCHANGED <<ordersVars, staffVars, screen, meant>>

\* The order at that place is looked at under a lock of its own.
ReadForEnter ==
    /\ At("read") /\ lock = "none"
    /\ pos' = IF orders[Head(pos.todo)].status = "DONE"
              THEN [pos EXCEPT !.pc = "pay", !.dirty = TRUE] ELSE Loop(pos)
    /\ UNCHANGED <<ordersVars, staffVars, screen, meant>>

\* Key y: the ids of all DONE orders of the table.
ui_pos_collect_table_done_ids ==
    /\ At("key") /\ pos.tab = "PAYMENT" /\ pos.table # All /\ lock = "none"
    /\ LET ids == InOrder({i \in DOMAIN orders : /\ OnList(orders[i], pos.table)
                                                 /\ orders[i].status = "DONE"})
       IN  pos' = IF ids = << >> THEN Loop(pos)
                  ELSE [pos EXCEPT !.pc = "pay", !.todo = ids, !.dirty = TRUE]
    /\ meant' = Every
    /\ UNCHANGED <<ordersVars, staffVars, screen>>

\* server_pay_order looks again: the kitchen may have taken the order back.
server_pay_order ==
    /\ At("pay") /\ pos.todo # << >> /\ lock = "none"
    /\ LET i == Head(pos.todo)
       IN  IF Payable(orders[i].status)
           THEN /\ orders' = [orders EXCEPT ![i].status = "PAID"]
                /\ lock' = "pos"
           ELSE UNCHANGED <<orders, lock>>
    /\ pos' = [pos EXCEPT !.todo = Tail(@), !.pc = IF Tail(pos.todo) = << >> THEN "look" ELSE @]
    /\ UNCHANGED <<orders_revision, staffVars, screen, meant>>

-----------------------------------------------------------------------------
PosStep ==
    \/ LookAtOrders \/ LookAtStaff \/ Draw
    \/ PlainKey \/ HomeEnter \/ ClearCall \/ PaymentKey
    \/ PaymentEnter \/ CollectForEnter \/ ReadForEnter
    \/ ui_pos_collect_table_done_ids \/ server_pay_order

Next ==
    \/ SessionChangesOrder
    \/ server_touch_orders
    \/ \E w \in Sessions, t \in Tables : handle_call_staff(w, t)
    \/ \E w \in Counters : ReadStaffRevision(w) \/ WriteStaffRevision(w)
    \/ \E t \in Tables : StaffCallExpires(t)
    \/ PosStep

Spec == Init /\ [][Next]_vars

-----------------------------------------------------------------------------
(* Properties *)

Row == [at : Places, status : Status]

TypeOK ==
    /\ \A i \in DOMAIN orders : orders[i] \in [table : Tables, status : Status]
    /\ Len(orders) <= MAX_ORDERS
    /\ orders_revision \in Nat
    /\ lock \in {"none", "session", "pos"}
    /\ staff_call \in [Tables -> BOOLEAN]
    /\ staff_revision \in 0 .. MaxNews
    /\ count \in [Counters -> [step : {"idle", "read", "write"}, seen : 0 .. MaxNews]]
    /\ pos.pc \in {"look", "lookStaff", "draw", "key", "collect", "read", "pay"}
    /\ pos.grid_row \in 0 .. (GRID_ROWS - 1) /\ pos.grid_col \in 0 .. (GRID_COLS - 1)
    /\ pos.left \subseteq InView(pos.grid_row, pos.grid_col)
    /\ pos.box \in pos.left \cup {None}
    /\ pos.sel \in 0 .. (MAX_ORDERS - 1)
    /\ \A n \in DOMAIN pos.todo : pos.todo[n] \in DOMAIN orders
    /\ \A t \in Tables \cup {All} : \A n \in DOMAIN screen.rows[t] : screen.rows[t][n] \in Row
    /\ meant \in 0 .. Every

\* What the drawn tab has room for is what the table of orders holds.
ShowsNow ==
    /\ screen.tab = "HOME" => \A t \in InView(pos.grid_row, pos.grid_col) :
                                  screen.rows[t] = Rows(orders, t)
    /\ screen.tab = "PAYMENT" =>
           screen.rows[pos.table] =
               RowsOf(orders, pos.table, Fits(Len(Listed(orders, pos.table))))

\* Nothing has changed that the next look at orders_revision will not show.
NoNews == lock = "none" /\ orders_revision = pos.last_rev

\* While the loop waits for a key, the screen is up to date unless the next
\* look at orders_revision will say so: no change gets lost between the
\* unlocked read of the counter, the drawing under the lock and the counting
\* (ui.c 1592-1660).
StaleMeansNews ==
    pos.pc = "key" /\ NoNews => ShowsNow /\ screen.tab = pos.tab

\* On an up-to-date payment list the selection is one of the listed orders,
\* and that order is the one highlighted if its row fits the terminal: the
\* index never outlives its list and never means another row (ui.c 1123-1140,
\* 1633, 1744-1765).  Where it does not fit nothing is highlighted, though the
\* order can be selected and paid.
SelectedIsHighlighted ==
    /\ pos.pc = "key" /\ NoNews
    /\ pos.tab = "PAYMENT" /\ Listed(orders, pos.table) # << >>
    => /\ pos.sel + 1 \in DOMAIN Listed(orders, pos.table)
       /\ Highlighted = IF pos.sel < MAX_ROWS
                        THEN Listed(orders, pos.table)[pos.sel + 1] ELSE None

\* Enter on a drawn list pays the order that was highlighted, however many
\* orders came in since it was drawn, unless one of the list was cancelled.
EnterPaysItsRow ==
    pos.pc = "pay" /\ meant \notin {None, Every} =>
        \/ Head(pos.todo) = meant
        \/ \E n \in DOMAIN screen.rows[pos.table] :
               orders[screen.rows[pos.table][n].at].status = "CANCELLED"

\* A call of a table in view of the cursor that is not on the home screen
\* will be drawn at the next look, as long as no two threads counted
\* staff_revision at once.  A call from outside the view is noticed too, but
\* drawn only when the cursor has come near.
CallsAreShownUnlessRaced ==
    pos.pc = "key" /\ screen.tab = "HOME" /\ ~ raced
    /\ staff_revision = pos.last_staff_rev /\ (\A w \in Counters : ~ Counting(w)) =>
        \A t \in InView(pos.grid_row, pos.grid_col) : staff_call[t] => screen.staff[t]

(* What the documentation says and the code does not do *)

\* docs/demo_scenario.md: an order is selected on the payment tab and paid
\* with Enter.
EnterPaysTheSelected ==
    pos.pc = "pay" /\ meant # Every => Head(pos.todo) = meant
=============================================================================
