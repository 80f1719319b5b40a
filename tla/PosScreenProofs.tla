-------------------------- MODULE PosScreenProofs ---------------------------
(***************************************************************************)
(* Proofs about PosScreen: for any tables, orders, sessions and number of  *)
(* changes, and any size of the terminal, a screen that is behind knows    *)
(* that it is, a call in view that is not on the home screen will be drawn *)
(* unless two counts overlapped, the row that is highlighted is that of    *)
(* the selected order, and Enter acts on it.                               *)
(***************************************************************************)
EXTENDS PosScreen, TLAPS, FiniteSetTheorems, SequenceTheorems, WellFoundedInduction

Tabs == {"HOME", "PAYMENT", "OTHER"}
Steps == {"look", "lookStaff", "draw", "key", "collect", "read", "pay"}

\* What the proofs need of the types: the fields of the records, not what the
\* lists of orders in them hold.
Types ==
    /\ orders_revision \in Nat /\ staff_revision \in Nat
    /\ staff_call \in [Tables -> BOOLEAN]
    /\ count \in [Counters -> [step : {"idle", "read", "write"}, seen : Nat]]
    /\ pos \in [pc : Steps, tab : Tabs, grid_row : {pos.grid_row},
                grid_col : {pos.grid_col}, table : Tables \cup {All},
                sel : {pos.sel}, last_rev : Nat, last_staff_rev : Nat,
                dirty : BOOLEAN, left : SUBSET Tables, box : Tables \cup {None},
                todo : {pos.todo}]
    /\ screen \in [tab : Tabs, rows : {screen.rows}, staff : [Tables -> BOOLEAN]]
    /\ screen.rows = [t \in Tables \cup {All} |-> screen.rows[t]]

\* Places of the loop at which nothing is being drawn or paid.
Between == {"look", "lookStaff", "key", "collect", "read"}

\* The tables in view of the cursor.
View == InView(pos.grid_row, pos.grid_col)

\* The cursor is on the grid, and what is left to draw is in its view.
GridHeld ==
    /\ pos.grid_row \in 0 .. (GRID_ROWS - 1) /\ pos.grid_col \in 0 .. (GRID_COLS - 1)
    /\ pos.left \subseteq View
    /\ pos.box \in pos.left \cup {None}
    /\ pos.pc # "draw" \/ pos.tab # "HOME" => pos.left = {}

\* Where the loop stands.
Control ==
    /\ pos.pc = "key" => ~ pos.dirty
    /\ pos.pc = "pay" => pos.dirty
    /\ pos.pc = "draw" => screen.tab = pos.tab

\* What has been drawn is what there is, or the counter of changes tells.
OrdersSeen ==
    /\ pos.last_rev <= orders_revision
    /\ NoNews =>
           /\ pos.pc \in Between /\ ~ pos.dirty => ShowsNow /\ screen.tab = pos.tab
           /\ pos.pc = "draw" /\ pos.tab = "HOME" =>
                  \A t \in View : t \notin pos.left \/ t = pos.box
                                      => screen.rows[t] = Rows(orders, t)

\* The look at staff_revision will not show anything either.
NoCalls ==
    /\ ~ raced /\ staff_revision = pos.last_staff_rev
    /\ \A w \in Counters : ~ Counting(w)

\* The same for the calls of tables.
CallsSeen ==
    /\ ~ raced => pos.last_staff_rev <= staff_revision
    /\ NoCalls =>
           /\ pos.pc \in Between /\ ~ pos.dirty /\ screen.tab = "HOME" =>
                  \A t \in View : staff_call[t] => screen.staff[t]
           /\ pos.pc = "draw" /\ pos.tab = "HOME" =>
                  \A t \in View \ pos.left : staff_call[t] => screen.staff[t]

IInv == Types /\ Control /\ GridHeld /\ OrdersSeen /\ CallsSeen

-----------------------------------------------------------------------------
(* Every step keeps the invariant *)

\* What layout_find_at finds is a table.
LEMMA FoundIsTable == layout_find_at # None => layout_find_at \in Tables
<1> DEFINE Under(t) == Cell[t] = [row |-> pos.grid_row, col |-> pos.grid_col]
<1>1. (\E t \in Tables : Under(t)) => (CHOOSE t \in Tables : Under(t)) \in Tables
  <2> HIDE DEF Under
  <2> QED OBVIOUS
<1> QED BY <1>1 DEF layout_find_at

\* Tables in view are tables of the layout.
LEMMA ViewIsTables == View \subseteq Tables /\ \A r, c : InView(r, c) \subseteq Tables
BY DEF View, InView

\* What the look at staff_revision does to each field.
LEMMA LookAtStaffFacts ==
    ASSUME Types, LookAtStaff
    PROVE  /\ pos.pc = "lookStaff" /\ UNCHANGED <<ordersVars, staffVars, meant>>
           /\ pos'.tab = pos.tab /\ pos'.table = pos.table /\ pos'.sel = pos.sel
           /\ pos'.grid_row = pos.grid_row /\ pos'.grid_col = pos.grid_col
           /\ pos'.last_rev = pos.last_rev /\ pos'.last_staff_rev = staff_revision
           /\ pos'.box = pos.box /\ pos'.todo = pos.todo
           /\ pos'.dirty = (pos.dirty \/ staff_revision # pos.last_staff_rev)
           /\ pos'.pc = IF pos'.dirty THEN "draw" ELSE "key"
           /\ pos'.left = IF pos'.dirty /\ pos.tab = "HOME" THEN View ELSE {}
           /\ screen' = IF pos'.dirty THEN Blank(pos.tab) ELSE screen
           /\ View' = View
<1> DEFINE p == IF staff_revision # pos.last_staff_rev THEN StaffNews(pos) ELSE pos
           over(d) == [p EXCEPT !.pc = IF d THEN "draw" ELSE "key",
                                !.left = IF d /\ p.tab = "HOME"
                                         THEN InView(p.grid_row, p.grid_col) ELSE {}]
<1>1. /\ p \in [pc : Steps, tab : Tabs, grid_row : {pos.grid_row}, grid_col : {pos.grid_col},
                table : Tables \cup {All}, sel : {pos.sel}, last_rev : Nat,
                last_staff_rev : Nat, dirty : BOOLEAN, left : SUBSET Tables,
                box : Tables \cup {None}, todo : {pos.todo}]
      /\ p.tab = pos.tab /\ p.table = pos.table /\ p.last_rev = pos.last_rev
      /\ p.last_staff_rev = staff_revision /\ p.box = pos.box
      /\ p.dirty = (pos.dirty \/ staff_revision # pos.last_staff_rev)
  BY DEF Types, StaffNews
<1>2. /\ pos' = over(p.dirty) /\ screen' = IF p.dirty THEN Blank(p.tab) ELSE screen
      /\ pos.pc = "lookStaff" /\ UNCHANGED <<ordersVars, staffVars, meant>>
  BY DEF LookAtStaff, At
<1> HIDE DEF p
<1>3. /\ pos'.tab = p.tab /\ pos'.table = p.table /\ pos'.sel = p.sel
      /\ pos'.grid_row = p.grid_row /\ pos'.grid_col = p.grid_col
      /\ pos'.last_rev = p.last_rev /\ pos'.last_staff_rev = p.last_staff_rev
      /\ pos'.box = p.box /\ pos'.todo = p.todo /\ pos'.dirty = p.dirty
      /\ pos'.pc = IF p.dirty THEN "draw" ELSE "key"
      /\ pos'.left = IF p.dirty /\ p.tab = "HOME" THEN InView(p.grid_row, p.grid_col) ELSE {}
  BY <1>1, <1>2
<1>4. p.grid_row = pos.grid_row /\ p.grid_col = pos.grid_col /\ p.sel = pos.sel
      /\ p.todo = pos.todo
  BY <1>1
<1> HIDE DEF over
<1>5. View' = View
  BY <1>3, <1>4 DEF View
<1> QED BY <1>1, <1>2, <1>3, <1>4, <1>5 DEF View

\* An arrow moves the cursor by one cell within the grid.
LEMMA ArrowFacts ==
    ASSUME Types, Arrow
    PROVE  /\ pos'.pc = "look" /\ pos'.dirty /\ pos'.left = pos.left /\ pos'.box = pos.box
           /\ pos'.tab = pos.tab /\ pos'.table = pos.table /\ pos'.sel = pos.sel
           /\ pos'.last_rev = pos.last_rev /\ pos'.last_staff_rev = pos.last_staff_rev
           /\ pos'.todo = pos.todo
           /\ \/ pos'.grid_col = pos.grid_col
                 /\ \/ pos.grid_row > 0 /\ pos'.grid_row = pos.grid_row - 1
                    \/ pos.grid_row + 1 < GRID_ROWS /\ pos'.grid_row = pos.grid_row + 1
              \/ pos'.grid_row = pos.grid_row
                 /\ \/ pos.grid_col > 0 /\ pos'.grid_col = pos.grid_col - 1
                    \/ pos.grid_col + 1 < GRID_COLS /\ pos'.grid_col = pos.grid_col + 1
<1>1. CASE pos.grid_row > 0 /\ pos' = Redraw([pos EXCEPT !.grid_row = @ - 1])
  BY <1>1 DEF Types, Redraw
<1>2. CASE pos.grid_row + 1 < GRID_ROWS /\ pos' = Redraw([pos EXCEPT !.grid_row = @ + 1])
  BY <1>2 DEF Types, Redraw
<1>3. CASE pos.grid_col > 0 /\ pos' = Redraw([pos EXCEPT !.grid_col = @ - 1])
  BY <1>3 DEF Types, Redraw
<1>4. CASE pos.grid_col + 1 < GRID_COLS /\ pos' = Redraw([pos EXCEPT !.grid_col = @ + 1])
  BY <1>4 DEF Types, Redraw
<1> QED BY <1>1, <1>2, <1>3, <1>4 DEF Arrow

\* Records keep their fields, and counters count.
LEMMA TypesStep == Types /\ [Next]_vars => Types'
<1> SUFFICES ASSUME Types, [Next]_vars PROVE Types'
  OBVIOUS
<1>1. CASE SessionChangesOrder
  BY <1>1 DEF Types, Tabs, Steps, Counters, Counting, MayCount, None, All, ordersVars, staffVars, posVars, SessionChangesOrder
<1>2. CASE server_touch_orders
  BY <1>2 DEF Types, Tabs, Steps, Counters, Counting, MayCount, None, All, ordersVars, staffVars, posVars, server_touch_orders
<1>3. ASSUME NEW w \in Sessions, NEW t \in Tables, handle_call_staff(w, t) PROVE Types'
  BY <1>3 DEF Types, Tabs, Steps, Counters, Counting, MayCount, None, All, ordersVars, staffVars, posVars, handle_call_staff
<1>4. ASSUME NEW w \in Counters, ReadStaffRevision(w) PROVE Types'
  BY <1>4 DEF Types, Tabs, Steps, Counters, Counting, MayCount, None, All, ordersVars, staffVars, posVars, ReadStaffRevision, Idle
<1>5. ASSUME NEW w \in Counters, WriteStaffRevision(w) PROVE Types'
  BY <1>5 DEF Types, Tabs, Steps, Counters, Counting, MayCount, None, All, ordersVars, staffVars, posVars, WriteStaffRevision, Idle
<1>6. ASSUME NEW t \in Tables, StaffCallExpires(t) PROVE Types'
  BY <1>6 DEF Types, Tabs, Steps, Counters, Counting, MayCount, None, All, ordersVars, staffVars, posVars, StaffCallExpires
<1>7. CASE LookAtOrders
  BY <1>7 DEF Types, Tabs, Steps, Counters, Counting, MayCount, None, All, ordersVars, staffVars, posVars, At, LookAtOrders, OrdersNews
<1>8. CASE LookAtStaff
  <2>1. (staff_revision # pos.last_staff_rev) \in BOOLEAN /\ InView(pos.grid_row, pos.grid_col) \in SUBSET Tables
    BY ViewIsTables
  <2> QED BY ZenonT(40), <1>8, <2>1 DEF Types, Tabs, Steps, None, All, ordersVars, staffVars, At, LookAtStaff, StaffNews, Blank
<1>9. CASE Draw
  <2>1. ASSUME NEW t \in Tables, ui_pos_table_summary(t), UNCHANGED <<ordersVars, staffVars>>
        PROVE  Types'
    <3>1. pos' = [pos EXCEPT !.box = t]
      BY <2>1 DEF ui_pos_table_summary
    <3>2. screen' = [screen EXCEPT !.rows = [@ EXCEPT ![t] = Rows(orders, t)]]
      BY <2>1 DEF ui_pos_table_summary
    <3> QED BY <2>1, <3>1, <3>2 DEF Types, Tabs, Steps, ordersVars, staffVars
  <2>2. ASSUME NEW t \in Tables, ui_pos_staff_active(t), UNCHANGED <<ordersVars, staffVars>>
        PROVE  Types'
    <3>1. pos' = [pos EXCEPT !.left = @ \ {t}, !.box = None]
      BY <2>2 DEF ui_pos_staff_active
    <3>2. screen' = [screen EXCEPT !.staff = [@ EXCEPT ![t] = staff_call[t]]]
      BY <2>2 DEF ui_pos_staff_active
    <3> QED BY <2>2, <3>1, <3>2 DEF Types, Tabs, Steps, ordersVars, staffVars
  <2>3. ASSUME ui_draw_pos_payment, UNCHANGED <<ordersVars, staffVars>> PROVE Types'
    BY <2>3 DEF Types, Tabs, Steps, ui_draw_pos_payment, Drawn, ordersVars, staffVars
  <2>4. ASSUME Refresh, UNCHANGED <<ordersVars, staffVars>> PROVE Types'
    BY <2>4 DEF Types, Tabs, Steps, Refresh, Drawn, ordersVars, staffVars
  <2>5. pos.left \subseteq Tables
    BY DEF Types
  <2> QED BY <1>9, <2>1, <2>2, <2>3, <2>4, <2>5 DEF Draw
<1>10. CASE PlainKey
  <2>1. UNCHANGED <<ordersVars, staffVars, screen>>
    BY <1>10 DEF PlainKey
  <2>2. CASE pos' = Loop(pos)
    BY <2>1, <2>2 DEF Types, Steps, Loop, ordersVars, staffVars
  <2>3. ASSUME NEW tab \in Tabs, pos' = Redraw([pos EXCEPT !.tab = tab]) PROVE Types'
    BY <2>1, <2>3 DEF Types, Steps, Redraw, ordersVars, staffVars
  <2>4. ASSUME NEW r, pos' = Redraw([pos EXCEPT !.grid_row = r]) PROVE Types'
    BY <2>1, <2>4 DEF Types, Steps, Redraw, ordersVars, staffVars
  <2>5. ASSUME NEW c, pos' = Redraw([pos EXCEPT !.grid_col = c]) PROVE Types'
    BY <2>1, <2>5 DEF Types, Steps, Redraw, ordersVars, staffVars
  <2>6. Arrow => Types'
    BY <2>4, <2>5 DEF Arrow
  <2> QED BY <1>10, <2>2, <2>3, <2>6 DEF PlainKey, Tabs
<1>11. CASE HomeEnter
  BY <1>11, FoundIsTable DEF Types, Tabs, Steps, Counters, Counting, MayCount, None, All, ordersVars, staffVars, posVars, At, HomeEnter
<1>12. CASE ClearCall
  BY ZenonT(40), <1>12 DEF Types, Tabs, Steps, Counters, Counting, MayCount, None, All, ordersVars, staffVars, posVars, At, ClearCall, Redraw
<1>13. CASE PaymentKey
  BY ZenonT(40), <1>13 DEF Types, Tabs, Steps, Counters, Counting, MayCount, None, All, ordersVars, staffVars, posVars, At, PaymentKey, Redraw
<1>14. CASE PaymentEnter
  BY <1>14 DEF Types, Tabs, Steps, Counters, Counting, MayCount, None, All, ordersVars, staffVars, posVars, At, PaymentEnter
<1>15. CASE CollectForEnter
  BY <1>15 DEF Types, Tabs, Steps, Counters, Counting, MayCount, None, All, ordersVars, staffVars, posVars, At, CollectForEnter, Loop
<1>16. CASE ReadForEnter
  BY <1>16 DEF Types, Tabs, Steps, Counters, Counting, MayCount, None, All, ordersVars, staffVars, posVars, At, ReadForEnter, Loop
<1>17. CASE ui_pos_collect_table_done_ids
  BY <1>17 DEF Types, Tabs, Steps, Counters, Counting, MayCount, None, All, ordersVars, staffVars, posVars, At, ui_pos_collect_table_done_ids, Loop
<1>18. CASE server_pay_order
  BY <1>18 DEF Types, Tabs, Steps, Counters, Counting, MayCount, None, All, ordersVars, staffVars, posVars, At, server_pay_order
<1>19. CASE UNCHANGED vars
  BY <1>19 DEF Types, Tabs, Steps, Counters, Counting, MayCount, None, All, ordersVars, staffVars, posVars, vars
<1> QED
  BY <1>1, <1>2, <1>3, <1>4, <1>5, <1>6, <1>7, <1>8, <1>9, <1>10, <1>11, <1>12, <1>13, <1>14, <1>15, <1>16, <1>17, <1>18, <1>19 DEF Next, PosStep

\* Where the loop stands follows from its steps.
LEMMA ControlStep == Types /\ Control /\ [Next]_vars => Control'
<1> SUFFICES ASSUME Types /\ Control, [Next]_vars PROVE Control'
  OBVIOUS
<1>1. CASE SessionChangesOrder
  BY <1>1 DEF Types, Control, Steps, Tabs, ordersVars, staffVars, posVars, SessionChangesOrder
<1>2. CASE server_touch_orders
  BY <1>2 DEF Types, Control, Steps, Tabs, ordersVars, staffVars, posVars, server_touch_orders
<1>3. ASSUME NEW w \in Sessions, NEW t \in Tables, handle_call_staff(w, t) PROVE Control'
  BY <1>3 DEF Types, Control, Steps, Tabs, ordersVars, staffVars, posVars, handle_call_staff
<1>4. ASSUME NEW w \in Counters, ReadStaffRevision(w) PROVE Control'
  BY <1>4 DEF Types, Control, Steps, Tabs, ordersVars, staffVars, posVars, ReadStaffRevision, Idle
<1>5. ASSUME NEW w \in Counters, WriteStaffRevision(w) PROVE Control'
  BY <1>5 DEF Types, Control, Steps, Tabs, ordersVars, staffVars, posVars, WriteStaffRevision, Idle
<1>6. ASSUME NEW t \in Tables, StaffCallExpires(t) PROVE Control'
  BY <1>6 DEF Types, Control, Steps, Tabs, ordersVars, staffVars, posVars, StaffCallExpires
<1>7. CASE LookAtOrders
  BY <1>7 DEF Types, Control, Steps, Tabs, ordersVars, staffVars, posVars, At, LookAtOrders, OrdersNews
<1>8. CASE LookAtStaff
  BY <1>8, LookAtStaffFacts DEF Control, Blank
<1>9. CASE Draw
  BY <1>9 DEF Types, Control, Steps, Tabs, ordersVars, staffVars, posVars, At, Draw, ui_pos_table_summary, ui_pos_staff_active, ui_draw_pos_payment, Refresh, Drawn
<1>10. CASE PlainKey
  BY ZenonT(40), <1>10 DEF Types, Control, Steps, Tabs, ordersVars, staffVars, posVars, At, PlainKey, Arrow, Loop, Redraw
<1>11. CASE HomeEnter
  BY <1>11 DEF Types, Control, Steps, Tabs, ordersVars, staffVars, posVars, At, HomeEnter
<1>12. CASE ClearCall
  BY <1>12 DEF Types, Control, Steps, Tabs, ordersVars, staffVars, posVars, At, ClearCall, Redraw
<1>13. CASE PaymentKey
  BY <1>13 DEF Types, Control, Steps, Tabs, ordersVars, staffVars, posVars, At, PaymentKey, Redraw
<1>14. CASE PaymentEnter
  BY <1>14 DEF Types, Control, Steps, Tabs, ordersVars, staffVars, posVars, At, PaymentEnter
<1>15. CASE CollectForEnter
  BY <1>15 DEF Types, Control, Steps, Tabs, ordersVars, staffVars, posVars, At, CollectForEnter, Loop
<1>16. CASE ReadForEnter
  BY <1>16 DEF Types, Control, Steps, Tabs, ordersVars, staffVars, posVars, At, ReadForEnter, Loop
<1>17. CASE ui_pos_collect_table_done_ids
  BY <1>17 DEF Types, Control, Steps, Tabs, ordersVars, staffVars, posVars, At, ui_pos_collect_table_done_ids, Loop
<1>18. CASE server_pay_order
  BY <1>18 DEF Types, Control, Steps, Tabs, ordersVars, staffVars, posVars, At, server_pay_order
<1>19. CASE UNCHANGED vars
  BY <1>19 DEF Types, Control, Steps, Tabs, ordersVars, staffVars, posVars, vars
<1> QED
  BY <1>1, <1>2, <1>3, <1>4, <1>5, <1>6, <1>7, <1>8, <1>9, <1>10, <1>11, <1>12, <1>13, <1>14, <1>15, <1>16, <1>17, <1>18, <1>19 DEF Next, PosStep

\* Arrows keep the cursor on the grid, drawing keeps to its view.
LEMMA GridStep == Types /\ Control /\ GridHeld /\ [Next]_vars => GridHeld'
<1> SUFFICES ASSUME Types, Control, GridHeld, [Next]_vars PROVE GridHeld'
  OBVIOUS
<1>1. ASSUME pos'.grid_row = pos.grid_row, pos'.grid_col = pos.grid_col,
             pos'.left = pos.left, pos'.box = pos.box,
             pos'.pc # "draw" \/ pos'.tab # "HOME" => pos.left = {}
      PROVE  GridHeld'
  BY <1>1 DEF GridHeld, View
<1>2. CASE UNCHANGED pos
  BY <1>2 DEF GridHeld, View
<1>3. CASE LookAtOrders
  BY <1>1, <1>3 DEF LookAtOrders, At, OrdersNews, Types, GridHeld
<1>4. CASE LookAtStaff
  <2>1. pos.left = {} /\ pos.box = None
    BY <1>4, LookAtStaffFacts DEF GridHeld
  <2>2. /\ pos'.grid_row = pos.grid_row /\ pos'.grid_col = pos.grid_col
        /\ pos'.box = pos.box /\ pos'.tab = pos.tab /\ View' = View
        /\ \/ pos'.left = {}
           \/ pos'.pc = "draw" /\ pos.tab = "HOME" /\ pos'.left = View
    BY <1>4, LookAtStaffFacts
  <2> QED BY <2>1, <2>2 DEF GridHeld
<1>5. CASE Draw
  <2>1. pos.pc = "draw"
    BY <1>5 DEF Draw, At
  <2>2. ASSUME NEW t \in pos.left, ui_pos_table_summary(t) PROVE GridHeld'
    BY <2>1, <2>2 DEF ui_pos_table_summary, Types, GridHeld, View
  <2>3. ASSUME NEW t \in pos.left, ui_pos_staff_active(t) PROVE GridHeld'
    BY <2>1, <2>3 DEF ui_pos_staff_active, Types, GridHeld, View
  <2>4. CASE ui_draw_pos_payment \/ Refresh
    BY ZenonT(40), <1>1, <2>1, <2>4 DEF ui_draw_pos_payment, Refresh, Drawn, Types, GridHeld
  <2> QED BY <1>5, <2>2, <2>3, <2>4 DEF Draw
<1>6. ASSUME pos.pc = "key", pos' = Loop(pos) \/ \E tab \in Tabs : pos' = Redraw([pos EXCEPT !.tab = tab])
      PROVE  GridHeld'
  BY ZenonT(40), <1>1, <1>6 DEF Loop, Redraw, Types, GridHeld
<1>7. CASE PlainKey
  <2>1. pos.pc = "key" /\ pos.left = {} /\ pos.box = None
    BY <1>7 DEF PlainKey, At, GridHeld
  <2>2. ASSUME Arrow PROVE GridHeld'
    <3>1. /\ pos'.left = {} /\ pos'.box = None
          /\ pos'.grid_row \in 0 .. (GRID_ROWS - 1) /\ pos'.grid_col \in 0 .. (GRID_COLS - 1)
      BY <2>1, <2>2, ArrowFacts, PosAssumption DEF GridHeld
    <3> QED BY <3>1 DEF GridHeld
  <2> QED BY <1>6, <1>7, <2>1, <2>2 DEF PlainKey, Tabs
<1>8. CASE HomeEnter \/ ClearCall \/ PaymentEnter
  BY ZenonT(40), <1>1, <1>8 DEF HomeEnter, ClearCall, PaymentEnter, At, Redraw, Types, GridHeld
<1>9. CASE PaymentKey
  <2>1. pos.pc = "key"
    BY <1>9 DEF PaymentKey, At
  <2>2. ASSUME NEW sel, pos' = Redraw([pos EXCEPT !.sel = sel]) PROVE GridHeld'
    BY <1>1, <2>1, <2>2 DEF Redraw, Types, GridHeld
  <2>3. ASSUME NEW t, pos' = Redraw([pos EXCEPT !.table = t, !.sel = 0]) PROVE GridHeld'
    BY <1>1, <2>1, <2>3 DEF Redraw, Types, GridHeld
  <2> QED BY <1>9, <2>2, <2>3 DEF PaymentKey
<1>10. CASE CollectForEnter
  BY <1>1, <1>10 DEF CollectForEnter, At, Loop, Types, GridHeld
<1>11. CASE ReadForEnter
  BY <1>1, <1>11 DEF ReadForEnter, At, Loop, Types, GridHeld
<1>12. CASE ui_pos_collect_table_done_ids
  BY <1>1, <1>12 DEF ui_pos_collect_table_done_ids, At, Loop, Types, GridHeld
<1>13. CASE server_pay_order
  BY <1>1, <1>13 DEF server_pay_order, At, Types, GridHeld
<1> QED
  BY <1>2, <1>3, <1>4, <1>5, <1>7, <1>8, <1>9, <1>10, <1>11, <1>12, <1>13
     DEF Next, PosStep, vars, posVars, SessionChangesOrder, server_touch_orders,
         handle_call_staff, ReadStaffRevision, WriteStaffRevision, StaffCallExpires

\* Whatever a session changes, it counts before it unlocks; whatever the loop
\* changes of what should be drawn, it marks dirty.
LEMMA OrdersStep == Types /\ Control /\ GridHeld /\ OrdersSeen /\ [Next]_vars => OrdersSeen'
<1> SUFFICES ASSUME Types /\ Control /\ GridHeld /\ OrdersSeen, [Next]_vars PROVE OrdersSeen'
  OBVIOUS
<1>1. CASE SessionChangesOrder
  BY <1>1 DEF Types, Control, OrdersSeen, NoNews, ShowsNow, Between, View, ordersVars, staffVars, posVars, SessionChangesOrder
<1>2. CASE server_touch_orders
  BY <1>2 DEF Types, Control, OrdersSeen, NoNews, ShowsNow, Between, View, ordersVars, staffVars, posVars, server_touch_orders
<1>3. ASSUME NEW w \in Sessions, NEW t \in Tables, handle_call_staff(w, t) PROVE OrdersSeen'
  BY <1>3 DEF Types, Control, OrdersSeen, NoNews, ShowsNow, Between, View, ordersVars, staffVars, posVars, handle_call_staff
<1>4. ASSUME NEW w \in Counters, ReadStaffRevision(w) PROVE OrdersSeen'
  BY <1>4 DEF Types, Control, OrdersSeen, NoNews, ShowsNow, Between, View, ordersVars, staffVars, posVars, ReadStaffRevision, Idle
<1>5. ASSUME NEW w \in Counters, WriteStaffRevision(w) PROVE OrdersSeen'
  BY <1>5 DEF Types, Control, OrdersSeen, NoNews, ShowsNow, Between, View, ordersVars, staffVars, posVars, WriteStaffRevision, Idle
<1>6. ASSUME NEW t \in Tables, StaffCallExpires(t) PROVE OrdersSeen'
  BY <1>6 DEF Types, Control, OrdersSeen, NoNews, ShowsNow, Between, View, ordersVars, staffVars, posVars, StaffCallExpires
<1>7. CASE LookAtOrders
  <2>1. /\ UNCHANGED <<orders, orders_revision, lock, screen>> /\ pos'.pc = "lookStaff"
        /\ pos.pc = "look" /\ pos'.tab = pos.tab /\ pos'.table = pos.table
        /\ pos'.grid_row = pos.grid_row /\ pos'.grid_col = pos.grid_col
        /\ \/ pos'.last_rev = orders_revision /\ pos'.dirty
           \/ pos'.last_rev = pos.last_rev /\ pos'.dirty = pos.dirty
    BY <1>7 DEF LookAtOrders, At, OrdersNews, ordersVars, Types
  <2>2. ShowsNow /\ screen.tab = pos.tab => ShowsNow' /\ screen'.tab = pos'.tab
    BY <2>1 DEF ShowsNow
  <2>3. orders_revision \in Nat
    BY DEF Types
  <2> QED BY <2>1, <2>2, <2>3 DEF OrdersSeen, NoNews, Between
<1>8. CASE LookAtStaff
  <2>1. UNCHANGED <<orders, orders_revision, lock>>
    BY <1>8, LookAtStaffFacts DEF ordersVars
  <2>2. pos.left = {} /\ pos.box = None
    BY <1>8, LookAtStaffFacts DEF GridHeld
  <2>3. CASE pos'.dirty
    <3>1. pos'.pc = "draw" /\ pos'.last_rev = pos.last_rev /\ pos'.box = None /\ View' = View
          /\ (pos'.tab = "HOME" => pos'.left = View)
      BY <1>8, <2>2, <2>3, LookAtStaffFacts
    <3>2. None \notin View
      BY ViewIsTables, PosAssumption DEF None
    <3> QED BY <2>1, <3>1, <3>2 DEF OrdersSeen, NoNews, Between
  <2>4. CASE ~ pos'.dirty
    <3>1. pos.pc = "lookStaff" /\ ~ pos.dirty /\ pos'.pc = "key" /\ screen' = screen
          /\ pos'.last_rev = pos.last_rev /\ pos'.tab = pos.tab /\ pos'.table = pos.table
          /\ pos'.grid_row = pos.grid_row /\ pos'.grid_col = pos.grid_col
      BY <1>8, <2>4, LookAtStaffFacts DEF Types
    <3>2. ShowsNow => ShowsNow'
      BY <2>1, <3>1 DEF ShowsNow
    <3> QED BY <2>1, <3>1, <3>2 DEF OrdersSeen, NoNews, Between
  <2> QED BY <2>3, <2>4
<1>9. CASE Draw
  <2>0. /\ pos.pc = "draw" /\ screen.tab = pos.tab
        /\ UNCHANGED <<orders, orders_revision, lock>>
    BY <1>9 DEF Draw, At, Control, ordersVars, staffVars
  <2>1. ASSUME NEW t \in pos.left, ui_pos_table_summary(t) PROVE OrdersSeen'
    <3>1. pos.tab = "HOME" /\ pos' = [pos EXCEPT !.box = t] /\ t \in Tables
      BY <2>1 DEF ui_pos_table_summary, Types
    <3>2. \A u \in Tables : screen'.rows[u] = IF u = t THEN Rows(orders, t) ELSE screen.rows[u]
      BY <2>1, <3>1 DEF ui_pos_table_summary, Types, All
    <3>3. /\ pos'.left = pos.left /\ pos'.tab = "HOME" /\ pos'.box = t /\ pos'.pc = "draw"
          /\ pos.box = None /\ screen'.tab = "HOME"
          /\ pos'.last_rev = pos.last_rev /\ pos'.last_staff_rev = pos.last_staff_rev
          /\ View' = View
      BY <2>0, <2>1, <3>1 DEF ui_pos_table_summary, Types, View
    <3> QED BY <2>0, <3>1, <3>2, <3>3, ViewIsTables, PosAssumption DEF OrdersSeen, NoNews, ShowsNow, Between
  <2>2. ASSUME NEW t \in pos.left, ui_pos_staff_active(t) PROVE OrdersSeen'
    <3>1. pos' = [pos EXCEPT !.left = @ \ {t}, !.box = None] /\ t \in Tables /\ pos.box = t
      BY <2>2 DEF ui_pos_staff_active, Types
    <3>2. screen'.rows = screen.rows
      BY <2>2, <3>1 DEF ui_pos_staff_active, Types
    <3>3. /\ pos'.left = pos.left \ {t} /\ pos'.tab = pos.tab /\ pos'.box = None
          /\ pos'.pc = "draw" /\ screen'.tab = screen.tab
          /\ pos'.last_rev = pos.last_rev /\ pos'.last_staff_rev = pos.last_staff_rev
          /\ View' = View
      BY <2>0, <2>2, <3>1 DEF ui_pos_staff_active, Types, View
    <3> QED BY <2>0, <3>1, <3>2, <3>3, ViewIsTables, PosAssumption DEF OrdersSeen, NoNews, ShowsNow, Between, None
  <2>3. CASE ui_draw_pos_payment
    <3>1. /\ pos.tab = "PAYMENT" /\ pos' = Drawn /\ pos.table \in Tables \cup {All}
          /\ screen'.tab = "PAYMENT"
          /\ screen'.rows[pos.table] =
                 RowsOf(orders, pos.table, Fits(Len(Listed(orders, pos.table))))
      BY <2>0, <2>3 DEF ui_draw_pos_payment, Types
    <3>2. /\ pos'.tab = "PAYMENT" /\ pos'.table = pos.table /\ pos'.pc = "key"
          /\ pos'.last_rev = pos.last_rev /\ pos'.last_staff_rev = pos.last_staff_rev
      BY <3>1 DEF Drawn, Types
    <3> QED BY <2>0, <3>1, <3>2 DEF OrdersSeen, NoNews, ShowsNow, Between
  <2>4. CASE Refresh
    <3>1. /\ pos.tab # "PAYMENT" /\ pos.left = {} /\ screen' = screen
          /\ pos'.tab = pos.tab /\ pos'.pc = "key"
          /\ pos'.last_rev = pos.last_rev /\ pos'.last_staff_rev = pos.last_staff_rev
          /\ View' = View
      BY <2>4 DEF Refresh, Drawn, Types, View
    <3> QED BY <2>0, <3>1 DEF OrdersSeen, NoNews, ShowsNow, Between, View
  <2> QED BY <1>9, <2>1, <2>2, <2>3, <2>4 DEF Draw
<1>10. CASE PlainKey
  <2>1. UNCHANGED <<orders, orders_revision, lock, screen>>
    BY <1>10 DEF PlainKey, ordersVars
  <2>2. ASSUME pos'.dirty, pos'.pc = "look", pos'.last_rev = pos.last_rev PROVE OrdersSeen'
    BY <2>1, <2>2 DEF OrdersSeen, NoNews
  <2>3. CASE Arrow
    BY <2>2, <2>3, ArrowFacts
  <2>4. ASSUME NEW tab \in {"HOME", "PAYMENT", "OTHER"}, pos' = Redraw([pos EXCEPT !.tab = tab])
        PROVE  OrdersSeen'
    BY <2>2, <2>4 DEF Redraw, Types
  <2>5. CASE pos' = Loop(pos)
    <3>1. /\ pos.pc = "key" /\ pos'.pc = "look" /\ pos'.dirty = pos.dirty /\ pos'.tab = pos.tab
          /\ pos'.table = pos.table /\ pos'.last_rev = pos.last_rev
          /\ pos'.grid_row = pos.grid_row /\ pos'.grid_col = pos.grid_col
      BY <1>10, <2>5 DEF PlainKey, At, Loop, Types
    <3>2. ShowsNow => ShowsNow'
      BY <2>1, <3>1 DEF ShowsNow
    <3> QED BY <2>1, <3>1, <3>2 DEF OrdersSeen, NoNews, Between
  <2> QED BY <1>10, <2>3, <2>4, <2>5 DEF PlainKey
<1>11. CASE HomeEnter
  BY <1>11 DEF Types, Control, OrdersSeen, NoNews, ShowsNow, Between, View, ordersVars, staffVars, posVars, At, HomeEnter
<1>12. CASE ClearCall
  BY <1>12 DEF Types, Control, OrdersSeen, NoNews, ShowsNow, Between, View, ordersVars, staffVars, posVars, At, ClearCall, Redraw
<1>13. CASE PaymentKey
  BY <1>13 DEF Types, Control, OrdersSeen, NoNews, ShowsNow, Between, View, ordersVars, staffVars, posVars, At, PaymentKey, Redraw
<1>14. CASE PaymentEnter
  BY <1>14 DEF Types, Control, OrdersSeen, NoNews, ShowsNow, Between, View, ordersVars, staffVars, posVars, At, PaymentEnter
<1>15. CASE CollectForEnter
  BY <1>15 DEF Types, Control, OrdersSeen, NoNews, ShowsNow, Between, View, ordersVars, staffVars, posVars, At, CollectForEnter, Loop
<1>16. CASE ReadForEnter
  BY <1>16 DEF Types, Control, OrdersSeen, NoNews, ShowsNow, Between, View, ordersVars, staffVars, posVars, At, ReadForEnter, Loop
<1>17. CASE ui_pos_collect_table_done_ids
  BY <1>17 DEF Types, Control, OrdersSeen, NoNews, ShowsNow, Between, View, ordersVars, staffVars, posVars, At, ui_pos_collect_table_done_ids, Loop
<1>18. CASE server_pay_order
  BY <1>18 DEF Types, Control, OrdersSeen, NoNews, ShowsNow, Between, View, ordersVars, staffVars, posVars, At, server_pay_order
<1>19. CASE UNCHANGED vars
  BY <1>19 DEF Types, Control, OrdersSeen, NoNews, ShowsNow, Between, View, ordersVars, staffVars, posVars, vars
<1> QED
  BY <1>1, <1>2, <1>3, <1>4, <1>5, <1>6, <1>7, <1>8, <1>9, <1>10, <1>11, <1>12, <1>13, <1>14, <1>15, <1>16, <1>17, <1>18, <1>19 DEF Next, PosStep

\* A call is counted after it is made: in between somebody is counting.
LEMMA CallsStep == Types /\ Control /\ CallsSeen /\ [Next]_vars => CallsSeen'
<1> SUFFICES ASSUME Types /\ Control /\ CallsSeen, [Next]_vars PROVE CallsSeen'
  OBVIOUS
<1>1. CASE SessionChangesOrder
  BY <1>1 DEF Types, Control, CallsSeen, NoCalls, Counting, Between, View, Counters, ordersVars, staffVars, posVars, SessionChangesOrder
<1>2. CASE server_touch_orders
  BY <1>2 DEF Types, Control, CallsSeen, NoCalls, Counting, Between, View, Counters, ordersVars, staffVars, posVars, server_touch_orders
<1>3. ASSUME NEW w \in Sessions, NEW t \in Tables, handle_call_staff(w, t) PROVE CallsSeen'
  BY <1>3 DEF Types, Control, CallsSeen, NoCalls, Counting, Between, View, Counters, ordersVars, staffVars, posVars, handle_call_staff
<1>4. ASSUME NEW w \in Counters, ReadStaffRevision(w) PROVE CallsSeen'
  BY <1>4 DEF Types, Control, CallsSeen, NoCalls, Counting, Between, View, Counters, ordersVars, staffVars, posVars, ReadStaffRevision, Idle
<1>5. ASSUME NEW w \in Counters, WriteStaffRevision(w) PROVE CallsSeen'
  <2>1. /\ staff_revision' = count[w].seen + 1 /\ count[w].seen \in Nat
        /\ raced' = (raced \/ staff_revision # count[w].seen)
        /\ UNCHANGED <<pos, screen>>
    BY <1>5 DEF WriteStaffRevision, Types, posVars
  <2>2. ~ raced' => ~ raced /\ staff_revision' = staff_revision + 1
    BY <2>1
  <2>3. ~ raced' => pos'.last_staff_rev < staff_revision'
    BY <2>1, <2>2 DEF Types, CallsSeen
  <2>4. pos'.last_staff_rev \in Nat /\ staff_revision' \in Nat
    BY <2>1 DEF Types
  <2> QED BY <2>3, <2>4 DEF CallsSeen, NoCalls
<1>6. ASSUME NEW t \in Tables, StaffCallExpires(t) PROVE CallsSeen'
  BY <1>6 DEF Types, Control, CallsSeen, NoCalls, Counting, Between, View, Counters, ordersVars, staffVars, posVars, StaffCallExpires
<1>7. CASE LookAtOrders
  BY <1>7 DEF Types, Control, CallsSeen, NoCalls, Counting, Between, View, Counters, ordersVars, staffVars, posVars, At, LookAtOrders, OrdersNews
<1>8. CASE LookAtStaff
  BY <1>8 DEF Types, Control, CallsSeen, NoCalls, Counting, Between, View, Counters, ordersVars, staffVars, posVars, At, LookAtStaff, StaffNews, Blank
<1>9. CASE Draw
  <2>0. /\ pos.pc = "draw" /\ screen.tab = pos.tab
        /\ UNCHANGED <<staff_call, staff_revision, count, raced>>
    BY <1>9 DEF Draw, At, Control, ordersVars, staffVars
  <2>1. ASSUME NEW t \in pos.left, ui_pos_table_summary(t) PROVE CallsSeen'
    <3>1. pos.tab = "HOME" /\ pos' = [pos EXCEPT !.box = t] /\ t \in Tables
      BY <2>1 DEF ui_pos_table_summary, Types
    <3>2. screen'.staff = screen.staff
      BY <2>1, <3>1 DEF ui_pos_table_summary, Types
    <3>3. /\ pos'.left = pos.left /\ pos'.tab = "HOME" /\ pos'.box = t /\ pos'.pc = "draw"
          /\ pos.box = None /\ screen'.tab = "HOME"
          /\ pos'.last_rev = pos.last_rev /\ pos'.last_staff_rev = pos.last_staff_rev
          /\ View' = View
      BY <2>0, <2>1, <3>1 DEF ui_pos_table_summary, Types, View
    <3> QED BY <2>0, <3>1, <3>2, <3>3, ViewIsTables, PosAssumption DEF CallsSeen, NoCalls, Counting, Between
  <2>2. ASSUME NEW t \in pos.left, ui_pos_staff_active(t) PROVE CallsSeen'
    <3>1. pos' = [pos EXCEPT !.left = @ \ {t}, !.box = None] /\ t \in Tables /\ pos.box = t
      BY <2>2 DEF ui_pos_staff_active, Types
    <3>2. \A u \in Tables : screen'.staff[u] = IF u = t THEN staff_call[t] ELSE screen.staff[u]
      BY <2>2, <3>1 DEF ui_pos_staff_active, Types
    <3>3. /\ pos'.left = pos.left \ {t} /\ pos'.tab = pos.tab /\ pos'.box = None
          /\ pos'.pc = "draw" /\ screen'.tab = screen.tab
          /\ pos'.last_rev = pos.last_rev /\ pos'.last_staff_rev = pos.last_staff_rev
          /\ View' = View
      BY <2>0, <2>2, <3>1 DEF ui_pos_staff_active, Types, View
    <3> QED BY <2>0, <3>1, <3>2, <3>3, ViewIsTables, PosAssumption DEF CallsSeen, NoCalls, Counting, Between, None
  <2>3. CASE ui_draw_pos_payment
    <3>1. /\ pos.tab = "PAYMENT" /\ pos' = Drawn /\ pos.table \in Tables \cup {All}
          /\ screen'.tab = "PAYMENT"
          /\ screen'.rows[pos.table] =
                 RowsOf(orders, pos.table, Fits(Len(Listed(orders, pos.table))))
      BY <2>0, <2>3 DEF ui_draw_pos_payment, Types
    <3>2. /\ pos'.tab = "PAYMENT" /\ pos'.table = pos.table /\ pos'.pc = "key"
          /\ pos'.last_rev = pos.last_rev /\ pos'.last_staff_rev = pos.last_staff_rev
      BY <3>1 DEF Drawn, Types
    <3> QED BY <2>0, <3>1, <3>2 DEF CallsSeen, NoCalls, Counting, Between
  <2>4. CASE Refresh
    <3>1. /\ pos.tab # "PAYMENT" /\ pos.left = {} /\ screen' = screen
          /\ pos'.tab = pos.tab /\ pos'.pc = "key"
          /\ pos'.last_rev = pos.last_rev /\ pos'.last_staff_rev = pos.last_staff_rev
          /\ View' = View
      BY <2>4 DEF Refresh, Drawn, Types, View
    <3> QED BY <2>0, <3>1 DEF CallsSeen, NoCalls, Counting, Between, View
  <2> QED BY <1>9, <2>1, <2>2, <2>3, <2>4 DEF Draw
<1>10. CASE PlainKey
  BY ZenonT(40), <1>10 DEF Types, Control, CallsSeen, NoCalls, Counting, Between, View, Counters, ordersVars, staffVars, posVars, At, PlainKey, Arrow, Loop, Redraw
<1>11. CASE HomeEnter
  BY <1>11 DEF Types, Control, CallsSeen, NoCalls, Counting, Between, View, Counters, ordersVars, staffVars, posVars, At, HomeEnter
<1>12. CASE ClearCall
  BY <1>12 DEF Types, Control, CallsSeen, NoCalls, Counting, Between, View, Counters, ordersVars, staffVars, posVars, At, ClearCall, Redraw
<1>13. CASE PaymentKey
  BY <1>13 DEF Types, Control, CallsSeen, NoCalls, Counting, Between, View, Counters, ordersVars, staffVars, posVars, At, PaymentKey, Redraw
<1>14. CASE PaymentEnter
  BY <1>14 DEF Types, Control, CallsSeen, NoCalls, Counting, Between, View, Counters, ordersVars, staffVars, posVars, At, PaymentEnter
<1>15. CASE CollectForEnter
  BY <1>15 DEF Types, Control, CallsSeen, NoCalls, Counting, Between, View, Counters, ordersVars, staffVars, posVars, At, CollectForEnter, Loop
<1>16. CASE ReadForEnter
  BY <1>16 DEF Types, Control, CallsSeen, NoCalls, Counting, Between, View, Counters, ordersVars, staffVars, posVars, At, ReadForEnter, Loop
<1>17. CASE ui_pos_collect_table_done_ids
  BY <1>17 DEF Types, Control, CallsSeen, NoCalls, Counting, Between, View, Counters, ordersVars, staffVars, posVars, At, ui_pos_collect_table_done_ids, Loop
<1>18. CASE server_pay_order
  BY <1>18 DEF Types, Control, CallsSeen, NoCalls, Counting, Between, View, Counters, ordersVars, staffVars, posVars, At, server_pay_order
<1>19. CASE UNCHANGED vars
  BY <1>19 DEF Types, Control, CallsSeen, NoCalls, Counting, Between, View, Counters, ordersVars, staffVars, posVars, vars
<1> QED
  BY <1>1, <1>2, <1>3, <1>4, <1>5, <1>6, <1>7, <1>8, <1>9, <1>10, <1>11, <1>12, <1>13, <1>14, <1>15, <1>16, <1>17, <1>18, <1>19 DEF Next, PosStep

\* The invariant holds at the start.
LEMMA InvInit == Init => IInv
<1> SUFFICES ASSUME Init PROVE IInv
  OBVIOUS
<1>1. Types
  BY DEF Init, Types, Blank, Idle, Tabs, Steps, All, None
<1>2. GridHeld
  BY PosAssumption DEF Init, GridHeld
<1>3. Control /\ OrdersSeen /\ CallsSeen
  BY DEF Init, Control, OrdersSeen, CallsSeen, NoNews, NoCalls, Between, Blank
<1> QED
  BY <1>1, <1>2, <1>3 DEF IInv

\* The invariant is inductive.
LEMMA InvStep == IInv /\ [Next]_vars => IInv'
BY TypesStep, ControlStep, GridStep, OrdersStep, CallsStep DEF IInv

\* The invariant holds of every behaviour.
LEMMA Invariance == Spec => []IInv
BY InvInit, InvStep, PTL DEF Spec

-----------------------------------------------------------------------------
(* Theorems *)

\* A screen that waits for a key and shows anything else than the orders there
\* are will be told so by orders_revision at its next look (ui.c 1592-1660).
THEOREM StaleScreensLearnIt == Spec => []StaleMeansNews
<1>1. IInv => StaleMeansNews
  BY DEF IInv, Control, OrdersSeen, StaleMeansNews, Between
<1> QED
  BY <1>1, Invariance, PTL

\* A call of a table in view that is not on the home screen will be told by
\* staff_revision, unless two counts of it overlapped (server.c 170-172).
THEOREM CallsAreLearnt == Spec => []CallsAreShownUnlessRaced
<1>1. IInv => CallsAreShownUnlessRaced
  BY DEF IInv, Control, CallsSeen, NoCalls, View, CallsAreShownUnlessRaced, Between
<1> QED
  BY <1>1, Invariance, PTL

-----------------------------------------------------------------------------
(* Sets of places in the order of the table *)

\* A set of numbers that is not empty has a least one.
LEMMA Least ==
    ASSUME NEW T \in SUBSET Nat, T # {}
    PROVE  \E n \in T : \A k \in T : n <= k
<1> DEFINE R == OpToRel(<, Nat)
<1>1. IsWellFoundedOn(R, Nat)
  BY NatLessThanWellFounded
<1>2. PICK n \in T : \A k \in T : ~ (<<k, n>> \in R)
  <2> HIDE DEF R
  <2> QED BY <1>1, WFMin
<1>3. \A k \in T : ~ (k < n)
  BY <1>2 DEF OpToRel
<1>4. \A k \in T : k \in Nat /\ n \in Nat
  OBVIOUS
<1> QED BY <1>3, <1>4

Increasing(at) == \A m, n \in DOMAIN at : m < n => at[m] < at[n]

\* A place behind all the others goes at the end of their enumeration.
LEMMA OneMore ==
    ASSUME NEW S \in SUBSET Nat, IsFiniteSet(S), NEW x \in Nat, \A i \in S : i < x,
           NEW at \in [1 .. Cardinality(S) -> S], Increasing(at)
    PROVE  \E more \in [1 .. Cardinality(S \cup {x}) -> S \cup {x}] : Increasing(more)
<1> DEFINE k == Cardinality(S)
           more == [m \in 1 .. k + 1 |-> IF m = k + 1 THEN x ELSE at[m]]
<1>1. k \in Nat /\ Cardinality(S \cup {x}) = k + 1
  BY FS_CardinalityType, FS_AddElement
<1>2. \A m \in 1 .. k + 1 : m = k + 1 \/ m \in 1 .. k
  BY <1>1
<1>3. more \in [1 .. k + 1 -> S \cup {x}]
  BY <1>2
<1>4. ASSUME NEW m \in 1 .. k + 1, NEW n \in 1 .. k + 1, m < n
      PROVE  more[m] < more[n]
  <2>1. m \in 1 .. k
    BY <1>1, <1>4
  <2>2. CASE n = k + 1
    <3>1. at[m] \in S /\ more[m] = at[m] /\ more[n] = x
      BY <2>1, <2>2, <1>1
    <3> QED BY <3>1
  <2>3. CASE n \in 1 .. k
    BY <2>1, <2>3, <1>1, <1>4 DEF Increasing
  <2> QED BY <2>2, <2>3, <1>2
<1>5. Increasing(more)
  BY <1>4 DEF Increasing
<1> QED BY <1>1, <1>3, <1>5

\* A set of places can be enumerated in the order of the table.
LEMMA Enumeration ==
    ASSUME NEW N \in Nat, NEW S \in SUBSET (1 .. N)
    PROVE  \E at \in [1 .. Cardinality(S) -> S] : Increasing(at)
<1> DEFINE Part(n) == S \cap (1 .. n)
           T == {n \in 0 .. N : ~ \E at \in [1 .. Cardinality(Part(n)) -> Part(n)] : Increasing(at)}
<1>1. ASSUME T # {} PROVE FALSE
  <2>1. PICK n \in T : \A k \in T : n <= k
    <3>1. T \in SUBSET Nat
      OBVIOUS
    <3> HIDE DEF T
    <3> QED BY <1>1, <3>1, Least
  <2>2. CASE n = 0
    <3>1. Part(n) = {} /\ Cardinality(Part(n)) = 0
      BY <2>2, FS_EmptySet
    <3> DEFINE none == [i \in 1 .. 0 |-> i]
    <3>2. none \in [1 .. 0 -> {}] /\ Increasing(none)
      BY DEF Increasing
    <3> QED BY <2>1, <3>1, <3>2
  <2>3. CASE n # 0
    <3>1. n \in 1 .. N /\ n - 1 \in 0 .. N /\ n - 1 \notin T
      <4>1. T \subseteq 0 .. N
        OBVIOUS
      <4> HIDE DEF T
      <4>2. n \in 0 .. N
        BY <4>1
      <4>3. n - 1 \notin T
        BY <2>1, <4>2
      <4> QED BY <2>3, <4>2, <4>3
    <3>2. PICK at \in [1 .. Cardinality(Part(n - 1)) -> Part(n - 1)] : Increasing(at)
      BY <3>1
    <3>3. Part(n - 1) \in SUBSET Nat /\ IsFiniteSet(Part(n - 1))
          /\ \A i \in Part(n - 1) : i < n
      <4>1. IsFiniteSet(1 .. (n - 1))
        BY <3>1, FS_Interval
      <4> QED BY <3>1, <4>1, FS_Subset
    <3>4. CASE n \in S
      <4>1. Part(n) = Part(n - 1) \cup {n}
        BY <3>1, <3>4
      <4> HIDE DEF Part
      <4>2. \E more \in [1 .. Cardinality(Part(n - 1) \cup {n}) -> Part(n - 1) \cup {n}] :
                Increasing(more)
        BY <3>1, <3>2, <3>3, OneMore
      <4> QED BY <2>1, <4>1, <4>2
    <3>5. CASE n \notin S
      <4>1. Part(n) = Part(n - 1)
        BY <3>1, <3>5
      <4> QED BY <2>1, <3>2, <4>1
    <3> QED BY <3>4, <3>5
  <2> QED BY <2>2, <2>3
<1>2. \E at \in [1 .. Cardinality(Part(N)) -> Part(N)] : Increasing(at)
  <2> DEFINE Has(n) == \E at \in [1 .. Cardinality(Part(n)) -> Part(n)] : Increasing(at)
  <2>1. N \in 0 .. N /\ T = {n \in 0 .. N : ~ Has(n)}
    OBVIOUS
  <2>2. Has(N)
    <3> HIDE DEF Has, T
    <3> QED BY <1>1, <2>1
  <2> QED BY <2>2
<1>3. Part(N) = S
  OBVIOUS
<1> HIDE DEF Part
<1> QED BY <1>2, <1>3

\* InOrder lists each place of the set once, in the order of the table.
LEMMA InOrderFacts ==
    ASSUME NEW N \in Nat, NEW S \in SUBSET (1 .. N)
    PROVE  /\ Cardinality(S) \in 0 .. N
           /\ InOrder(S) \in [1 .. Cardinality(S) -> S]
           /\ Increasing(InOrder(S))
           /\ \A i \in S : \E n \in 1 .. Cardinality(S) : InOrder(S)[n] = i
<1> DEFINE k == Cardinality(S)
           at == InOrder(S)
<1>1. IsFiniteSet(S) /\ k \in 0 .. N
  <2>1. IsFiniteSet(1 .. N) /\ Cardinality(1 .. N) = N
    BY FS_Interval
  <2>2. IsFiniteSet(S) /\ k <= N
    BY <2>1, FS_Subset
  <2> QED BY <2>2, FS_CardinalityType
<1>2. at \in [1 .. k -> S] /\ Increasing(at)
  BY Enumeration DEF InOrder, Increasing
<1> HIDE DEF at
<1>3. at \in Injection(1 .. k, S)
  <2>1. ASSUME NEW m \in 1 .. k, NEW n \in 1 .. k, at[m] = at[n] PROVE m = n
    <3>1. at[m] \in 1 .. N /\ at[n] \in 1 .. N
      BY <1>2
    <3>2. ~ (m < n) /\ ~ (n < m)
      BY <1>2, <2>1, <3>1 DEF Increasing
    <3> QED BY <3>2, <1>1
  <2> QED BY <1>2, <2>1 DEF Injection, IsInjective
<1>4. Cardinality(1 .. k) = k
  BY <1>1, FS_Interval
<1>5. at \in Surjection(1 .. k, S)
  BY <1>1, <1>3, <1>4, FS_Injection
<1>6. \A i \in S : \E n \in 1 .. k : at[n] = i
  BY <1>5 DEF Surjection
<1> QED BY <1>1, <1>2, <1>6 DEF at

\* The list of the first places of a set is how its list begins.
LEMMA InitialSegment ==
    ASSUME NEW N \in Nat, NEW S \in SUBSET (1 .. N), NEW P \in SUBSET S,
           \A i \in S, p \in P : i <= p => i \in P
    PROVE  /\ Cardinality(P) <= Cardinality(S)
           /\ \A n \in 1 .. Cardinality(P) : InOrder(P)[n] = InOrder(S)[n]
<1> DEFINE s == InOrder(S)
           p == InOrder(P)
           k == Cardinality(P)
           T == {n \in 1 .. k : p[n] # s[n]}
<1>1. /\ k \in Nat /\ p \in [1 .. k -> P] /\ Increasing(p)
      /\ \A i \in P : \E n \in 1 .. k : p[n] = i
  <2>1. P \in SUBSET (1 .. N)
    OBVIOUS
  <2> QED BY <2>1, InOrderFacts
<1>2. /\ Cardinality(S) \in Nat /\ s \in [1 .. Cardinality(S) -> S] /\ Increasing(s)
      /\ \A i \in S : \E n \in 1 .. Cardinality(S) : s[n] = i
  BY InOrderFacts
<1>3. k <= Cardinality(S)
  <2>1. IsFiniteSet(S)
    <3>1. IsFiniteSet(1 .. N)
      BY FS_Interval
    <3> QED BY <3>1, FS_Subset
  <2> QED BY <2>1, FS_Subset
<1> HIDE DEF s, p, k
<1>4. ASSUME T # {} PROVE FALSE
  <2>1. PICK n \in T : \A j \in T : n <= j
    <3>1. T \in SUBSET Nat
      OBVIOUS
    <3> HIDE DEF T
    <3> QED BY <1>4, <3>1, Least
  <2>2. n \in 1 .. k /\ n \in 1 .. Cardinality(S) /\ p[n] # s[n]
        /\ p[n] \in P /\ s[n] \in S /\ p[n] \in 1 .. N /\ s[n] \in 1 .. N
    <3>1. n \in 1 .. k /\ p[n] # s[n]
      OBVIOUS
    <3>2. n \in 1 .. Cardinality(S)
      BY <1>1, <1>2, <1>3, <3>1
    <3>3. p[n] \in P /\ s[n] \in S
      BY <1>1, <1>2, <3>1, <3>2
    <3> QED BY <3>1, <3>2, <3>3
  <2>3. \A j \in 1 .. k : j < n => p[j] = s[j]
    BY <2>1, <2>2
  <2>4. CASE p[n] < s[n]
    <3>1. PICK j \in 1 .. Cardinality(S) : s[j] = p[n]
      BY <1>2, <2>2
    <3>2. j < n
      BY <1>2, <2>2, <2>4, <3>1 DEF Increasing
    <3>3. j \in 1 .. k /\ p[j] = p[n] /\ p[j] < p[n]
      BY <1>1, <2>2, <2>3, <3>1, <3>2 DEF Increasing
    <3> QED BY <2>2, <3>3
  <2>5. CASE s[n] < p[n]
    <3>1. s[n] \in P
      BY <2>2, <2>5
    <3>2. PICK j \in 1 .. k : p[j] = s[n]
      BY <1>1, <3>1
    <3>3. j < n
      BY <1>1, <2>2, <2>5, <3>2 DEF Increasing
    <3>4. j \in 1 .. Cardinality(S) /\ s[j] = s[n] /\ s[j] < s[n]
      BY <1>2, <2>2, <2>3, <3>2, <3>3 DEF Increasing
    <3> QED BY <2>2, <3>4
  <2> QED BY <2>2, <2>4, <2>5
<1>5. \A n \in 1 .. k : p[n] = s[n]
  BY <1>4
<1> QED BY <1>3, <1>5 DEF s, p, k

-----------------------------------------------------------------------------
(* What lists, selection and payments rest on *)

Order == [table : Tables, status : Status]

OrdersHeld == orders \in Seq(Order) /\ Len(orders) <= MAX_ORDERS

LockHeld == lock \in {"none", "session", "pos"}

\* The places of the orders that are on the list of t.
OnListOf(t) == {i \in DOMAIN orders : OnList(orders[i], t)}

\* What is still to be written to staff_revision stays within its bound.
CountsBounded == \A n \in {staff_revision} \cup {count[w].seen : w \in Counters} :
                     n + Cardinality({w \in Counters : Counting(w)}) <= MaxNews

\* The tab on the screen is that of the loop.
SameTab == pos.pc \in Between /\ ~ pos.dirty => screen.tab = pos.tab

\* An index of the selection that is current is an index of the list.
SelectionHolds ==
    /\ pos.sel \in 0 .. (MAX_ORDERS - 1)
    /\ NoNews => pos.sel = 0 \/ pos.sel < Cardinality(OnListOf(pos.table))

\* What a list that was drawn when there were b orders, P of them on it, may
\* still say: no other of these has come onto the list, and what has left it
\* was cancelled.
DrawnFrom(t, b, P) ==
    /\ screen.rows[t] \in [1 .. Cardinality(P) -> Row]
    /\ \A n \in 1 .. Cardinality(P) : screen.rows[t][n].at = InOrder(P)[n]
    /\ \A i \in 1 .. b :
           IF i \in P THEN i \in OnListOf(t) \/ orders[i].status = "CANCELLED"
                      ELSE i \notin OnListOf(t)

RowsWereDrawn == \A t \in Tables \cup {All} :
    \E b \in 0 .. Len(orders) : \E P \in SUBSET (1 .. b) : DrawnFrom(t, b, P)

\* An order of the drawn list has been cancelled since.
OneWasCancelled == \E n \in DOMAIN screen.rows[pos.table] :
    orders[screen.rows[pos.table][n].at].status = "CANCELLED"

\* From Enter to the payment: the highlighted row, and then its order.
EnterHolds ==
    /\ meant \in 0 .. Every
    /\ pos.todo \in Seq(DOMAIN orders)
    /\ pos.pc \in {"read", "pay"} => pos.todo # << >>
    /\ meant = Every => pos.pc \notin {"collect", "read"}
    /\ meant # Every /\ pos.pc \in {"read", "pay"} => Len(pos.todo) = 1
    /\ meant \notin {None, Every} /\ pos.pc = "collect" =>
           /\ screen.tab = "PAYMENT" /\ pos.sel + 1 \in DOMAIN screen.rows[pos.table]
           /\ meant = screen.rows[pos.table][pos.sel + 1].at
    /\ meant \notin {None, Every} /\ pos.pc \in {"read", "pay"} =>
           Head(pos.todo) = meant \/ OneWasCancelled

LInv == /\ IInv /\ OrdersHeld /\ LockHeld /\ CountsBounded /\ SameTab
        /\ SelectionHolds /\ RowsWereDrawn /\ EnterHolds


\* Orders are only added, keep their table, and never come back from CANCELLED.
OrdersGoOn ==
    /\ Len(orders) <= Len(orders')
    /\ \A i \in DOMAIN orders :
           /\ orders'[i].table = orders[i].table
           /\ orders[i].status = "CANCELLED" => orders'[i].status = "CANCELLED"

\* A change of one status.
LEMMA OneStatus ==
    ASSUME OrdersHeld, NEW i \in DOMAIN orders, NEW st \in Status,
           orders[i].status # "CANCELLED" \/ st = "CANCELLED",
           orders' = [orders EXCEPT ![i].status = st]
    PROVE  OrdersHeld' /\ OrdersGoOn
<1> DEFINE e == [orders[i] EXCEPT !.status = st]
<1>1. /\ Len(orders) \in Nat /\ DOMAIN orders = 1 .. Len(orders)
      /\ \A j \in DOMAIN orders : orders[j] \in Order
  BY LenProperties DEF OrdersHeld
<1>2. e \in Order /\ e.table = orders[i].table /\ e.status = st
  BY <1>1 DEF Order
<1>3. orders' = [orders EXCEPT ![i] = e]
  OBVIOUS
<1> HIDE DEF e
<1>4. /\ orders' \in Seq(Order) /\ Len(orders') = Len(orders)
      /\ \A j \in 1 .. Len(orders) : orders'[j] = IF j = i THEN e ELSE orders[j]
  BY <1>1, <1>2, <1>3, ExceptSeq DEF OrdersHeld
<1> QED BY <1>1, <1>2, <1>4 DEF OrdersHeld, OrdersGoOn

\* No step takes an order out, moves it to another table or restores it.
LEMMA OrdersMove == OrdersHeld /\ [Next]_vars => OrdersHeld' /\ OrdersGoOn
<1> SUFFICES ASSUME OrdersHeld, [Next]_vars PROVE OrdersHeld' /\ OrdersGoOn
  OBVIOUS
<1>0. Len(orders) \in Nat /\ DOMAIN orders = 1 .. Len(orders)
  BY LenProperties DEF OrdersHeld
<1>1. CASE orders' = orders
  BY <1>0, <1>1 DEF OrdersHeld, OrdersGoOn
<1>2. ASSUME NEW t \in Tables, Len(orders) < MAX_ORDERS,
             orders' = Append(orders, [table |-> t, status |-> "WAITING"])
      PROVE  OrdersHeld' /\ OrdersGoOn
  <2>1. [table |-> t, status |-> "WAITING"] \in Order
    BY DEF Order, Status
  <2>2. orders' \in Seq(Order) /\ Len(orders') = Len(orders) + 1
        /\ \A i \in 1 .. Len(orders) : orders'[i] = orders[i]
    BY <1>2, <2>1, AppendProperties DEF OrdersHeld
  <2> QED BY <1>0, <1>2, <2>2, PosAssumption DEF OrdersHeld, OrdersGoOn
<1>3. CASE SessionChangesOrder
  <2>1. ASSUME NEW i \in DOMAIN orders, NEW st \in Status,
               \/ valid_kitchen_transition(orders[i].status, st)
               \/ Cancellable(orders[i].status) /\ st = "CANCELLED",
               orders' = [orders EXCEPT ![i].status = st]
        PROVE  OrdersHeld' /\ OrdersGoOn
    <3>1. orders[i].status # "CANCELLED" \/ st = "CANCELLED"
      BY <2>1 DEF valid_kitchen_transition, KitchenMoves
    <3> QED BY <2>1, <3>1, OneStatus
  <2> QED BY <1>2, <1>3, <2>1 DEF SessionChangesOrder
<1>4. CASE server_pay_order
  <2> DEFINE i == Head(pos.todo)
  <2>1. CASE Payable(orders[i].status) /\ orders' = [orders EXCEPT ![i].status = "PAID"]
    <3>1. CASE i \in DOMAIN orders
      <4>1. orders[i].status # "CANCELLED" /\ "PAID" \in Status
        BY <2>1 DEF Payable, Status
      <4> QED BY <2>1, <3>1, <4>1, OneStatus
    <3>2. CASE i \notin DOMAIN orders
      <4>1. orders' = orders
        BY <1>0, <2>1, <3>2 DEF OrdersHeld
      <4> QED BY <1>1, <4>1
    <3> QED BY <3>1, <3>2
  <2> QED BY <1>1, <1>4, <2>1 DEF server_pay_order
<1>5. CASE UNCHANGED vars
  BY <1>1, <1>5 DEF vars, ordersVars
<1>6. ASSUME [Next]_vars, ~ SessionChangesOrder, ~ server_pay_order PROVE orders' = orders
  BY <1>6 DEF Next, PosStep, vars, ordersVars, server_touch_orders, handle_call_staff,
              ReadStaffRevision, WriteStaffRevision, StaffCallExpires, LookAtOrders, LookAtStaff,
              Draw, PlainKey, HomeEnter, ClearCall, PaymentKey, PaymentEnter, CollectForEnter,
              ReadForEnter, ui_pos_collect_table_done_ids
<1> QED BY <1>1, <1>3, <1>4, <1>6

\* Threads that count are some of the threads, and so finitely many.
LEMMA CountersFinite ==
    /\ IsFiniteSet({w \in Counters : Counting(w)})
    /\ Cardinality({w \in Counters : Counting(w)}) \in Nat
<1>1. IsFiniteSet(Counters)
  BY PosAssumption, FS_AddElement DEF Counters
<1>2. IsFiniteSet({w \in Counters : Counting(w)})
  BY <1>1, FS_Subset
<1> QED BY <1>2, FS_CardinalityType

\* One more thread counts.
LEMMA OneMoreCounts ==
    ASSUME Types, CountsBounded, MayCount, NEW v \in Counters, ~ Counting(v),
           staff_revision' = staff_revision,
           count' = [count EXCEPT ![v].step = "read"]
    PROVE  CountsBounded'
<1> DEFINE busy == {w \in Counters : Counting(w)}
<1>1. \A w \in Counters : count'[w].seen = count[w].seen
                          /\ (Counting(w)' <=> w = v \/ Counting(w))
  BY DEF Types, Counting
<1>2. {w \in Counters : Counting(w)}' = busy \cup {v} /\ v \notin busy
  BY <1>1
<1>3. IsFiniteSet(busy) /\ Cardinality(busy) \in Nat
      /\ Cardinality(busy \cup {v}) = Cardinality(busy) + 1
  BY <1>2, CountersFinite, FS_AddElement
<1>4. \A w \in Counters : count[w].seen \in Nat
  BY DEF Types
<1>5. \A n \in {staff_revision} \cup {count[w].seen : w \in Counters} :
          n \in Nat /\ orders_revision + 2 * (n + Cardinality(busy) + 1) <= MaxNews
          /\ orders_revision \in Nat
  BY <1>4 DEF Types, MayCount
<1> HIDE DEF busy
<1>6. ASSUME NEW n \in {staff_revision} \cup {count[w].seen : w \in Counters}
      PROVE  n + (Cardinality(busy) + 1) <= MaxNews
  <2>1. \A r, m, k, most \in Nat : r + 2 * (m + k + 1) <= most => m + (k + 1) <= most
    OBVIOUS
  <2>2. orders_revision + 2 * (n + Cardinality(busy) + 1) <= MaxNews
        /\ n \in Nat /\ orders_revision \in Nat /\ MaxNews \in Nat
    BY <1>5, PosAssumption
  <2> QED BY <1>3, <2>1, <2>2
<1>7. ({staff_revision} \cup {count[w].seen : w \in Counters})'
          = {staff_revision} \cup {count[w].seen : w \in Counters}
  BY <1>1
<1> QED BY <1>2, <1>3, <1>6, <1>7 DEF CountsBounded

\* Nothing is counted beyond the bound, however the counts overlap.
LEMMA CountsStep == Types /\ CountsBounded /\ [Next]_vars => CountsBounded'
<1> SUFFICES ASSUME Types, CountsBounded, [Next]_vars PROVE CountsBounded'
  OBVIOUS
<1> DEFINE busy == {w \in Counters : Counting(w)}
<1>0. /\ IsFiniteSet(busy) /\ Cardinality(busy) \in Nat /\ staff_revision \in Nat
      /\ \A w \in Counters : count[w].seen \in Nat
  BY CountersFinite DEF Types
<1>1. CASE UNCHANGED <<staff_revision, count>>
  BY <1>1 DEF CountsBounded, Counting
<1>2. ASSUME NEW w \in Sessions, NEW t \in Tables, handle_call_staff(w, t) PROVE CountsBounded'
  <2>1. w \in Counters
    BY DEF Counters
  <2> QED BY <1>2, <2>1, OneMoreCounts DEF handle_call_staff
<1>3. CASE ClearCall
  <2>1. Pos \in Counters
    BY DEF Counters
  <2> QED BY <1>3, <2>1, OneMoreCounts DEF ClearCall, At
<1>4. ASSUME NEW v \in Counters, ReadStaffRevision(v) PROVE CountsBounded'
  <2>1. \A w \in Counters : /\ count'[w].seen = IF w = v THEN staff_revision ELSE count[w].seen
                            /\ Counting(w)' <=> Counting(w)
    BY <1>4 DEF ReadStaffRevision, Types, Counting
  <2>2. staff_revision' = staff_revision
    BY <1>4 DEF ReadStaffRevision
  <2>3. {w \in Counters : Counting(w)}' = busy
    BY <2>1
  <2>4. ({staff_revision} \cup {count[w].seen : w \in Counters})'
            \subseteq {staff_revision} \cup {count[w].seen : w \in Counters}
    BY <2>1, <2>2
  <2> QED BY <2>3, <2>4 DEF CountsBounded
<1>5. ASSUME NEW v \in Counters, WriteStaffRevision(v) PROVE CountsBounded'
  <2>1. \A w \in Counters : /\ count'[w].seen = IF w = v THEN 0 ELSE count[w].seen
                            /\ Counting(w)' <=> w # v /\ Counting(w)
    BY <1>5 DEF WriteStaffRevision, Types, Counting, Idle
  <2>2. staff_revision' = count[v].seen + 1
    BY <1>5 DEF WriteStaffRevision
  <2>3. {w \in Counters : Counting(w)}' = busy \ {v} /\ v \in busy
    BY <1>5, <2>1 DEF WriteStaffRevision, Counting
  <2>4. Cardinality(busy \ {v}) = Cardinality(busy) - 1
    BY <1>0, <2>3, FS_RemoveElement
  <2>5. \A n \in {count[w].seen : w \in Counters} : n \in Nat /\ n + Cardinality(busy) <= MaxNews
    BY <1>0 DEF CountsBounded
  <2>6. \A n \in ({staff_revision} \cup {count[w].seen : w \in Counters})' :
            n = 0 \/ n = count[v].seen + 1 \/ n \in {count[w].seen : w \in Counters}
    BY <2>1, <2>2
  <2> HIDE DEF busy
  <2>7. \A n \in {count[w].seen : w \in Counters} :
            n + (Cardinality(busy) - 1) <= MaxNews /\ (n + 1) + (Cardinality(busy) - 1) <= MaxNews
            /\ 0 + (Cardinality(busy) - 1) <= MaxNews
    BY <1>0, <2>5, PosAssumption
  <2>8. count[v].seen \in {count[w].seen : w \in Counters}
    OBVIOUS
  <2>9. \A n \in ({staff_revision} \cup {count[w].seen : w \in Counters})' :
            n + (Cardinality(busy) - 1) <= MaxNews
    BY <2>6, <2>7, <2>8
  <2> QED BY <2>3, <2>4, <2>9 DEF CountsBounded
<1>6. ASSUME ~ ClearCall,
             ~ \E w \in Sessions, t \in Tables : handle_call_staff(w, t),
             ~ \E w \in Counters : ReadStaffRevision(w) \/ WriteStaffRevision(w)
      PROVE  UNCHANGED <<staff_revision, count>>
  BY <1>6 DEF Next, PosStep, vars, staffVars, SessionChangesOrder, server_touch_orders,
              StaffCallExpires, LookAtOrders, LookAtStaff,
              Draw, PlainKey, HomeEnter, PaymentKey, PaymentEnter, CollectForEnter,
              ReadForEnter, ui_pos_collect_table_done_ids, server_pay_order
<1> QED BY <1>1, <1>2, <1>3, <1>4, <1>5, <1>6

\* Where the tab is changed, the screen is marked.
LEMMA SameTabStep == Types /\ Control /\ SameTab /\ [Next]_vars => SameTab'
<1> SUFFICES ASSUME Types, Control, SameTab, [Next]_vars PROVE SameTab'
  OBVIOUS
<1>1. CASE UNCHANGED <<pos, screen>>
  BY <1>1 DEF SameTab
<1>2. CASE LookAtOrders
  BY <1>2 DEF LookAtOrders, At, OrdersNews, SameTab, Types, Between
<1>3. CASE LookAtStaff
  BY <1>3 DEF LookAtStaff, At, StaffNews, SameTab, Types, Between, Blank
<1>4. CASE Draw
  <2>1. screen.tab = pos.tab
    BY <1>4 DEF Draw, At, Control
  <2>2. screen'.tab = screen.tab
    BY <1>4 DEF Draw, ui_pos_table_summary, ui_pos_staff_active, ui_draw_pos_payment, Refresh, Types
  <2>3. pos'.tab = pos.tab
    BY <1>4 DEF Draw, ui_pos_table_summary, ui_pos_staff_active, ui_draw_pos_payment, Refresh,
                Types, Drawn
  <2> QED BY <2>1, <2>2, <2>3 DEF SameTab
<1>5. CASE PlainKey
  BY <1>5 DEF PlainKey, At, Arrow, Loop, Redraw, SameTab, Types, Between
<1>6. CASE HomeEnter
  BY <1>6 DEF HomeEnter, SameTab, Types
<1>7. CASE ClearCall \/ PaymentKey
  BY <1>7 DEF ClearCall, PaymentKey, Redraw, SameTab, Types
<1>8. CASE PaymentEnter \/ CollectForEnter \/ ReadForEnter \/ ui_pos_collect_table_done_ids
  BY <1>8 DEF PaymentEnter, CollectForEnter, ReadForEnter, ui_pos_collect_table_done_ids, At,
              Loop, SameTab, Types, Between
<1>9. CASE server_pay_order
  BY <1>9 DEF server_pay_order, At, SameTab, Types, Control
<1> QED
  BY <1>1, <1>2, <1>3, <1>4, <1>5, <1>6, <1>7, <1>8, <1>9
     DEF Next, PosStep, vars, posVars, SessionChangesOrder, server_touch_orders,
         handle_call_staff, ReadStaffRevision, WriteStaffRevision, StaffCallExpires

\* What drawing and keys read of a list of orders.
LEMMA ListedFacts ==
    ASSUME OrdersHeld, NEW t
    PROVE  /\ OnListOf(t) \in SUBSET (1 .. Len(orders))
           /\ Cardinality(OnListOf(t)) \in 0 .. MAX_ORDERS
           /\ Listed(orders, t) = InOrder(OnListOf(t))
           /\ Listed(orders, t) \in [1 .. Cardinality(OnListOf(t)) -> OnListOf(t)]
           /\ Listed(orders, t) \in Seq(DOMAIN orders)
           /\ DOMAIN Listed(orders, t) = 1 .. Cardinality(OnListOf(t))
           /\ Len(Listed(orders, t)) = Cardinality(OnListOf(t))
<1>1. Len(orders) \in Nat /\ DOMAIN orders = 1 .. Len(orders) /\ Len(orders) <= MAX_ORDERS
  BY LenProperties DEF OrdersHeld
<1>2. OnListOf(t) \in SUBSET (1 .. Len(orders))
  BY <1>1 DEF OnListOf
<1>3. Listed(orders, t) = InOrder(OnListOf(t))
  BY DEF Listed, OnListOf
<1> HIDE DEF OnListOf
<1>4. /\ Cardinality(OnListOf(t)) \in 0 .. Len(orders)
      /\ InOrder(OnListOf(t)) \in [1 .. Cardinality(OnListOf(t)) -> OnListOf(t)]
  BY <1>1, <1>2, InOrderFacts
<1>5. InOrder(OnListOf(t)) \in Seq(DOMAIN orders)
  BY <1>1, <1>2, <1>4
<1>6. Len(InOrder(OnListOf(t))) = Cardinality(OnListOf(t))
  BY <1>4, <1>5, LenProperties
<1> QED BY <1>1, <1>2, <1>3, <1>4, <1>5, <1>6, PosAssumption

\* Arrows stay on the list that is there when the key comes.
LEMMA ArrowsStay ==
    ASSUME NEW sel \in Nat, NEW nshow \in 0 .. MAX_ORDERS,
           NEW to \in {StepUp(sel, nshow), StepDown(sel, nshow)}
    PROVE  to \in 0 .. (MAX_ORDERS - 1) /\ (to = 0 \/ to < nshow)
<1> DEFINE m == IF nshow = 0 THEN 1 ELSE nshow
<1>1. m \in Nat /\ m > 0 /\ m <= MAX_ORDERS /\ MAX_ORDERS \in Nat /\ sel \in Nat
      /\ sel + nshow - 1 \in Int
  BY PosAssumption
<1>2. \A a \in Int : a % m \in 0 .. (m - 1)
  <2> HIDE DEF m
  <2> QED BY <1>1
<1>3. to = (sel + 1) % m \/ to = (sel + nshow - 1) % m
  BY DEF StepUp, StepDown
<1>4. to \in 0 .. (m - 1)
  <2> HIDE DEF m
  <2> QED BY <1>1, <1>2, <1>3
<1> QED BY <1>1, <1>4

\* The selection is put back whenever a look finds other orders.
LEMMA SelectionStep ==
    Types /\ OrdersHeld /\ OrdersSeen /\ SelectionHolds /\ [Next]_vars => SelectionHolds'
<1> SUFFICES ASSUME Types, OrdersHeld, OrdersSeen, SelectionHolds, [Next]_vars
             PROVE  SelectionHolds'
  OBVIOUS
<1>0. MAX_ORDERS \in Nat \ {0} /\ pos.sel \in Nat /\ pos.last_rev <= orders_revision
  BY PosAssumption DEF SelectionHolds, OrdersSeen
<1>1. ASSUME UNCHANGED <<orders, orders_revision, lock>>, pos'.last_rev = pos.last_rev,
             pos'.sel = pos.sel, pos'.table = pos.table
      PROVE  SelectionHolds'
  BY <1>1 DEF SelectionHolds, NoNews, OnListOf
<1>2. ASSUME UNCHANGED <<orders, orders_revision, lock>>, pos'.sel = 0 PROVE SelectionHolds'
  BY <1>0, <1>2 DEF SelectionHolds
<1>3. ASSUME UNCHANGED pos, lock' # "none" PROVE SelectionHolds'
  BY <1>3 DEF SelectionHolds, NoNews
<1>4. CASE server_touch_orders
  <2>1. ~ NoNews'
    BY <1>0, <1>4 DEF server_touch_orders, posVars, Types, NoNews
  <2> QED BY <1>4, <2>1 DEF server_touch_orders, posVars, SelectionHolds
<1>5. CASE LookAtOrders
  <2>1. UNCHANGED <<orders, orders_revision, lock>> /\ pos'.table = pos.table
        /\ \/ pos'.sel = 0
           \/ pos'.sel = pos.sel /\ pos'.last_rev = pos.last_rev
    BY <1>5 DEF LookAtOrders, OrdersNews, ordersVars, Types
  <2> QED BY <1>1, <1>2, <2>1
<1>6. CASE LookAtStaff \/ Draw
  BY ZenonT(40), <1>1, <1>6 DEF LookAtStaff, StaffNews, Draw, Drawn, ui_pos_table_summary,
                    ui_pos_staff_active, ui_draw_pos_payment, Refresh, ordersVars, Types
<1>7. CASE PaymentKey
  <2> DEFINE nshow == Len(Listed(orders, pos.table))
  <2>1. UNCHANGED <<orders, orders_revision, lock>>
    BY <1>7 DEF PaymentKey, ordersVars
  <2>2. nshow = Cardinality(OnListOf(pos.table)) /\ nshow \in 0 .. MAX_ORDERS
    BY ListedFacts
  <2>3. ASSUME NEW to \in {StepUp(pos.sel, nshow), StepDown(pos.sel, nshow)},
               pos' = Redraw([pos EXCEPT !.sel = to])
        PROVE  SelectionHolds'
    <3>1. to \in 0 .. (MAX_ORDERS - 1) /\ (to = 0 \/ to < nshow)
      BY <1>0, <2>2, ArrowsStay
    <3>2. pos'.sel = to /\ pos'.table = pos.table
      BY <2>3 DEF Redraw, Types
    <3>3. OnListOf(pos.table)' = OnListOf(pos.table)
      BY <2>1, <3>2 DEF OnListOf
    <3> HIDE DEF nshow
    <3> QED BY <2>2, <3>1, <3>2, <3>3 DEF SelectionHolds
  <2>4. ASSUME NEW t \in Tables, pos' = Redraw([pos EXCEPT !.table = t, !.sel = 0])
        PROVE  SelectionHolds'
    <3>1. pos'.sel = 0
      BY <2>4 DEF Redraw, Types
    <3> QED BY <1>2, <2>1, <3>1
  <2> QED BY <1>7, <2>3, <2>4 DEF PaymentKey, ui_pos_collect_table_order_indices
<1>8. CASE HomeEnter
  BY <1>2, <1>8 DEF HomeEnter, ordersVars, Types
<1>9. CASE PlainKey \/ ClearCall \/ PaymentEnter \/ CollectForEnter \/ ReadForEnter
           \/ ui_pos_collect_table_done_ids
  <2>1. UNCHANGED <<orders, orders_revision, lock>>
    BY <1>9 DEF PlainKey, ClearCall, PaymentEnter, CollectForEnter, ReadForEnter,
                ui_pos_collect_table_done_ids, ordersVars
  <2>2. CASE PlainKey
    <3>1. CASE Arrow
      BY <1>1, <2>1, <3>1, ArrowFacts
    <3>2. CASE pos' = Loop(pos) \/ \E tab \in Tabs : pos' = Redraw([pos EXCEPT !.tab = tab])
      BY <1>1, <2>1, <3>2 DEF Loop, Redraw, Types
    <3> QED BY <2>2, <3>1, <3>2 DEF PlainKey, Tabs
  <2>3. CASE ClearCall
    BY <1>1, <2>1, <2>3 DEF ClearCall, Redraw, Types
  <2>4. CASE PaymentEnter \/ CollectForEnter
    BY <1>1, <2>1, <2>4 DEF PaymentEnter, CollectForEnter, Loop, Types
  <2>5. CASE ReadForEnter \/ ui_pos_collect_table_done_ids
    BY ZenonT(40), <1>1, <2>1, <2>5 DEF ReadForEnter, ui_pos_collect_table_done_ids, Loop, Types
  <2> QED BY <1>9, <2>2, <2>3, <2>4, <2>5
<1>10. CASE server_pay_order
  <2>1. pos'.sel = pos.sel /\ pos'.table = pos.table /\ pos'.last_rev = pos.last_rev
        /\ orders_revision' = orders_revision
    BY <1>10 DEF server_pay_order, Types
  <2>2. UNCHANGED <<orders, lock>> \/ lock' = "pos"
    BY <1>10 DEF server_pay_order
  <2>3. CASE lock' = "pos"
    BY <2>1, <2>3 DEF SelectionHolds, NoNews
  <2> QED BY <1>1, <2>1, <2>2, <2>3
<1>11. CASE SessionChangesOrder
  BY <1>3, <1>11 DEF SessionChangesOrder, posVars
<1>12. ASSUME UNCHANGED <<ordersVars, pos>> PROVE SelectionHolds'
  BY <1>1, <1>12 DEF ordersVars
<1> QED
  BY <1>4, <1>5, <1>6, <1>7, <1>8, <1>9, <1>10, <1>11, <1>12
     DEF Next, PosStep, vars, posVars, handle_call_staff, ReadStaffRevision,
         WriteStaffRevision, StaffCallExpires

\* A list that is not drawn anew still shows the orders it was drawn from.
LEMMA RowsKept ==
    ASSUME OrdersHeld, OrdersHeld', OrdersGoOn, NEW t \in Tables \cup {All},
           screen'.rows[t] = screen.rows[t],
           NEW b \in 0 .. Len(orders), NEW P \in SUBSET (1 .. b), DrawnFrom(t, b, P)
    PROVE  b \in 0 .. Len(orders') /\ DrawnFrom(t, b, P)'
<1>1. /\ Len(orders) \in Nat /\ Len(orders') \in Nat /\ Len(orders) <= Len(orders')
      /\ DOMAIN orders = 1 .. Len(orders) /\ DOMAIN orders' = 1 .. Len(orders')
  BY LenProperties DEF OrdersHeld, OrdersGoOn
<1>2. ASSUME NEW i \in 1 .. b
      PROVE  IF i \in P THEN i \in OnListOf(t)' \/ orders'[i].status = "CANCELLED"
                        ELSE i \notin OnListOf(t)'
  <2>1. i \in DOMAIN orders /\ i \in DOMAIN orders'
    BY <1>1
  <2>2. /\ orders'[i].table = orders[i].table
        /\ orders[i].status = "CANCELLED" => orders'[i].status = "CANCELLED"
    BY <2>1 DEF OrdersGoOn
  <2>3. IF i \in P THEN i \in OnListOf(t) \/ orders[i].status = "CANCELLED"
                   ELSE i \notin OnListOf(t)
    BY DEF DrawnFrom
  <2> QED BY <2>1, <2>2, <2>3 DEF OnListOf, OnList
<1> QED BY <1>1, <1>2 DEF DrawnFrom

\* No more of a list is drawn than there is.
LEMMA FitsFacts == ASSUME NEW n \in Nat PROVE Fits(n) \in 0 .. n
BY PosAssumption DEF Fits

\* The first k places of a set are those of its places up to one place, b.
FirstOf(S, k, N) == \E b \in 0 .. N : \E P \in SUBSET (1 .. b) :
    /\ P = S \cap (1 .. b) /\ Cardinality(P) = k
    /\ \A n \in 1 .. k : InOrder(P)[n] = InOrder(S)[n]

\* Such a place exists for any k there are.
LEMMA FirstPlaces ==
    ASSUME NEW N \in Nat, NEW S \in SUBSET (1 .. N), NEW k \in 0 .. Cardinality(S)
    PROVE  FirstOf(S, k, N)
<1>1. /\ Cardinality(S) \in Nat /\ InOrder(S) \in [1 .. Cardinality(S) -> S]
      /\ Increasing(InOrder(S))
  BY InOrderFacts
<1>2. CASE k = 0
  <2>1. S \cap (1 .. 0) = {} /\ Cardinality({}) = 0
    BY FS_EmptySet
  <2> QED BY <1>2, <2>1 DEF FirstOf
<1>3. CASE k # 0
  <2> DEFINE s == InOrder(S)
             b == s[k]
             P == S \cap (1 .. b)
             p == InOrder(P)
             c == Cardinality(P)
  <2>0. k \in 1 .. Cardinality(S)
    BY <1>1, <1>3
  <2>1. k \in 1 .. Cardinality(S) /\ b \in S /\ b \in 1 .. N
    BY <1>1, <2>0
  <2>2. P \in SUBSET (1 .. b) /\ P \in SUBSET S /\ P \in SUBSET (1 .. N) /\ b \in P
        /\ \A i \in S, q \in P : i <= q => i \in P
    BY <2>1
  <2> HIDE DEF b, P
  <2>3. c <= Cardinality(S) /\ \A n \in 1 .. c : p[n] = s[n]
    BY <2>2, InitialSegment
  <2>4. c \in Nat /\ p \in [1 .. c -> P] /\ \A i \in P : \E n \in 1 .. c : p[n] = i
    BY SMTT(20), <2>2, InOrderFacts
  <2> HIDE DEF c, p
  <2>5. PICK n \in 1 .. c : p[n] = b
    BY <2>2, <2>4
  <2>6. n = k
    <3>1. n \in 1 .. Cardinality(S) /\ s[n] = s[k] /\ s[k] \in 1 .. N
      BY <1>1, <2>1, <2>3, <2>4, <2>5 DEF b
    <3>2. ~ (n < k) /\ ~ (k < n)
      BY <1>1, <2>1, <3>1 DEF Increasing
    <3> QED BY <2>1, <3>1, <3>2, <1>1
  <2>7. ~ (k < c)
    <3>1. SUFFICES ASSUME k < c PROVE FALSE
      OBVIOUS
    <3>2. k + 1 \in 1 .. c /\ k + 1 \in 1 .. Cardinality(S) /\ k < k + 1
      BY <1>1, <2>1, <2>3, <2>4, <3>1
    <3>3. p[k + 1] \in P /\ p[k + 1] = s[k + 1] /\ s[k] < s[k + 1]
      BY <1>1, <2>1, <2>3, <2>4, <3>2 DEF Increasing
    <3>4. p[k + 1] \in 1 .. b
      BY <2>2, <3>3
    <3> QED BY <2>1, <3>3, <3>4 DEF b
  <2>8. c = k
    BY <2>1, <2>4, <2>5, <2>6, <2>7, <1>1
  <2> QED BY <2>1, <2>2, <2>3, <2>8 DEF FirstOf, P, c, p
<1> QED BY <1>2, <1>3

\* A list that is drawn shows the first of all that are on it.
LEMMA RowsDrawn ==
    ASSUME OrdersHeld, orders' = orders, NEW t \in Tables \cup {All},
           NEW k \in 0 .. Len(Listed(orders, t)),
           screen'.rows[t] = RowsOf(orders, t, k)
    PROVE  \E b \in 0 .. Len(orders') : \E P \in SUBSET (1 .. b) : DrawnFrom(t, b, P)'
<1> DEFINE S == OnListOf(t)
           N == Len(orders)
<1>1. /\ N \in Nat /\ DOMAIN orders = 1 .. N /\ N <= MAX_ORDERS
      /\ \A i \in DOMAIN orders : orders[i] \in Order
  BY LenProperties DEF OrdersHeld
<1>2. /\ S \in SUBSET (1 .. N)
      /\ Listed(orders, t) = InOrder(S)
      /\ Listed(orders, t) \in [1 .. Cardinality(S) -> S]
      /\ Len(Listed(orders, t)) = Cardinality(S)
  BY ListedFacts
<1>3. S' = S
  BY DEF OnListOf
<1>11. Cardinality(S) \in Nat /\ k \in 0 .. Cardinality(S)
  <2>1. Cardinality(S) \in Nat
    BY <1>1, <1>2, FS_Interval, FS_Subset, FS_CardinalityType
  <2> QED BY <1>2, <2>1
<1> HIDE DEF S, N
<1>4. PICK b \in 0 .. N : \E P \in SUBSET (1 .. b) :
               /\ P = S \cap (1 .. b) /\ Cardinality(P) = k
               /\ \A n \in 1 .. k : InOrder(P)[n] = InOrder(S)[n]
  <2>1. N \in Nat /\ S \in SUBSET (1 .. N)
    BY <1>1, <1>2
  <2>2. FirstOf(S, k, N)
    BY <1>11, <2>1, FirstPlaces
  <2> QED BY <2>2 DEF FirstOf
<1>5. PICK P \in SUBSET (1 .. b) :
               /\ P = S \cap (1 .. b) /\ Cardinality(P) = k
               /\ \A n \in 1 .. k : InOrder(P)[n] = InOrder(S)[n]
  BY <1>4
<1>6. /\ screen'.rows[t] = [n \in DOMAIN screen'.rows[t] |-> screen'.rows[t][n]]
      /\ DOMAIN screen'.rows[t] = 1 .. Cardinality(P)
  BY <1>5 DEF RowsOf
<1>7. ASSUME NEW n \in 1 .. Cardinality(P)
      PROVE  screen'.rows[t][n].at = InOrder(P)[n] /\ screen'.rows[t][n] \in Row
  <2>1. n \in 1 .. Cardinality(S) /\ n \in 1 .. k /\ InOrder(P)[n] = InOrder(S)[n]
    <3>1. n \in 1 .. k
      BY <1>5
    <3>2. n \in 1 .. Cardinality(S)
      BY <1>11, <3>1
    <3> QED BY <1>5, <3>1, <3>2
  <2>2. InOrder(S)[n] \in 1 .. N
    BY <1>2, <2>1
  <2>3. screen'.rows[t][n] = [at |-> InOrder(S)[n], status |-> orders[InOrder(S)[n]].status]
    BY <1>2, <1>5 DEF RowsOf
  <2>4. InOrder(S)[n] \in Places
    BY <1>1, <2>2, PosAssumption DEF Places
  <2>5. orders[InOrder(S)[n]].status \in Status
    BY <1>1, <2>2 DEF Order
  <2> QED BY <2>1, <2>3, <2>4, <2>5 DEF Row
<1>8. b \in 0 .. Len(orders')
  BY <1>1 DEF N
<1>9. \A i \in 1 .. b : IF i \in P THEN i \in OnListOf(t)' ELSE i \notin OnListOf(t)'
  BY <1>3, <1>5 DEF S
<1>10. DrawnFrom(t, b, P)'
  BY <1>6, <1>7, <1>9 DEF DrawnFrom
<1> QED BY <1>8, <1>10

\* Nothing is on an empty screen.
LEMMA RowsBlank ==
    ASSUME NEW t \in Tables \cup {All}, screen'.rows[t] = << >>
    PROVE  DrawnFrom(t, 0, {})'
<1>1. Cardinality({}) = 0 /\ << >> \in [1 .. 0 -> Row]
  BY FS_EmptySet
<1> QED BY <1>1 DEF DrawnFrom

\* Whatever a list shows, it showed all there was when it was drawn.
LEMMA RowsStep ==
    Types /\ OrdersHeld /\ RowsWereDrawn /\ [Next]_vars => RowsWereDrawn'
<1> SUFFICES ASSUME Types, OrdersHeld, RowsWereDrawn, [Next]_vars,
                    NEW t \in Tables \cup {All}
             PROVE  (\E b \in 0 .. Len(orders) : \E P \in SUBSET (1 .. b) : DrawnFrom(t, b, P))'
  BY DEF RowsWereDrawn
<1>0. OrdersHeld' /\ OrdersGoOn /\ Len(orders) \in Nat /\ Len(orders') \in Nat
  <2>1. OrdersHeld' /\ OrdersGoOn
    BY OrdersMove
  <2> QED BY <2>1, LenProperties DEF OrdersHeld
<1>1. CASE screen'.rows[t] = screen.rows[t]
  <2>1. PICK b \in 0 .. Len(orders) : \E P \in SUBSET (1 .. b) : DrawnFrom(t, b, P)
    BY DEF RowsWereDrawn
  <2>2. PICK P \in SUBSET (1 .. b) : DrawnFrom(t, b, P)
    BY <2>1
  <2>3. b \in 0 .. Len(orders') /\ DrawnFrom(t, b, P)'
    BY <1>0, <1>1, <2>2, RowsKept
  <2> QED BY <2>3
<1>2. CASE screen'.rows[t] = << >>
  <2>1. DrawnFrom(t, 0, {})'
    BY <1>2, RowsBlank
  <2> QED BY <1>0, <2>1
<1>3. ASSUME orders' = orders, NEW k \in 0 .. Len(Listed(orders, t)),
             screen'.rows[t] = RowsOf(orders, t, k)
      PROVE  (\E b \in 0 .. Len(orders) : \E P \in SUBSET (1 .. b) : DrawnFrom(t, b, P))'
  BY <1>3, RowsDrawn
<1>4. CASE LookAtStaff
  BY <1>1, <1>2, <1>4 DEF LookAtStaff, StaffNews, Blank, Types
<1>5. CASE Draw
  <2>0. orders' = orders
    BY <1>5 DEF Draw, ordersVars
  <2>1. Len(Listed(orders, t)) \in Nat
    BY ListedFacts, PosAssumption
  <2>2. ASSUME NEW u \in pos.left, ui_pos_table_summary(u)
        PROVE  screen'.rows[t] = screen.rows[t] \/ screen'.rows[t] = Rows(orders, t)
    BY <2>2 DEF ui_pos_table_summary, Types
  <2>3. ASSUME NEW u \in pos.left, ui_pos_staff_active(u) PROVE screen'.rows[t] = screen.rows[t]
    BY <2>3 DEF ui_pos_staff_active, Types
  <2>4. ASSUME ui_draw_pos_payment
        PROVE  \/ screen'.rows[t] = screen.rows[t]
               \/ screen'.rows[t] = RowsOf(orders, t, Fits(Len(Listed(orders, t))))
    BY <2>4 DEF ui_draw_pos_payment, Types
  <2>5. ASSUME Refresh PROVE screen'.rows[t] = screen.rows[t]
    BY <2>5 DEF Refresh
  <2>6. /\ Rows(orders, t) = RowsOf(orders, t, Len(Listed(orders, t)))
        /\ Len(Listed(orders, t)) \in 0 .. Len(Listed(orders, t))
        /\ Fits(Len(Listed(orders, t))) \in 0 .. Len(Listed(orders, t))
    BY <2>1, FitsFacts DEF Rows
  <2>7. \/ screen'.rows[t] = screen.rows[t]
        \/ \E k \in 0 .. Len(Listed(orders, t)) : screen'.rows[t] = RowsOf(orders, t, k)
    BY <1>5, <2>2, <2>3, <2>4, <2>5, <2>6 DEF Draw
  <2> QED BY <1>1, <1>3, <2>0, <2>7
<1>6. ASSUME ~ LookAtStaff, ~ Draw PROVE UNCHANGED screen
  BY <1>6 DEF Next, PosStep, vars, posVars, SessionChangesOrder, server_touch_orders,
              handle_call_staff, ReadStaffRevision, WriteStaffRevision, StaffCallExpires,
              LookAtOrders, PlainKey, HomeEnter, ClearCall, PaymentKey, PaymentEnter,
              CollectForEnter, ReadForEnter, ui_pos_collect_table_done_ids, server_pay_order
<1> QED BY <1>1, <1>4, <1>5, <1>6

\* An up-to-date selection on a drawn list selects what is highlighted there,
\* unless an order of the list was cancelled.
LEMMA RowIsSelected ==
    ASSUME OrdersHeld, RowsWereDrawn, ~ OneWasCancelled, pos.table \in Tables \cup {All},
           NEW n \in DOMAIN screen.rows[pos.table]
    PROVE  /\ n \in 1 .. Len(Listed(orders, pos.table))
           /\ Listed(orders, pos.table)[n] = screen.rows[pos.table][n].at
<1> DEFINE t == pos.table
           S == OnListOf(t)
           L == Len(orders)
<1>1. PICK b \in 0 .. L : \E P \in SUBSET (1 .. b) : DrawnFrom(t, b, P)
  BY DEF RowsWereDrawn
<1>2. PICK P \in SUBSET (1 .. b) : DrawnFrom(t, b, P)
  BY <1>1
<1>3. /\ L \in Nat /\ DOMAIN orders = 1 .. L
      /\ S \in SUBSET (1 .. L)
      /\ Listed(orders, t) = InOrder(S) /\ Len(Listed(orders, t)) = Cardinality(S)
      /\ Cardinality(S) \in Nat
  <2>1. L \in Nat /\ DOMAIN orders = 1 .. L
    BY LenProperties DEF OrdersHeld
  <2>2. MAX_ORDERS \in Nat
    BY PosAssumption
  <2> QED BY <2>1, <2>2, ListedFacts
<1>4. /\ DOMAIN screen.rows[t] = 1 .. Cardinality(P)
      /\ \A m \in 1 .. Cardinality(P) : screen.rows[t][m].at = InOrder(P)[m]
      /\ \A i \in 1 .. b : IF i \in P THEN i \in S \/ orders[i].status = "CANCELLED"
                                      ELSE i \notin S
  BY <1>2 DEF DrawnFrom
<1> HIDE DEF S
<1>5. /\ Cardinality(P) \in Nat
      /\ \A i \in P : \E m \in 1 .. Cardinality(P) : InOrder(P)[m] = i
  BY SMTT(20), <1>1, <1>3, InOrderFacts
<1>6. \A i \in P : orders[i].status # "CANCELLED"
  <2> TAKE i \in P
  <2>1. PICK m \in 1 .. Cardinality(P) : InOrder(P)[m] = i
    BY <1>5
  <2> QED BY <1>4, <2>1 DEF OneWasCancelled
<1>7. P \in SUBSET S
  BY <1>4, <1>6
<1>8. \A i \in S, p \in P : i <= p => i \in P
  BY <1>1, <1>3, <1>4
<1>9. /\ Cardinality(P) <= Cardinality(S)
      /\ \A m \in 1 .. Cardinality(P) : InOrder(P)[m] = InOrder(S)[m]
  BY <1>3, <1>7, <1>8, InitialSegment
<1> QED BY <1>3, <1>4, <1>5, <1>9

\* A cancelled order of a list that stays drawn stays cancelled.
LEMMA CancelledStays ==
    ASSUME Types, OrdersHeld, OrdersGoOn, RowsWereDrawn, OneWasCancelled,
           pos.table' = pos.table, screen' = screen
    PROVE  OneWasCancelled'
<1> DEFINE t == pos.table
<1>1. t \in Tables \cup {All}
  BY DEF Types
<1>2. PICK b \in 0 .. Len(orders) : \E P \in SUBSET (1 .. b) : DrawnFrom(t, b, P)
  BY <1>1 DEF RowsWereDrawn
<1>3. PICK P \in SUBSET (1 .. b) : DrawnFrom(t, b, P)
  BY <1>2
<1>4. PICK n \in DOMAIN screen.rows[t] : orders[screen.rows[t][n].at].status = "CANCELLED"
  BY DEF OneWasCancelled
<1>5. b \in Nat /\ b <= Len(orders) /\ Len(orders) \in Nat /\ DOMAIN orders = 1 .. Len(orders)
  BY <1>2, LenProperties DEF OrdersHeld
<1>6. screen.rows[t][n].at \in P
  <2>1. n \in 1 .. Cardinality(P) /\ screen.rows[t][n].at = InOrder(P)[n]
    BY <1>3, <1>4 DEF DrawnFrom
  <2>2. InOrder(P) \in [1 .. Cardinality(P) -> P]
    BY <1>5, InOrderFacts
  <2> QED BY <2>1, <2>2
<1>7. screen.rows[t][n].at \in DOMAIN orders
  <2>1. screen.rows[t][n].at \in 1 .. b
    BY <1>6
  <2> QED BY <1>5, <2>1
<1>8. orders'[screen.rows[t][n].at].status = "CANCELLED"
  BY <1>4, <1>7 DEF OrdersGoOn
<1> QED BY <1>4, <1>8 DEF OneWasCancelled

\* What is drawn of an order is a row.
LEMMA RowsAreRows ==
    ASSUME RowsWereDrawn, OrdersHeld, NEW t \in Tables \cup {All}
    PROVE  screen.rows[t] \in Seq(Row) /\ Len(screen.rows[t]) \in Nat
           /\ DOMAIN screen.rows[t] = 1 .. Len(screen.rows[t])
<1>1. PICK b \in 0 .. Len(orders) : \E P \in SUBSET (1 .. b) : DrawnFrom(t, b, P)
  BY DEF RowsWereDrawn
<1>2. PICK P \in SUBSET (1 .. b) : DrawnFrom(t, b, P)
  BY <1>1
<1>3. b \in Nat
  BY <1>1, LenProperties DEF OrdersHeld
<1>4. Cardinality(P) \in Nat
  BY <1>3, InOrderFacts
<1>5. screen.rows[t] \in Seq(Row)
  BY <1>2, <1>4 DEF DrawnFrom
<1> QED BY <1>5, LenProperties

\* What Enter finds highlighted.
LEMMA HighlightedFacts ==
    ASSUME Types, OrdersHeld, RowsWereDrawn, SelectionHolds
    PROVE  /\ Highlighted \in {None} \cup Places
           /\ Highlighted # None =>
                  /\ screen.tab = "PAYMENT" /\ pos.sel + 1 \in DOMAIN screen.rows[pos.table]
                  /\ Highlighted = screen.rows[pos.table][pos.sel + 1].at
<1> DEFINE rows == screen.rows[pos.table]
<1>1. pos.table \in Tables \cup {All}
  BY DEF Types
<1>2. rows \in Seq(Row) /\ Len(rows) \in Nat /\ DOMAIN rows = 1 .. Len(rows)
  BY <1>1, RowsAreRows
<1>3. pos.sel \in Nat
  BY PosAssumption DEF SelectionHolds
<1>4. Highlighted = IF screen.tab = "PAYMENT" /\ pos.sel < Len(rows)
                    THEN rows[pos.sel + 1].at ELSE None
  BY DEF Highlighted
<1> HIDE DEF rows
<1>5. ASSUME pos.sel < Len(rows) PROVE pos.sel + 1 \in DOMAIN rows /\ rows[pos.sel + 1] \in Row
  BY <1>2, <1>3, <1>5
<1>6. \A r \in Row : r.at \in Places
  BY DEF Row
<1> QED BY <1>4, <1>5, <1>6 DEF rows

\* What was meant is paid, or it would have been but for a cancelled order.
LEMMA EnterStep ==
    /\ Types /\ Control /\ SameTab /\ OrdersHeld /\ SelectionHolds /\ RowsWereDrawn
    /\ EnterHolds /\ [Next]_vars
    => EnterHolds'
<1> SUFFICES ASSUME Types, Control, SameTab, OrdersHeld, SelectionHolds, RowsWereDrawn,
                    EnterHolds, [Next]_vars
             PROVE  EnterHolds'
  OBVIOUS
<1>0. /\ OrdersHeld' /\ OrdersGoOn /\ MAX_ORDERS \in Nat
      /\ Len(orders) \in Nat /\ DOMAIN orders = 1 .. Len(orders)
      /\ Len(orders') \in Nat /\ DOMAIN orders' = 1 .. Len(orders')
      /\ DOMAIN orders \subseteq DOMAIN orders'
  <2>1. OrdersHeld' /\ OrdersGoOn
    BY OrdersMove
  <2>2. /\ Len(orders) \in Nat /\ DOMAIN orders = 1 .. Len(orders)
        /\ Len(orders') \in Nat /\ DOMAIN orders' = 1 .. Len(orders')
    BY <2>1, LenProperties DEF OrdersHeld
  <2> QED BY <2>1, <2>2, PosAssumption DEF OrdersGoOn
<1>1. pos.todo \in Seq(DOMAIN orders')
  BY <1>0, SeqMonotonic DEF EnterHolds
<1>2. ASSUME pos'.table = pos.table, screen' = screen PROVE OneWasCancelled => OneWasCancelled'
  BY <1>0, <1>2, CancelledStays
<1>3. CASE UNCHANGED <<pos, screen, meant>>
  BY <1>1, <1>2, <1>3 DEF EnterHolds
<1>4. ASSUME pos'.pc \in {"look", "lookStaff", "draw", "key"}, pos'.todo = pos.todo, meant' = meant
      PROVE  EnterHolds'
  BY <1>1, <1>4 DEF EnterHolds
<1>5. CASE LookAtOrders
  <2>1. pos'.pc = "lookStaff" /\ pos'.todo = << >> /\ meant' = None
    BY <1>5 DEF LookAtOrders, OrdersNews, Types
  <2> QED BY <1>0, <2>1 DEF EnterHolds, None, Every
<1>6. CASE LookAtStaff \/ Draw
  <2>1. CASE LookAtStaff
    BY <1>4, <2>1, LookAtStaffFacts
  <2>2. CASE Draw
    <3>1. pos.pc = "draw" /\ meant' = meant
      BY <2>2 DEF Draw, At
    <3>2. pos'.pc \in {"draw", "key"} /\ pos'.todo = pos.todo
      BY ZenonT(40), <2>2, <3>1 DEF Draw, Drawn, ui_pos_table_summary, ui_pos_staff_active,
                        ui_draw_pos_payment, Refresh, Types
    <3> QED BY <1>4, <3>1, <3>2
  <2> QED BY <1>6, <2>1, <2>2
<1>7. CASE PlainKey \/ ClearCall \/ PaymentKey
  <2>1. CASE PlainKey
    <3>1. pos'.pc = "look" /\ pos'.todo = pos.todo /\ meant' = meant
      BY ZenonT(40), <2>1 DEF PlainKey, Arrow, Loop, Redraw, Types
    <3> QED BY <1>4, <3>1
  <2>2. CASE ClearCall
    <3>1. pos'.pc = "look" /\ pos'.todo = pos.todo /\ meant' = meant
      BY <2>2 DEF ClearCall, Redraw, Types
    <3> QED BY <1>4, <3>1
  <2>3. CASE PaymentKey
    <3>1. \/ \E s : pos' = Redraw([pos EXCEPT !.sel = s])
          \/ \E t : pos' = Redraw([pos EXCEPT !.table = t, !.sel = 0])
      BY <2>3 DEF PaymentKey
    <3>2. pos'.pc = "look" /\ pos'.todo = pos.todo
      BY ZenonT(40), <3>1 DEF Redraw, Types
    <3>3. meant' = meant
      BY <2>3 DEF PaymentKey
    <3> QED BY <1>4, <3>2, <3>3
  <2> QED BY <1>7, <2>1, <2>2, <2>3
<1>8. CASE HomeEnter
  <2>1. screen.tab = "HOME"
    BY <1>8 DEF HomeEnter, At, Control, SameTab, Between
  <2>2. meant' = None /\ pos'.pc = "collect" /\ pos'.todo = pos.todo
    BY <1>8, <2>1 DEF HomeEnter, Highlighted, Types
  <2> QED BY <1>0, <1>1, <2>2 DEF EnterHolds, None, Every
<1>9. CASE PaymentEnter
  <2>1. /\ pos'.pc = "collect" /\ pos'.todo = pos.todo /\ meant' = Highlighted
        /\ pos'.sel = pos.sel /\ pos'.table = pos.table /\ screen' = screen
    BY <1>9 DEF PaymentEnter, Types
  <2>2. meant' \in 0 .. Every /\ meant' # Every
    BY <1>0, <2>1, HighlightedFacts DEF None, Every, Places
  <2>3. meant' # None =>
            /\ screen'.tab = "PAYMENT" /\ pos'.sel + 1 \in DOMAIN screen'.rows[pos'.table]
            /\ meant' = screen'.rows[pos'.table][pos'.sel + 1].at
    BY <2>1, HighlightedFacts
  <2> QED BY <1>1, <2>1, <2>2, <2>3 DEF EnterHolds
<1>10. CASE CollectForEnter
  <2>1. /\ pos.pc = "collect" /\ UNCHANGED <<orders, screen, meant>> /\ pos'.table = pos.table
        /\ meant # Every /\ meant \in 0 .. Every
    BY <1>10 DEF CollectForEnter, At, Loop, ordersVars, Types, EnterHolds
  <2>2. CASE pos' = Loop(pos)
    BY <1>4, <2>1, <2>2 DEF Loop, Types
  <2>3. CASE /\ pos.sel < Len(Listed(orders, pos.table))
             /\ pos' = [pos EXCEPT !.pc = "read", !.todo = <<Listed(orders, pos.table)[pos.sel + 1]>>]
    <3> DEFINE i == Listed(orders, pos.table)[pos.sel + 1]
    <3>1. pos'.pc = "read" /\ pos'.todo = <<i>>
      BY <2>3 DEF Types
    <3>2. i \in DOMAIN orders
      <4>1. /\ Listed(orders, pos.table) \in Seq(DOMAIN orders)
            /\ Len(Listed(orders, pos.table)) \in Nat
        BY <1>0, ListedFacts
      <4>2. pos.sel + 1 \in 1 .. Len(Listed(orders, pos.table))
        BY <1>0, <2>3, <4>1 DEF SelectionHolds
      <4> QED BY <4>1, <4>2, ElementOfSeq
    <3>3. ASSUME meant # None, ~ OneWasCancelled PROVE i = meant
      <4>1. /\ pos.sel + 1 \in DOMAIN screen.rows[pos.table]
            /\ meant = screen.rows[pos.table][pos.sel + 1].at
        BY <2>1, <3>3 DEF EnterHolds
      <4>2. pos.table \in Tables \cup {All}
        BY DEF Types
      <4> QED BY <3>3, <4>1, <4>2, RowIsSelected
    <3> HIDE DEF i
    <3>4. pos'.todo \in Seq(DOMAIN orders') /\ pos'.todo # << >> /\ Len(pos'.todo) = 1
          /\ Head(pos'.todo) = i
      BY <1>0, <3>1, <3>2
    <3>5. meant' # None => Head(pos'.todo) = meant' \/ OneWasCancelled'
      BY <1>2, <2>1, <3>3, <3>4
    <3> QED BY <2>1, <3>1, <3>4, <3>5 DEF EnterHolds
  <2> QED BY <1>10, <2>2, <2>3 DEF CollectForEnter, ui_pos_collect_table_order_indices
<1>11. CASE ReadForEnter
  <2>1. /\ pos.pc = "read" /\ pos'.pc \in {"look", "pay"} /\ UNCHANGED <<screen, meant>>
        /\ pos'.todo = pos.todo /\ pos'.table = pos.table
    BY <1>11 DEF ReadForEnter, At, Loop, Types
  <2> QED BY <1>1, <1>2, <2>1 DEF EnterHolds
<1>12. CASE ui_pos_collect_table_done_ids
  <2> DEFINE ids == InOrder({i \in DOMAIN orders : /\ OnList(orders[i], pos.table)
                                                   /\ orders[i].status = "DONE"})
  <2>1. ids \in Seq(DOMAIN orders')
    <3> DEFINE S == {i \in DOMAIN orders : OnList(orders[i], pos.table) /\ orders[i].status = "DONE"}
    <3>1. S \in SUBSET (1 .. Len(orders))
      BY <1>0
    <3> HIDE DEF S
    <3>2. Cardinality(S) \in Nat /\ InOrder(S) \in [1 .. Cardinality(S) -> S]
      BY <1>0, <3>1, InOrderFacts
    <3>3. InOrder(S) \in Seq(DOMAIN orders')
      <4>1. InOrder(S) \in Seq(S) /\ S \subseteq DOMAIN orders'
        BY <1>0, <3>1, <3>2
      <4> QED BY <4>1, SeqMonotonic
    <3> QED BY <3>3 DEF S
  <2>2. meant' = Every /\ (pos' = Loop(pos) \/
            (ids # << >> /\ pos' = [pos EXCEPT !.pc = "pay", !.todo = ids, !.dirty = TRUE]))
    BY <1>12 DEF ui_pos_collect_table_done_ids
  <2> HIDE DEF ids
  <2>3. \/ pos'.pc = "look" /\ pos'.todo = pos.todo
        \/ pos'.pc = "pay" /\ pos'.todo = ids /\ ids # << >>
    BY <2>2 DEF Loop, Types
  <2>4. meant' \in 0 .. Every
    BY <1>0, <2>2 DEF Every
  <2> QED BY <1>1, <2>1, <2>2, <2>3, <2>4 DEF EnterHolds
<1>13. CASE server_pay_order
  <2>1. /\ pos.pc = "pay" /\ pos.todo # << >> /\ pos'.todo = Tail(pos.todo) /\ meant' = meant
        /\ pos'.pc = IF Tail(pos.todo) = << >> THEN "look" ELSE "pay"
    BY <1>13 DEF server_pay_order, At, Types
  <2>2. Tail(pos.todo) \in Seq(DOMAIN orders') /\ Len(Tail(pos.todo)) = Len(pos.todo) - 1
    BY <1>1, <2>1, HeadTailProperties
  <2>3. meant # Every => Tail(pos.todo) = << >>
    <3>1. meant # Every => Len(pos.todo) = 1
      BY <2>1 DEF EnterHolds
    <3>2. Len(Tail(pos.todo)) = 0 => Tail(pos.todo) = << >>
      BY <2>2, EmptySeq
    <3> QED BY <2>2, <3>1, <3>2
  <2> QED BY <2>1, <2>2, <2>3 DEF EnterHolds
<1> QED
  BY <1>3, <1>5, <1>6, <1>7, <1>8, <1>9, <1>10, <1>11, <1>12, <1>13
     DEF Next, PosStep, vars, posVars, SessionChangesOrder, server_touch_orders,
         handle_call_staff, ReadStaffRevision, WriteStaffRevision, StaffCallExpires

\* The lists are empty at the start.
LEMMA ListsInit == Init => LInv
<1> SUFFICES ASSUME Init PROVE LInv
  OBVIOUS
<1>0. MAX_ORDERS \in Nat \ {0} /\ MaxNews \in Nat
  BY PosAssumption
<1>1. OrdersHeld /\ orders \in Seq(DOMAIN orders)
  BY <1>0 DEF Init, OrdersHeld
<1>2. CountsBounded
  <2>1. {w \in Counters : Counting(w)} = {} /\ \A w \in Counters : count[w].seen = 0
    BY DEF Init, Counting, Idle
  <2>2. Cardinality({w \in Counters : Counting(w)}) = 0
    BY <2>1, FS_EmptySet
  <2> QED BY <1>0, <2>1, <2>2 DEF CountsBounded, Init
<1>3. SameTab /\ SelectionHolds
  BY <1>0 DEF Init, SameTab, SelectionHolds
<1>4. RowsWereDrawn
  <2>1. ASSUME NEW t \in Tables \cup {All}
        PROVE  DrawnFrom(t, 0, {}) /\ 0 \in 0 .. Len(orders)
    <3>1. screen.rows[t] = << >> /\ << >> \in [1 .. 0 -> Row] /\ Cardinality({}) = 0
      BY FS_EmptySet DEF Init, Blank
    <3>2. Len(orders) = 0
      BY DEF Init
    <3> QED BY <3>1, <3>2 DEF DrawnFrom
  <2> QED BY <2>1 DEF RowsWereDrawn
<1>5. EnterHolds
  BY <1>0 DEF Init, EnterHolds, None, Every
<1>6. LockHeld
  BY DEF Init, LockHeld
<1> QED BY <1>1, <1>2, <1>3, <1>4, <1>5, <1>6, InvInit DEF LInv

\* All parts together hold of every behaviour.
LEMMA ListsInvariance == Spec => []LInv
<1>1. LInv /\ [Next]_vars => LInv'
  <2> SUFFICES ASSUME LInv, [Next]_vars PROVE LInv'
    OBVIOUS
  <2>1. Types /\ Control /\ OrdersSeen
    BY DEF LInv, IInv
  <2>2. IInv' /\ OrdersHeld' /\ CountsBounded'
    BY <2>1, InvStep, OrdersMove, CountsStep DEF LInv
  <2>3. SameTab' /\ SelectionHolds' /\ RowsWereDrawn' /\ EnterHolds'
    BY <2>1, SameTabStep, SelectionStep, RowsStep, EnterStep DEF LInv
  <2>4. LockHeld'
    BY DEF LInv, LockHeld, Next, PosStep, vars, ordersVars, SessionChangesOrder, server_touch_orders,
           handle_call_staff, ReadStaffRevision, WriteStaffRevision, StaffCallExpires,
           LookAtOrders, LookAtStaff, Draw, PlainKey, HomeEnter, ClearCall, PaymentKey,
           PaymentEnter, CollectForEnter, ReadForEnter, ui_pos_collect_table_done_ids,
           server_pay_order
  <2> QED BY <2>2, <2>3, <2>4 DEF LInv
<1> QED BY <1>1, ListsInit, PTL DEF Spec

\* Records, lists and counters are what they should be, for any tables, orders
\* and sessions: a list never shows what is no order, a key never selects or
\* pays one that does not exist.
THEOREM PosTypeCorrect == Spec => []TypeOK
<1>1. LInv => TypeOK
  <2> SUFFICES ASSUME LInv PROVE TypeOK
    OBVIOUS
  <2>1. /\ Types /\ OrdersHeld /\ CountsBounded /\ SelectionHolds /\ RowsWereDrawn /\ EnterHolds
    BY DEF LInv, IInv
  <2>2. /\ \A i \in DOMAIN orders : orders[i] \in [table : Tables, status : Status]
        /\ Len(orders) <= MAX_ORDERS
    BY <2>1, LenProperties DEF OrdersHeld, Order
  <2>3. lock \in {"none", "session", "pos"}
    BY DEF LInv, LockHeld
  <2>4. /\ staff_revision \in 0 .. MaxNews
        /\ \A w \in Counters : count[w].seen \in 0 .. MaxNews
    <3>1. /\ staff_revision \in Nat /\ \A w \in Counters : count[w].seen \in Nat
      BY <2>1 DEF Types
    <3> DEFINE busy == Cardinality({w \in Counters : Counting(w)})
    <3>2. busy \in Nat /\ staff_revision + busy <= MaxNews
          /\ \A w \in Counters : count[w].seen + busy <= MaxNews
      BY <2>1, CountersFinite DEF CountsBounded
    <3> HIDE DEF busy
    <3> QED BY <3>1, <3>2, PosAssumption
  <2>5. count \in [Counters -> [step : {"idle", "read", "write"}, seen : 0 .. MaxNews]]
    <3>1. \A w \in Counters : count[w] \in [step : {"idle", "read", "write"}, seen : 0 .. MaxNews]
      BY <2>1, <2>4 DEF Types
    <3> QED BY <2>1, <3>1 DEF Types
  <2>6. \A t \in Tables \cup {All} : \A n \in DOMAIN screen.rows[t] : screen.rows[t][n] \in Row
    BY <2>1, RowsAreRows
  <2>7. \A n \in DOMAIN pos.todo : pos.todo[n] \in DOMAIN orders
    BY <2>1, LenProperties DEF EnterHolds
  <2>8. /\ orders_revision \in Nat /\ staff_call \in [Tables -> BOOLEAN]
        /\ pos.pc \in {"look", "lookStaff", "draw", "key", "collect", "read", "pay"}
    BY <2>1 DEF Types, Steps
  <2>9. pos.sel \in 0 .. (MAX_ORDERS - 1) /\ meant \in 0 .. Every
    BY <2>1 DEF SelectionHolds, EnterHolds
  <2>10. /\ pos.grid_row \in 0 .. (GRID_ROWS - 1) /\ pos.grid_col \in 0 .. (GRID_COLS - 1)
         /\ pos.left \subseteq InView(pos.grid_row, pos.grid_col)
         /\ pos.box \in pos.left \cup {None}
    BY DEF LInv, IInv, GridHeld, View
  <2> QED BY <2>2, <2>3, <2>4, <2>5, <2>6, <2>7, <2>8, <2>9, <2>10 DEF TypeOK
<1> QED BY <1>1, ListsInvariance, PTL

\* On a payment list that is up to date and not empty the selection is one of
\* the listed orders, and it is highlighted if its row fits the terminal.
THEOREM SelectedIs == Spec => []SelectedIsHighlighted
<1>1. LInv => SelectedIsHighlighted
  <2> SUFFICES ASSUME LInv, pos.pc = "key", NoNews, pos.tab = "PAYMENT",
                      Listed(orders, pos.table) # << >>
               PROVE  /\ pos.sel + 1 \in DOMAIN Listed(orders, pos.table)
                      /\ Highlighted = IF pos.sel < MAX_ROWS
                                       THEN Listed(orders, pos.table)[pos.sel + 1] ELSE None
    BY DEF SelectedIsHighlighted
  <2> DEFINE list == Listed(orders, pos.table)
             n    == Cardinality(OnListOf(pos.table))
             rows == screen.rows[pos.table]
  <2>1. rows = RowsOf(orders, pos.table, Fits(Len(list))) /\ screen.tab = "PAYMENT"
    BY DEF LInv, IInv, Control, OrdersSeen, ShowsNow, Between
  <2>2. pos.table \in Tables \cup {All}
    BY DEF LInv, IInv, Types
  <2>3. OrdersHeld /\ RowsWereDrawn /\ SelectionHolds
    BY DEF LInv
  <2>4. n \in Nat /\ Len(list) = n /\ DOMAIN list = 1 .. n /\ list \in Seq(DOMAIN orders)
    <3>1. n \in 0 .. MAX_ORDERS /\ MAX_ORDERS \in Nat
      BY <2>3, ListedFacts, PosAssumption
    <3> HIDE DEF n
    <3>2. Len(list) = n /\ DOMAIN list = 1 .. n /\ list \in Seq(DOMAIN orders)
      BY <2>3, ListedFacts DEF n
    <3> QED BY <3>1, <3>2
  <2>5. pos.sel \in Nat /\ (pos.sel = 0 \/ pos.sel < n)
    BY <2>3, PosAssumption DEF SelectionHolds
  <2>6. n # 0
    BY <2>4, EmptySeq
  <2>7. rows \in Seq(Row) /\ Len(rows) \in Nat /\ DOMAIN rows = 1 .. Len(rows)
    BY <2>2, <2>3, RowsAreRows
  <2>8. DOMAIN rows = 1 .. Fits(n) /\ Fits(n) \in 0 .. n
        /\ \A m \in 1 .. Fits(n) : rows[m].at = list[m]
    BY <2>1, <2>4, FitsFacts DEF RowsOf
  <2>9. Highlighted = IF pos.sel < Len(rows) THEN rows[pos.sel + 1].at ELSE None
    BY <2>1 DEF Highlighted
  <2> HIDE DEF list, n, rows
  <2>10. Len(rows) = Fits(n)
    BY <2>4, <2>7, <2>8
  <2>11. pos.sel < n /\ pos.sel + 1 \in 1 .. n
    BY <2>4, <2>5, <2>6
  <2>12. pos.sel < Fits(n) <=> pos.sel < MAX_ROWS
    BY <2>4, <2>5, <2>11, PosAssumption DEF Fits
  <2>13. pos.sel < Fits(n) => pos.sel + 1 \in 1 .. Fits(n)
    BY <2>4, <2>5, <2>8
  <2> QED BY <2>4, <2>8, <2>9, <2>10, <2>11, <2>12, <2>13 DEF list
<1> QED BY <1>1, ListsInvariance, PTL

\* Enter pays the order that was highlighted when it came, whatever orders came
\* in or moved on since the list was drawn, unless one of the list was
\* cancelled (ui.c 1744-1800).
THEOREM EnterPays == Spec => []EnterPaysItsRow
<1>1. LInv => EnterPaysItsRow
  BY DEF LInv, EnterHolds, OneWasCancelled, EnterPaysItsRow
<1> QED BY <1>1, ListsInvariance, PTL
=============================================================================
