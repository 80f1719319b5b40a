# Verification of the restaurant ordering system

A POS server (`src/src/server.c`, with the POS screen of `ui_run_pos` running in
the same process), table terminals (`ui_run_table`) and kitchen terminals
(`ui_run_kitchen`) share the life of orders over TCP: a table creates an order,
the kitchen cooks it, the POS takes the money. This directory holds TLA+ models
of the parts of that system whose behaviour depends on order and timing, TLC
configurations that check them on small instances, and proofs that TLAPS
checks.

In every module a definition whose name ends in `Fault` is a plausible slip in
the definition after it. Nothing uses these except the mutations listed in
`PROJECT.json`, which show that a property would notice the slip.

## 1. Inventory

| Component | Code | State | Operations | Talks to |
|---|---|---|---|---|
| Order server | `server.c`, `common.h` | order table, `next_order_id`, broadcast slots, one detached thread per connection, `ctx->lock` | accept, HELLO, register and snapshot, create, update, cancel, pay, broadcast, reply, leave | clients by socket, POS screen by shared memory, config store and logs by calls |
| Client transport and mirror | `ui.c` 73-226, 2132-2171, 3188-3307, 3785-3926 | socket, `UiNetQueue` of 128 lines, mirror of the orders | reader thread, queue, handshake loop, merge, the keys that send requests | server |
| Configuration store | `storage.c` 56-270 | `tables.conf`, `tables.conf.tmp`, the counters in memory | load with defaults, rewrite through a temporary file and `rename` | called by sessions (under the lock) and by the POS screen (without it) |
| Cart and order building | `order.c` 12-94, `server.c` 147-164, 534-606 | the table's cart, the server's menu | add, plus, minus, remove, send, reprice | table screen, server |
| POS screen | `ui.c` 839-1186, 1592-1780 | tab, selection, two last-seen revisions, what is drawn | look, draw, keys of the home and the payment tab | order table under `ctx->lock`, revisions without it |
| Table screen | `ui.c` 3188-3732 | screen, focus, category, one selection for all lists, confirmation, a copy of the menu | arrows, blank, `+`, `-`, `r`, `c`, `m`, Enter, a menu that arrives | cart, transport |
| Staff calls | `server.c` 170-172, 640-663, `ui.c` 862-873 | `staff_call_at`, `staff_revision` | call, clear, expire, count | POS screen |
| Logs | `storage.c` 272-304, `server.c` 113-145 | `sales.log`, `orders.log`, `server.log` | append | server |
| Menu catalogue | `menu.c`, `ui.c` 195-215, 1790-1978, `server.c` 521-532 | items, `menu.csv`, a catalogue on every table | edit, sold out, load with defaults, save, `MENU_SYNC`, `MENU_REQUEST` | POS screen, sessions, tables |
| Protocol text | `protocol.c` | none | format and parse lines | server and clients |
| Layout editor | `layout.c`, `ui.c` 1478-1546, 1990-2090 | placements, grid size, cursor, `layout.conf`, `max_tables` | add, delete, move, zone, label, resize, save | POS screen, config store, terminals (which may write the default plan) |
| Start, signals, shutdown | `pos_server.c`, `server.c` 32-44, 103-125, 245-310, 760-785 | `shutting_down`, `listen_fd`, the table of descriptors | init, load, accept loop, `q`, SIGINT, close everything, save | all of the above |
| Client mains, drawing, build files | `table_client.c`, `kitchen_client.c`, rest of `ui.c`, `Makefile` | none | arguments, ncurses and chafa output | |

What is hard in this code, and what correctness means there:

* **Order server.** Connections register, orders change and lines are written in
  any interleaving of session threads. Ids must be unique, a connection must
  never be left with an old status, must hear of an order's life without gaps,
  and a payment must be in the ledger before anybody hears of it.
* **Client side.** Sockets fill up while the server holds its lock, the queue
  drops lines, a key is translated with a mirror that is behind. A screen that
  has caught up must agree with the server; a line that was told must appear.
* **Configuration store.** Two savers share one temporary file, calls fail, the
  process dies anywhere. The file must stay whole, and an id that a client was
  told must not be given out again after a restart.
* **Cart.** The menu changes on the server while a table fills a cart from its
  own copy. The order taken must be the bag of items that was sent, at the
  server's prices.
* **Menu.** An edit, its announcement, its save and a table's request come in
  several orders, and a menu formatted earlier may arrive after a newer
  announcement. A table with nothing under way must show the server's menu, and
  a restart must find it.
* **POS screen.** The loop reads counters without the lock, draws under it, and
  acts on a key up to 200 ms later. A stale screen must know that it is stale,
  and Enter must pay the order that is highlighted.

* **Table screen.** One index stands for a menu item, a line of the cart or a
  row of the orders, and menus arrive between keys. A key must act on what is
  highlighted.
* **Layout.** Tables are added, deleted and hidden by a smaller grid; ids are
  made from the array and from the file. No two tables may share an id or a
  cell, and a saved plan must come back.
* **Shutdown.** Sockets are closed under session threads that nobody waits for,
  and their descriptor numbers are given out again to the files that are saved
  next. A broadcast must not go to a file, an end must be reached, and one in
  which nobody was busy must save everything.

`PROJECT.json` lists every hazard at its line with the properties that would
catch it. Where the code gives a hazard nothing that could hold, it names no
property, and its note says which exception covers it.

## 2. Modules

| Module | What it is |
|---|---|
| `OrderRules` | statuses and moves: `valid_kitchen_transition`, what can be cancelled, paid, shown |
| `OrderLife` | abstract specification: orders are opened one by one, each moves along legal moves, a paid order is recorded in the ledger (or given up), once |
| `OrderServer` | the server. One action per request handler from its checks to the change it makes; the steps the lock holder takes after it (ledger entry, one broadcast slot at a time, unlock) are actions of their own, so that what each connection was told can be compared with the table in between |
| `OrderSync` | composes `OrderServer` with clients: sockets, `UiNetQueue`, mirrors, requests. Each action of the server is one of `OrderServer` conjoined with what it writes |
| `ConfigStore` | `tables.conf`: the start of `main` and the rewriting by a session and by the POS screen, step by step, with failing calls and the end of the process anywhere |
| `CartBag`, `Cart` | a bag of menu ids, and the array `Cart` of `order.c` with what is done to its lines, the request and the server's repricing |
| `TableScreen` | the three screens of `ui_run_table` over `Cart`: which item or line each key acts on, while menus arrive |
| `PosScreen` | the loop of `ui_run_pos` against sessions that change orders and call for staff, on a terminal that need not have room for all tables and orders |
| `MenuSync` | the menu: the keys of the POS's menu tab, `menu.csv`, `MENU_SYNC`, `MENU_REQUEST` and the tables' catalogues, with failing saves and the end of the process anywhere |
| `LayoutEditor` | the seating plan: every key of the layout tab, `layout.conf` and `max_tables`, saves that fail, restarts, a terminal that writes the default plan |
| `Shutdown` | how the process ends: `q`, SIGINT and `server_shutdown` step by step against the accept thread and the sessions, with descriptor numbers and SIGPIPE |
| `MCOrderServer`, `MCOrderSync`, `MCTableScreen`, `MCMenuSync`, `MCPosScreen`, `MCLayoutEditor` | values of the constants for TLC |
| `OrderServerProofs`, `OrderSyncProofs`, `ConfigStoreProofs`, `PosScreenProofs`, `MenuSyncProofs`, `LayoutEditorProofs`, `ShutdownProofs`, `TableScreenProofs` | theorems |

Correspondence with the code:

* `OrderServer`: `orders`, `next_order_id` and `clients` are the fields of
  `ServerContext`; `lock` is `ctx->lock` with the holder's progress; `session`
  is where a connection's thread is in `client_thread_main`; `sales` is
  `sales.log`, and `dropped` remembers the SALE lines whose append failed.
  `told[c][id]` is a history: the last status written to `c` about `id`.
  Refused requests change nothing and are no action here (`OrderSync` has
  them, for their replies). `server_create_order` has no caller and is left out.
* `OrderSync`: `wire`, `queue`, `mirror`, `requests` are the socket, the queue,
  the array the screen draws from and the requests under way; `lost` is a
  history of dropped lines. A write blocks while the socket is full, with the
  lock held if the code holds it: a broadcast stops at a slot, and a snapshot
  goes out line by line (`unsent` is what is left of it) while nobody else gets
  the lock (`LockFree`). A refusal is decided under the lock and written after
  the unlock (`refused`), like a reply. A write to a client that has quit
  disappears.
* `ConfigStore`: `conf` and `tmp` are the two files, `outbuf` the text each saver
  formatted, `fdw` whether its `FILE` is open and on which file. `phase` is how
  far `main` has come: `server_init`, the `stat` of `ensure_defaults`,
  `write_entire_file` in two steps (open with `O_TRUNC`, then a write whose
  result nobody looks at), the load or its failure, the threads, and the one
  save of `server_shutdown` when the start has failed. What comes after `q` is a
  save like another. `told`, `overlapped` and `failed` are histories. Of the file
  only `next_order_id` is followed. A failing write writes nothing. There is one
  process at a time (a second one cannot bind the port before
  `server_shutdown` has closed it; after that, and before the saves, it could).
* `Cart`: lines are `[id, qty]` and prices; names are left out, sums do not
  overflow.
* `TableScreen` has one action for each key of each screen. `cat` is the table's
  copy of the menu, `sel` the one index. Between two keys the code empties its
  queue and draws, so that the variables are what the screen shows. Which entry
  of the sidebar is marked is left out (a blank there may choose any), and the
  rows of the order list, which `OrderSync` has, may be any number. `loose`
  remembers that the list under the selection was exchanged and no key has put
  the selection in its place since.
* `MenuSync`: `menu` is `ctx->menu` and, while the server is down, what it was
  last, so that a restart can be compared with it. The text of an item stands
  for name, price, category and popular flag; a name with a comma and an empty
  one are texts of their own, with what sanitizing and `strtok_r` make of them.
  Lines are as long as they have items. `pos` is how far the POS thread is with
  a key: edit, save and broadcast come in a different order for each. A table
  loads `menu.csv` from the server's directory, as in `docs/demo_scenario.md`,
  and may write the default file there. `doubt` is a history of everything that
  parts the file from the menu. `Kill` stands for any end of the process by a
  signal. Requests and lines under way are dropped when the server ends, since
  nothing is claimed of a table without a server.
* `LayoutEditor`: `layout` is the array of placements with the grid's size, and
  `vacated` what deleted tables left above `layout.count`, which
  `ui_pos_layout_alloc_slot` reads. `cursor` and `edit` are `grid_row`,
  `grid_col` and `layout_edit_idx`. A save goes through a temporary file and
  `rename` by one thread, so it happens whole or not at all. Of a label it is
  kept whether its text reads as a field of its line. `kept`, `doubt` and
  `shifted` are histories: the plan saved or loaded last, that a terminal wrote
  over it, that a label was read back as a place. A start that fails saves the
  number of tables it has (`StartFails`).
* `Shutdown`: `open` is the process's descriptor table, of which every open and
  accept takes the lowest free number; `fd`, `file` and `fdw` are the numbers the
  threads hold. A write to a number goes to whatever the number stands for: to
  a file (`text`), to a client, or to a socket that was shut or reset, which is
  SIGPIPE and the end. Of a request it is kept when it takes the lock, which
  files it opens and when it writes. `late` and `left` are histories: a session
  was busy while its socket was closed, a client had left. A session's save of
  `tables.conf` does not open the old file first, as main's does.
* `PosScreen`: `pos` holds the locals of `ui_run_pos`, `screen` what was drawn
  last, `count` where a thread is inside the unlocked `staff_revision++` (a load
  and a store). `meant` (the highlighted order when Enter came) and `raced` are
  histories. What is drawn is what fits: the tables whose cells lie in the
  viewport around the cursor (`InView`; none if `VIEW_ROWS` or `VIEW_COLS` is 0, as
  on a terminal that is too small) and the first `MAX_ROWS` orders of the payment
  list, which does not scroll. Each table of the home tab takes the lock twice,
  once for its orders and once for its call. The terminal keeps its size and the
  plan its tables; the side panel, which shows the table under the cursor once
  more and the text of the latest call, is left out.

## 3. Runs

| Run | Instance | Shows |
|---|---|---|
| `order_server` | 1 table, 2 kitchens, 2 orders, 2 slots | types, `IdsUnique`, `SalesLedger`, `PaidIsToldLast`, `ToldIsCurrent`, `ToldWithoutGaps`; every change is announced; the server implements `OrderLife` with its fairness |
| `order_sync` | 1 table, 1 kitchen, 1 order, room for one line everywhere | a caught-up mirror that lost nothing agrees; screens move legally |
| `order_sync_live` | 2 tables, 1 order | what is told is shown; the handshake ends |
| `config_store` | ids up to 3 | no save leaves the file empty or missing and told ids are durable, unless saves overlap or one of the calls of section 4 fails |
| `config_store_restart` | the same, no failing call | **violated**: overlapping saves lose the counter, a told id is used again (`tables.conf` line 2) |
| `table_screen` | 3 ids, 2 lines, quantity up to 2, 3 menus, 2 cards in a row | the cart is a bag, the order taken is what was sent, keys act on the line or card shown, up to the cases of section 4 |
| `menu_sync` | 1 table, menus of up to 4 items (3 fit in a line, 2 in the reader's buffer), 2 edits | a settled table shows the menu; a restart finds it; every table comes to show it |
| `pos_screen` | 2 tables two columns apart, a viewport of 2 of 3 columns, one row in the payment list, 2 orders, changes and calls bounded by 4 (a call counts as 2) | a stale screen has news waiting; on a list that is up to date the selected order is the one highlighted, or does not fit; Enter pays its row; a call in view is drawn unless increments overlapped |
| `pos_enter` | 1 order | **violated**: Enter on the home tab pays an order no list has shown (item 11 of demo_scenario.md, line 13) |
| `layout_editor` | a grid of 2 by 2, 3 places, ids up to 4, 3 edits | tables set apart and counted; keys act at the cursor; only resizing hides a table; a restart shows the plan saved last |
| `shutdown` | 2 clients, 6 descriptor numbers, 2 connections, 2 requests | broadcasts only go to sockets; an end with nobody busy saves both files; the end is reached |
| `shutdown_safe` | the same | **violated**: a session that answers after its socket was shut kills the process before the configuration is saved (README.md line 91) |

Why the bounds are enough for what they are meant to show. Two slots for three
clients make a connection find all slots taken, leave and be replaced; two
orders let a change of one fall between registration and broadcast of the other
and fill the table, so that a refusal happens. In `OrderSync` one place in every
queue is the hardest case: every write blocks, every second line is dropped.
`MenuSync` has a socket of one line, so that the announcement, the older menu
and the session wait for each other, a queue of two lines, which overflows but
need not, and menus on both sides of each of the three limits of length. Its
tables do not act on each other except over the lock and the file.
`ConfigStore` needs two ids to show a counter going back and has three. The
cart has more ids than lines, so that it gets full; the three menus have items
in other categories, items sold out and fewer items than before, so that a menu
that arrives hides, shortens or empties the list under the selection, and the
server edits one item's price or takes it off sale while an order is under way.
In `LayoutEditor` the array holds one table less than the grid has cells, so
that both a full array and a free cell occur; the file is missing, damaged (no
rows) or full; the sizes typed make the grid smaller in either direction, too
small to be taken, and large again. Three edits are an addition, a deletion and
another addition, which is what it takes for an id to be given out again. In
`Shutdown` two clients can be busy and idle, or both busy, when the sockets are
closed; six numbers are a listening socket, two sockets, two sessions' files and
main's file, all at once. In `PosScreen` two orders
and four changes are what it takes to draw a list, cancel its first row and
have the second one, which has no row, DONE under Enter; neither table is in
view from the cell of the other. That an increment sets `staff_revision` back to
what the loop has seen takes two sessions and three calls; this was checked apart
(one table, two `Sessions`, `MaxNews` 6), and the proof covers any number.

The bound on orders is also the code's own (`MAX_ORDERS`, 256 there), as are
`MAX_CLIENTS`, `QCAP` and the cart's limits; `WCAP`, `RCAP`, `MAX_ID`,
`MaxNews`, `MAX_EDITS`, `MAX_FD`, `MAX_CONNECTS`, `MAX_LINES`,
the order list's `MAX_ROWS` in `TableScreen` and the sets of ids, prices, menus,
sizes and tables are bounds of the models. The grid, the viewport and `MAX_ROWS` of
`PosScreen` are those of a terminal. `CHECK_DEADLOCK` is never switched off.

**Fairness.** `FairSpec` assumes that the thread holding `ctx->lock` runs on:
after the lock it makes no wait other than file and socket writes.
`SyncFairSpec` adds every client's reader thread and UI loop, neither of which
waits for anything but its input. Nothing is assumed about who gets the mutex
next, about users pressing keys, or about clients connecting. `FairSpec` of
`MenuSync` has the POS thread finish the key it handles, and every session,
reader thread and UI loop run on; sessions get the mutex because keys are
finitely many there (`MAX_EDITS`). `FairSpec` of `Shutdown` has main, the
accept thread and every session run on with what they have begun, as threads do
that wait for nothing but the lock, and the POS screen return once it has read
`q` or seen `shutting_down`; whether a session gets the lock, sends a
request or leaves is left open. A client whose
process is stopped does not read, so that a write under the lock blocks the
whole server; that is a listed hazard and outside the liveness runs.

## 4. Findings

Each has a run that TLC finds violated:

1. The POS screen saves the configuration without the lock (`ui.c` 1811); two
   savers share `tables.conf.tmp`, an old counter or an empty file is published
   and ids come back after a restart (`config_store_restart`).
2. Enter on a table of the POS home tab changes the tab and is then handled by
   the payment tab's block too: it pays the table's first order if that is DONE
   (`ui.c` 1720-1775; `pos_enter`).
3. `server_shutdown` shuts and closes sockets that sessions still use, and
   nothing ignores SIGPIPE: a session that answers a request after that ends the
   process before `tables.conf` is saved (`server.c` 298; `shutdown_safe`).

Also seen, without a run; most are cases that a property has to except, and the
definition that excepts them is named:

* Server: a connection that finds all `MAX_CLIENTS` slots taken is served but
  not registered, and hears of no change (`server.c` 220). An append to
  `sales.log` that fails leaves the order PAID without its line (`dropped` in
  `OrderServer`). The kitchen may skip COOKING and put an order back to WAITING,
  after which a table may cancel what was being cooked (README.md line 90 has
  `WAITING → COOKING → DONE`). A client that has closed its socket ends the
  server by SIGPIPE at the second line written to it (`left` in `Shutdown`).
* Transport: `ui_net_enqueue` drops a line when 128 wait, and nothing asks for
  it again (`ui.c` 135; `lost`). The reader thread ends at a line of 8192 bytes,
  while `MAX_PROTO_LINE` allows the server 16384 (`ui.c` 115, `common.h` 11): the
  table keeps its old menu, hears nothing more, and once its socket is full the
  next broadcast blocks the server with the lock held.
* Start: a load that fails, of `tables.conf` or of `menu.csv`, still ends in
  `server_shutdown`, which saves `next_order_id=1` over a good counter
  (`pos_server.c` 28-31) if the failed call was one of `storage_load_config`;
  where only `stat` fails, the default is written over the file (`storage.c` 70;
  both are `failed` in `ConfigStore`). The first start writes its default into
  `tables.conf` in place and does not look at the result (`storage.c` 57-64): a crash
  there leaves an empty file, which the next start reads as a counter of 1; no id
  has been told by then (`OpenDefault` in `ReplaceIsAtomic`).
* Payment tab: the list draws as many orders as fit and does not scroll, but the
  selection goes through all of them (`ui.c` 1123, 1753-1760): below the last line
  nothing is highlighted, and Enter pays an order that is not on the screen. CANCELLED
  orders leave the list and PAID ones stay, so that a busy day gets there
  (`SelectedIsHighlighted`).
* Home tab: the call of a table outside the viewport is noticed, its revision
  counts as seen, and nothing shows it until the cursor has come near, but for the
  text of the latest call in the side panel (`ui.c` 1006-1017; `InView` in
  `CallsAreShownUnlessRaced`). On a terminal
  of 80 by 24 four columns and three rows of the default grid fit.
* Staff calls: `staff_revision` is incremented outside the lock; a stalled
  increment sets it back to what the POS screen has seen, and a call stays
  undrawn until the next event (`server.c` 171; `raced` in `PosScreen`).
* Menu: a start that cannot read the file saves an empty menu over it
  (`StartFails`); Enter at the name prompt of key `e` leaves an item without a
  name, which tables and `menu.csv` then read with every field shifted
  (`WithoutEmpty`); the id of a deleted last item is given to the next one.
* Table screen: a blank on CART sets the selection to 0 and the same key then
  normalises it among the menu's items (`ui.c` 3461-3557), so that the cart may
  come up with the selection behind its last line: nothing is highlighted, and
  `+`, `-`, `r` act on an entry of the array that is no line (`KeyOffTheLines`).
  `m` in the order list takes the row's index along as the menu's selection
  (`ui.c` 3678), a menu that arrives leaves the index where it was, and a
  category with nothing for sale leaves it at 0: a blank then adds an item whose
  card is not shown (`AddsACardShown`).
* Layout: move mode can never move a table. The selection follows the cursor, so
  that the target is always the table's own cell or the selection is gone
  (`ui.c` 2071; the footer at `ui.c` 1475 offers it). `EnterMovesNothing` in
  `LayoutEditorProofs` shows it for every plan. Deleting and adding the
  last table raises its id each time without bound, and `max_tables` above 64 is
  taken for damaged at the next start (`ui.c` 2026); an id in the middle may be
  given out again while the table's orders are open. A smaller grid hides tables
  (`OnlyResizingHides`). A terminal that found no `layout.conf` may write the
  default plan over one saved since (`doubt`). A label with ` row=` in it is
  read back as a place (`shifted`). `max_tables` limits no order: the check is in
  `server_create_order`, which nobody calls (README.md line 171).

## 5. Proofs

`OrderServerProofs` proves, for any clients, capacities and first id allowed by
`ConstantsAssumption`, the type invariant and every safety property of the run
`order_server`, and that each step implements `OrderLife` (without its fairness).
The inductive invariant `IInv` has four parts, since none of the properties is
inductive alone:

* `Base`: types, density of ids (entry `i` has id `FirstId + i - 1`, which makes
  the lookups of `orders_find` unique), and what each step of the lock holder
  says of the order it works on;
* `SlotsInv`: a connection is in at most one slot, and only while its session is
  served;
* `SalesInv`: PAID orders and ledger agree, except between the two halves of a
  payment, where the lock tells which order is missing;
* `ToldInv`: what connections were told is current for all slots the holder has
  passed, and one legal move behind for the others.

`OrderSyncProofs` proves `SyncSpec => Spec`: with sockets, queues and screens
added the server takes no step it did not have, so that the theorems hold among
clients as well (`SyncToldCurrent`). On top of that it proves the safety
properties of `order_sync`, for any capacities. `MirrorInv` says of each order
and each running client that lost nothing: the lines in its queue bring the
screen from what it shows to some status `st`, those in its socket and what is
left of its snapshot (`Coming`) go on from `st` to what the connection was told
(`Brings`), and on the way each status follows legally from the one before
(`Steadily`). Lemmas about one line added at the end or taken from the front of
a sequence carry this over every step. That broadcasts go on legally is
`ToldInv`; that a snapshot starts from nothing is `SlotsInv`, and that nothing
else is written to its client before it is complete is `SnapInv`; `OffInv` says
that a client that has ended left nothing behind. The snapshot is an increasing
enumeration of the places it shows, hence complete.

`ConfigStoreProofs` proves types, `ReplaceIsAtomic` and `ToldIsDurable`. Beside
types the invariant says in which phases of the process a saver is at which step
(`Control`), that savers take turns as long as `overlapped` is false, the file of
the save under way being the one named tmp (`TakeTurns`), and that the file keeps up
with the counter up to the save under way, while a start opens it with `O_TRUNC`
only where no client has been told an id (`FileKeepsUp`). `ReplaceIsAtomic` is
a property of steps, proved from `TakeTurns`: a rename finds the text that its own
saver has written.

`PosScreenProofs` proves every safety property of `pos_screen` for any
tables, sessions and number of changes. Of what the POS loop has seen the
invariant says, beside the records' fields (`Types`) and the steps at which
nothing is drawn (`Control`), one thing for each counter: as long as
`orders_revision` is what the loop has seen and nobody holds the lock, every row
drawn so far is current, also halfway through the drawing of the home tab
(`OrdersSeen`); and as long as `staff_revision` is what the loop has seen and
nobody is counting, the call of every table in view is drawn (`CallsSeen`). What is
in view may only change with the cursor, which makes the screen dirty (`GridHeld`).
Rows and Enter need more
(`LInv`): an index of the selection that is current is one of the list
(`SelectionHolds`). A drawn list remembers how many orders there were and which
of them were on it; since then none of these has come onto the list, and one that
has left it was cancelled (`RowsWereDrawn`). The order at an index of the list
of now is therefore the one in that row, or an order of the drawn list was
cancelled, and it stays so until the payment (`EnterHolds`). A list is the
increasing enumeration of the places of its orders (`InOrder`); that two such
enumerations agree as far as their sets do is a lemma, and so the rows that fit the
terminal are the first of the list, whatever `MAX_ROWS` is (`FirstPlaces`).

`MenuSyncProofs` proves types, `RestartKeepsMenu` and `SettledTableShowsTheMenu`
for any tables, edits and capacities. `StoreInv` says that the file is the menu, or
was read to become it, but for the time between an edit and its save; that loading
a saved menu changes nothing but the names a line cannot hold is a lemma about
`menu_load_file` (`LoadKeeps`). `MenuInv` follows the menu to each table: an edit
makes every table `Pending` (the announcement is due, `MENU_SYNC` or `OK|hello` is
under way, or a request is), and only an answer made from the menu as it is ends
that; then the last answer under way, or the catalogue if there is none, is the
menu (`Current`). That a screen runs only after it has asked is `RunInv`. That
`next_menu_id` exceeds all ids needs the greatest of a finite set (`NextId`).

`LayoutEditorProofs` proves every property of `layout_editor` for any grid and
any file. The first two invariants are not inductive without what is in the file
(`FileSetApart`). That a new table gets an id of its own rests on lemmas about
`layout_max_table_id` and `find_index`, the greatest and the least of a finite
set of numbers; both follow from `<` being well-founded. For
`RestartShowsThePlan` the file is followed through saves that fail, ends and
terminals: unless a terminal has written over it, it holds the plan saved or
loaded last, and is missing only where that is the default plan
(`KeptIsInFile`); that `layout_load` gives the plan back is a lemma about lines
(`LoadedIsSame`).

`TableScreenProofs` proves every property of `table_screen` for any menus,
prices, limits and number of cards in a row. The invariant says that no list of
lines has an id twice (`OneLines`), that the sidebar is left with the menu
(`FocusLeft`), and that on the menu the selection is on a card shown, or loose
(`CardSelected`). Quantities and totals are recursive functions over the lines, and
the induction theorems cannot be used; `OneAfterAnother` states induction for
sets, and `Recursion` derives from it that a function with a given descent
exists. With ids that occur once, `QuantityIs` says what `Quantity` is: what
the id's line holds, or 0. From there each key is one of the bag's (`CartIsABag`),
and the cart that the server rebuilds line by line is the request
(`RebuiltIsSent`). `cart_total` adds up over lines and the property over menu
ids in no order that is known; that the order of a finite sum does not matter
is `AnyOrder`, by induction on the number of its terms.

`ShutdownProofs` proves types and `SlotsAreSockets` for any number of clients and
connections. An open always finds a free number: every number in use has an owner
(`Owned`), and the threads that may own one are counted (`MAX_FD >= 2 *
Cardinality(Clients) + 2`). Until main closes sockets every number stands for what
its holder opened (`Honest`). Afterwards the numbers that sessions hold for files
may stand for something else, but two sessions never have one number for their
sockets, and a socket that its session still has in `ctx->clients` is nobody
else's number (`Apart`). `Control` says where each thread has which file open.

On top of that comes `QuietEndIsClean`. A session's number is
never 1, that of the listening socket (`NotFirst`). As long as nothing is late and
no client has left, main's file is therefore the least number that is free, 1, from
its saves to the end, and no session writes to it or closes it. `Calm` adds
that nobody writes to a socket that was shut (`Peers`), that numbers of sessions
stand for their own files (`Names`), that no file holds another's words (`Texts`),
and how far main has come (`Saving`).

What the proofs rest on: the named assumptions on the constants, which TLC
evaluates in the runs, and nothing else. They say that limits are positive
(`MAX_QTY`, `MAX_GRID_ROWS`), that sets of clients, tables and menu ids are finite
where something is counted or summed up over them, that descriptor numbers
suffice (`Shutdown`), and that the default plan and the files at the start
have no two tables with one id or in one cell (`LayoutEditor`); a file with such
tables is read as it is by the code, and nothing is claimed of it.

What failed to be proved first was wrong: the bound on the increments of
`staff_revision` that are under way broke the type invariant of `PosScreen` with five
threads or more, which no run has (`MayCount`); a cart whose limit is 0 would hold
an empty line, hence `MAX_QTY` of at least 1; and `SamePlan` asked a file longer than
the array to come back as a whole. The first is a bound of the model, the second a
value the program does not have, the third a file written by hand.

Only model-checked: the liveness properties (`ChangeIsAnnounced`, `ToldIsShown`,
`HandshakeEnds`, `MenuReachesTables`, `ShutdownEnds`) and the fairness part of
`ImplementsOrderLife`, which are out of the prover's reach. Every invariant and
every action property of a passing run is a theorem.

## 6. Not modelled, and the plan

Not modelled: integer overflow of totals, the text of lines other than a menu's,
bytes of two writers mixed in one socket, the sales tab, the STAFF_CALL line to
other clients. `OrderSync` and `MenuSync` let a line to a client that has left
disappear (in `MenuSync` `Kill` may follow); SIGPIPE itself is in `Shutdown`. Two
savers of one file are in `ConfigStore` only. The payment tab and the terminals
read the table list from the saved layout; nothing is claimed of that. Never to
be modelled: drawing, argument parsing, build files.

The plan, in order:

1. `OrderRules`, `OrderLife`, `OrderServer` and its proofs (done)
2. `OrderSync` and the transfer of the server's theorems (done)
3. `ConfigStore` and its proofs, `CartBag` and `Cart` (done)
4. `PosScreen` with payments and staff calls, and its proofs (done)
5. `MenuSync` with `menu.csv` (done); a replica that lags behind as its abstract
   specification
6. `ProtocolText`: the requests and events as operators, checked against their
   definitions over small inputs; what round-trips
7. `LayoutEditor`: the grid, the move mode, ids, `max_tables` and its reload, and
   its proofs (done)
8. `Shutdown`: the signal handler, `server_shutdown`, detached sessions, SIGPIPE,
   closed descriptors that are used again, and its proofs (done)
9. `TableScreen`: the keys of `ui_run_table` on their three screens (done)
10. proofs: the mirrors of `OrderSync`, the quiet end of `Shutdown` and the safety
   of `MenuSync`, rows and Enter of `PosScreen`, `Cart` and `TableScreen`, the
   restart of `LayoutEditor` (done)
