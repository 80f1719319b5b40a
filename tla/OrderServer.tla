---------------------------- MODULE OrderServer -----------------------------
(***************************************************************************)
(* The order server of server.c during one run of the process: the order   *)
(* table, the id counter, the slots of the clients to broadcast to, the    *)
(* session thread of every connection, and the mutex ctx->lock.            *)
(*                                                                         *)
(* Every request runs under ctx->lock from its checks to the last write of *)
(* its broadcast; the steps a lock holder takes one after the other are    *)
(* separate actions, so that what a connection has been told can be        *)
(* compared with the order table in between.  A request that is refused    *)
(* changes nothing and is no action here.                                  *)
(*                                                                         *)
(* A definition whose name ends in "Fault" is a plausible slip in the      *)
(* definition after it; nothing uses it but the mutations of PROJECT.json. *)
(***************************************************************************)
EXTENDS Integers, Sequences, FiniteSets, OrderRules

CONSTANTS TableClients,     \* programs that connect with HELLO TABLE
          KitchenClients,   \* programs that connect with HELLO KITCHEN
          TableOf,          \* the table number each table client says
          MAX_ORDERS,       \* common.h, also the bound on order ids
          MAX_CLIENTS,      \* common.h, the number of broadcast slots
          FirstId,          \* cfg.next_order_id when the process started
          Pos,              \* the POS screen's thread
          Nobody            \* no client, no lock holder

Peers == TableClients \cup KitchenClients

ASSUME ConstantsAssumption ==
    /\ TableClients \cap KitchenClients = {}
    /\ TableOf \in [TableClients -> Nat \ {0}]
    /\ MAX_ORDERS \in Nat \ {0}
    /\ MAX_CLIENTS \in Nat \ {0}
    /\ FirstId \in Nat \ {0}
    /\ Pos \notin Peers
    /\ Nobody \notin Peers \cup {Pos}

Ids   == FirstId .. (FirstId + MAX_ORDERS - 1)
Slots == 1 .. MAX_CLIENTS

VARIABLES
    orders,         \* ctx->orders[0 .. order_count-1]
    next_order_id,  \* ctx->cfg.next_order_id
    sales,          \* ids of the SALE lines in sales.log, oldest first
    dropped,        \* ids whose SALE line could not be written
    clients,        \* ctx->clients: who is in which broadcast slot
    session,        \* where each connection's thread is
    told,           \* told[c][id]: last status written to c's connection
    lock            \* ctx->lock: its holder and how far the holder is

vars == <<orders, next_order_id, sales, dropped, clients, session, told, lock>>

Order == [order_id : Ids, table_id : Nat, status : Status]

\* A session thread: no connection; waiting for HELLO; said OK|hello; in the
\* loop that reads requests; in a request that changed an order; about to
\* write the reply of that request.
SessionState == {"off", "hello", "greeted", "serving", "busy", "replying"}

Untold == [id \in Ids |-> "none"]
Free   == [step |-> "free", by |-> Nobody, id |-> FirstId, at |-> 1]

Locks == [step : {"free", "sale", "announce"}, by : Peers \cup {Pos, Nobody},
          id : Ids, at : 1 .. (MAX_CLIENTS + 1)]

Holding(step, who, id) == [step |-> step, by |-> who, id |-> id, at |-> 1]
Unlocked == lock.step = "free"

Registered == { c \in Peers : \E s \in Slots : clients[s] = c }

\* orders_find: the first entry with this id.
orders_find(i, id) ==
    /\ i \in DOMAIN orders
    /\ orders[i].order_id = id
    /\ \A j \in 1 .. (i - 1) : orders[j].order_id # id

Created(id) == \E i \in DOMAIN orders : orders[i].order_id = id
OrderOf(id) == orders[CHOOSE i \in DOMAIN orders : orders_find(i, id)]
StatusOf(id) == IF Created(id) THEN OrderOf(id).status ELSE "none"

-----------------------------------------------------------------------------
Init ==
    /\ orders = << >>
    /\ next_order_id = FirstId
    /\ sales = << >>
    /\ dropped = {}
    /\ clients = [s \in Slots |-> Nobody]
    /\ session = [c \in Peers |-> "off"]
    /\ told = [c \in Peers |-> Untold]
    /\ lock = Free

\* server_accept_loop starts a detached thread for the new connection.
server_accept_loop(c) ==
    /\ session[c] = "off"
    /\ session' = [session EXCEPT ![c] = "hello"]
    /\ UNCHANGED <<orders, next_order_id, sales, dropped, clients, told, lock>>

\* The first line: a good HELLO is answered OK|hello before the client is
\* registered; anything else, or end of file, closes the connection.
client_thread_hello(c) ==
    /\ session[c] = "hello"
    /\ \E next \in {"greeted", "off"} :
           session' = [session EXCEPT ![c] = next]
    /\ UNCHANGED <<orders, next_order_id, sales, dropped, clients, told, lock>>

FreeSlot(s) == /\ clients[s] = Nobody
               /\ \A t \in 1 .. (s - 1) : clients[t] # Nobody

\* server_register_client: the first free slot, or silently none.
server_register_client(c) ==
    \/ \E s \in Slots : FreeSlot(s) /\ clients' = [clients EXCEPT ![s] = c]
    \/ (\A s \in Slots : clients[s] # Nobody) /\ UNCHANGED clients

InSnapshotFault(c, o) ==
    /\ ~ Closed(o.status) /\ o.status # "DONE"
    /\ c \in TableClients => o.table_id = TableOf[c]

\* What the snapshot shows c: the open orders, for a table only its own.
InSnapshot(c, o) ==
    /\ ~ Closed(o.status)
    /\ c \in TableClients => o.table_id = TableOf[c]

send_snapshot_locked(c) ==
    told' = [told EXCEPT ![c] = [id \in Ids |->
        IF Created(id) /\ InSnapshot(c, OrderOf(id)) THEN OrderOf(id).status
        ELSE "none"]]

\* Registration and snapshot are one critical section of the thread; the
\* thread serves the connection whether or not it got a slot.
client_thread_register(c) ==
    /\ session[c] = "greeted"
    /\ Unlocked
    /\ server_register_client(c)
    /\ send_snapshot_locked(c)
    /\ session' = [session EXCEPT ![c] = "serving"]
    /\ UNCHANGED <<orders, next_order_id, sales, dropped, lock>>

\* The peer closed: server_unregister_fd frees its slot, the thread ends.
client_thread_leave(c) ==
    /\ session[c] = "serving"
    /\ Unlocked
    /\ clients' = [s \in Slots |-> IF clients[s] = c THEN Nobody ELSE clients[s]]
    /\ session' = [session EXCEPT ![c] = "off"]
    /\ told' = [told EXCEPT ![c] = Untold]
    /\ UNCHANGED <<orders, next_order_id, sales, dropped, lock>>

HasRoomFault == Len(orders) <= MAX_ORDERS

\* push_order_locked refuses when the table is full.
HasRoom == Len(orders) < MAX_ORDERS

CountedUpFault == next_order_id

\* ctx->cfg.next_order_id++
CountedUp == next_order_id + 1

\* handle_order_create_client: push_order_locked, then next_order_id++.  The
\* lines of the order are not modelled: whatever the menu says about them,
\* the request is either refused or does this.
handle_order_create_client(c) ==
    /\ c \in TableClients
    /\ session[c] = "serving"
    /\ Unlocked
    /\ HasRoom
    /\ orders' = Append(orders, [order_id |-> next_order_id,
                                 table_id |-> TableOf[c],
                                 status   |-> "WAITING"])
    /\ next_order_id' = CountedUp
    /\ lock' = Holding("announce", c, next_order_id)
    /\ session' = [session EXCEPT ![c] = "busy"]
    /\ UNCHANGED <<sales, dropped, clients, told>>

\* The status of the found order is set and its broadcast is due.
SetStatus(i, st) == orders' = [orders EXCEPT ![i].status = st]

\* server_update_order_status, for a kitchen.
server_update_order_status(c, id, st) ==
    /\ c \in KitchenClients
    /\ session[c] = "serving"
    /\ Unlocked
    /\ \E i \in DOMAIN orders :
           /\ orders_find(i, id)
           /\ orders[i].status # "PAID"
           /\ valid_kitchen_transition(orders[i].status, st)
           /\ SetStatus(i, st)
    /\ lock' = Holding("announce", c, id)
    /\ session' = [session EXCEPT ![c] = "busy"]
    /\ UNCHANGED <<next_order_id, sales, dropped, clients, told>>

\* server_cancel_order, for a table and only for that table's orders.
server_cancel_order(c, id) ==
    /\ c \in TableClients
    /\ session[c] = "serving"
    /\ Unlocked
    /\ \E i \in DOMAIN orders :
           /\ orders_find(i, id)
           /\ orders[i].table_id = TableOf[c]
           /\ Cancellable(orders[i].status)
           /\ SetStatus(i, "CANCELLED")
    /\ lock' = Holding("announce", c, id)
    /\ session' = [session EXCEPT ![c] = "busy"]
    /\ UNCHANGED <<next_order_id, sales, dropped, clients, told>>

\* The order becomes PAID; `first' is what the lock holder does next.
Pay(id, first) ==
    /\ Unlocked
    /\ \E i \in DOMAIN orders :
           /\ orders_find(i, id)
           /\ Payable(orders[i].status)
           /\ SetStatus(i, "PAID")
    /\ lock' = Holding(first, Pos, id)
    /\ UNCHANGED <<next_order_id, sales, dropped, clients, session, told>>

server_pay_orderFault(id) == Pay(id, "announce")

\* server_pay_order, called by the POS screen: PAID is set first, then the
\* SALE line is written, then the broadcast begins.
server_pay_order(id) == Pay(id, "sale")

\* append_sales_meta: a failed write leaves a line in server.log, no more.
append_sales_meta ==
    /\ lock.step = "sale"
    /\ \/ sales' = Append(sales, lock.id) /\ UNCHANGED dropped
       \/ dropped' = dropped \cup {lock.id} /\ UNCHANGED sales
    /\ lock' = [lock EXCEPT !.step = "announce"]
    /\ UNCHANGED <<orders, next_order_id, clients, session, told>>

EndOfSlotsFault == MAX_CLIENTS

\* Where the loop of broadcast_raw ends: i < MAX_CLIENTS, from 0 in C.
EndOfSlots == MAX_CLIENTS + 1

\* A fault: the loop ends at a free slot instead of going on.
broadcast_rawFault ==
    /\ lock.step = "announce"
    /\ lock.at < EndOfSlots
    /\ told' = [c \in Peers |->
                   IF clients[lock.at] = c
                   THEN [told[c] EXCEPT ![lock.id] = StatusOf(lock.id)]
                   ELSE told[c]]
    /\ lock' = [lock EXCEPT !.at =
                   IF clients[lock.at] = Nobody THEN EndOfSlots ELSE @ + 1]
    /\ UNCHANGED <<orders, next_order_id, sales, dropped, clients, session>>

\* One round of the loop of broadcast_raw: every slot in use gets the line,
\* whichever table it belongs to.
broadcast_raw ==
    /\ lock.step = "announce"
    /\ lock.at < EndOfSlots
    /\ told' = [c \in Peers |->
                   IF clients[lock.at] = c
                   THEN [id \in Ids |->
                            IF id = lock.id THEN StatusOf(id)
                            ELSE told[c][id]]
                   ELSE told[c]]
    /\ lock' = [lock EXCEPT !.at = @ + 1]
    /\ UNCHANGED <<orders, next_order_id, sales, dropped, clients, session>>

\* server_touch_orders, unlock.  A table's thread has a reply to write, a
\* kitchen's has none.
server_unlock ==
    /\ lock.step = "announce"
    /\ lock.at = EndOfSlots
    /\ lock' = Free
    /\ session' = [c \in Peers |->
                      IF c # lock.by THEN session[c]
                      ELSE IF c \in TableClients THEN "replying" ELSE "serving"]
    /\ UNCHANGED <<orders, next_order_id, sales, dropped, clients, told>>

\* OK|cancel or ORDER_CREATED, written without the lock.
write_reply(c) ==
    /\ session[c] = "replying"
    /\ session' = [session EXCEPT ![c] = "serving"]
    /\ UNCHANGED <<orders, next_order_id, sales, dropped, clients, told, lock>>

-----------------------------------------------------------------------------
LockHolder == append_sales_meta \/ broadcast_raw \/ server_unlock

Next ==
    \/ \E c \in Peers :
           \/ server_accept_loop(c)
           \/ client_thread_hello(c)
           \/ client_thread_register(c)
           \/ client_thread_leave(c)
           \/ handle_order_create_client(c)
           \/ \E id \in Ids, st \in Status : server_update_order_status(c, id, st)
           \/ \E id \in Ids : server_cancel_order(c, id)
           \/ write_reply(c)
    \/ \E id \in Ids : server_pay_order(id)
    \/ append_sales_meta
    \/ broadcast_raw
    \/ server_unlock

Spec == Init /\ [][Next]_vars

\* The thread that holds the lock runs on: its file writes return and every
\* peer in a slot reads its socket.  Nothing is assumed of who asks for what,
\* nor of who gets the mutex next.
FairSpec == Spec /\ WF_vars(LockHolder)

-----------------------------------------------------------------------------
(* Properties *)

TypeOK ==
    /\ orders \in Seq(Order)
    /\ next_order_id \in Nat
    /\ sales \in Seq(Ids)
    /\ dropped \subseteq Ids
    /\ clients \in [Slots -> Peers \cup {Nobody}]
    /\ session \in [Peers -> SessionState]
    /\ told \in [Peers -> [Ids -> Status \cup {"none"}]]
    /\ lock \in Locks

\* Ids are unique for the life of the process and the counter is ahead of
\* all of them: orders_find can never return another table's order for an
\* id that was handed out (push_order_locked and next_order_id++ under one
\* lock).
IdsUnique ==
    /\ \A i, j \in DOMAIN orders :
           orders[i].order_id = orders[j].order_id => i = j
    /\ \A i \in DOMAIN orders : orders[i].order_id < next_order_id

\* The ledger so far: an order is PAID exactly when its sale is entered or
\* was lost, once, except between the two halves of server_pay_order.
Entered == { sales[n] : n \in DOMAIN sales }

SalesLedger ==
    /\ \A m, n \in DOMAIN sales : sales[m] = sales[n] => m = n
    /\ Entered \cap dropped = {}
    /\ \A i \in DOMAIN orders :
           orders[i].order_id \in Entered \cup dropped
             <=> /\ orders[i].status = "PAID"
                 /\ ~ (lock.step = "sale" /\ lock.id = orders[i].order_id)

\* No connection is told that an order is paid before the ledger has been
\* dealt with: server_pay_order appends before it broadcasts.
PaidIsToldLast ==
    \A c \in Peers, id \in Ids :
        told[c][id] = "PAID" => id \in Entered \cup dropped

\* A slot has been reached by the announcement of id, if there is one.
Reached(s, id) ==
    Unlocked \/ lock.id # id \/ (lock.step = "announce" /\ s < lock.at)

\* Closed orders, and for a table those of other tables: nobody has to know.
MayBeUnknown(c, o) == \/ o.status \in {"PAID", "CANCELLED"}
                      \/ c \in TableClients /\ o.table_id # TableOf[c]

\* A registered connection has been told the status every order has now;
\* only what a snapshot may hide can be unknown to it.  Two critical sections
\* meet here: a registration with its snapshot, and an update with its
\* broadcast.
ToldIsCurrent ==
    \A s \in Slots, i \in DOMAIN orders :
        LET c == clients[s]
            o == orders[i]
        IN  c \in Peers /\ Reached(s, o.order_id) =>
                \/ told[c][o.order_id] = o.status
                \/ told[c][o.order_id] = "none" /\ MayBeUnknown(c, o)

\* A connection hears of an order's life without a gap and never backwards:
\* each line it gets about an order is one legal move after the line before.
ToldWithoutGaps ==
    [][\A c \in Peers, id \in Ids :
          told'[c][id] # told[c][id] =>
              \/ told[c][id] = "none"
              \/ told'[c][id] = "none" /\ session'[c] = "off"
              \/ LegalMove(told[c][id], told'[c][id])]_vars

\* A change that is being announced reaches every registered connection.
ChangeIsAnnounced ==
    \A c \in Peers, id \in Ids :
        (c \in Registered /\ ~ Unlocked /\ lock.id = id)
            ~> (told[c][id] = StatusOf(id))

\* The server implements the life of orders.
LedgerOf(id) == IF id \in Entered THEN "sold"
                ELSE IF id \in dropped THEN "lost" ELSE "open"

Life == INSTANCE OrderLife WITH life   <- [id \in Ids |-> StatusOf(id)],
                                ledger <- [id \in Ids |-> LedgerOf(id)]

ImplementsOrderLife == Life!Spec
=============================================================================
