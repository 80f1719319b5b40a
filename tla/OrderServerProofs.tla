-------------------------- MODULE OrderServerProofs -------------------------
(***************************************************************************)
(* Proofs about OrderServer for every number of clients, slots and orders. *)
(* The inductive invariant is built in layers, each proved with the help   *)
(* of the layers below: the order table and the lock (Base), the slots and *)
(* the sessions (SlotsInv), the ledger (SalesInv), what has been told      *)
(* (ToldInv).                                                              *)
(***************************************************************************)
EXTENDS OrderServer, SequenceTheorems, TLAPS

\* The order table is filled in the order of the ids, one id per entry.
Dense ==
    /\ Len(orders) <= MAX_ORDERS
    /\ next_order_id = FirstId + Len(orders)
    /\ \A i \in DOMAIN orders : orders[i].order_id = FirstId + i - 1

\* A holder works on an order that exists, and sales are of paid orders.
LockInv ==
    /\ Unlocked => lock = Free
    /\ ~ Unlocked => /\ Created(lock.id)
                     /\ lock.by # Nobody
    /\ lock.step = "sale" =>
           lock.at = 1 /\ \E i \in DOMAIN orders :
               orders[i].order_id = lock.id /\ orders[i].status = "PAID"

Base == TypeOK /\ Dense /\ LockInv

\* In a dense table the first entry with an id is the only one, so the
\* lookups of the model find exactly it.
LookupFacts ==
    /\ \A i \in DOMAIN orders : orders_find(i, orders[i].order_id)
    /\ \A i, j \in DOMAIN orders :
           orders[i].order_id = orders[j].order_id => i = j
    /\ \A i \in DOMAIN orders : /\ Created(orders[i].order_id)
                                /\ OrderOf(orders[i].order_id) = orders[i]
                                /\ StatusOf(orders[i].order_id) = orders[i].status
    /\ \A id \in Ids : ~ Created(id) => StatusOf(id) = "none"

LEMMA LookupInv == TypeOK /\ Dense => LookupFacts
<1> SUFFICES ASSUME TypeOK, Dense PROVE LookupFacts
  OBVIOUS
<1>1. DOMAIN orders = 1 .. Len(orders) /\ Len(orders) \in Nat
  BY DEF TypeOK
<1>2. \A i, j \in DOMAIN orders :
          orders[i].order_id = orders[j].order_id => i = j
  BY <1>1, ConstantsAssumption DEF Dense
<1>3. \A i \in DOMAIN orders : orders_find(i, orders[i].order_id)
  BY <1>1, <1>2 DEF orders_find
<1>4. \A i \in DOMAIN orders : OrderOf(orders[i].order_id) = orders[i]
  <2> TAKE i \in DOMAIN orders
  <2> DEFINE k == CHOOSE j \in DOMAIN orders : orders_find(j, orders[i].order_id)
  <2>1. k \in DOMAIN orders /\ orders_find(k, orders[i].order_id)
    BY <1>3
  <2>2. k = i
    BY <2>1, <1>2 DEF orders_find
  <2> QED
    BY <2>2 DEF OrderOf
<1> QED
  BY <1>2, <1>3, <1>4 DEF LookupFacts, Created, StatusOf

LEMMA Lookup == Base => LookupFacts
  BY LookupInv DEF Base

LEMMA LookupNext == Base' => LookupFacts'
  BY Lookup, PTL

-----------------------------------------------------------------------------
LEMMA EntryTypes ==
    ASSUME Base PROVE \A i \in DOMAIN orders : orders[i] \in Order
  BY DEF Base, TypeOK

\* The round of broadcast_raw that is due is for a slot that exists.
LEMMA BroadcastSlot ==
    ASSUME Base, broadcast_raw
    PROVE  lock.at \in Slots /\ lock.at + 1 \in 1 .. (MAX_CLIENTS + 1)
<1>1. lock.at \in 1 .. (MAX_CLIENTS + 1) /\ lock.at < MAX_CLIENTS + 1
  BY DEF Base, TypeOK, Locks, broadcast_raw, EndOfSlots
<1> QED
  BY <1>1, ConstantsAssumption DEF Slots

LEMMA InitBase == Init => Base
<1> SUFFICES ASSUME Init PROVE Base
  OBVIOUS
<1>1. TypeOK
  BY ConstantsAssumption
     DEF Init, TypeOK, Order, SessionState, Untold, Free, Locks, Ids, Peers
<1>2. Dense
  BY ConstantsAssumption DEF Init, Dense
<1>3. LockInv
  BY DEF Init, LockInv, Free, Unlocked
<1> QED
  BY <1>1, <1>2, <1>3 DEF Base

\* Setting the status of one entry leaves ids and tables as they are.
LEMMA SetStatusFacts ==
    ASSUME Base, NEW i \in DOMAIN orders, NEW st \in Status, SetStatus(i, st)
    PROVE  /\ orders' \in Seq(Order)
           /\ Len(orders') = Len(orders) /\ DOMAIN orders' = DOMAIN orders
           /\ \A j \in DOMAIN orders :
                  /\ orders'[j].order_id = orders[j].order_id
                  /\ orders'[j].table_id = orders[j].table_id
                  /\ j # i => orders'[j] = orders[j]
           /\ orders'[i].status = st
<1>1. orders \in Seq(Order) /\ orders[i] \in Order
  BY DEF Base, TypeOK
<1>2. [orders[i] EXCEPT !.status = st] \in Order
  BY <1>1 DEF Order
<1> QED
  BY <1>1, <1>2 DEF SetStatus, Order

\* The order table and the lock hold their shape in every step.
LEMMA NextBase == Base /\ [Next]_vars => Base'
<1> SUFFICES ASSUME Base, [Next]_vars PROVE Base'
  OBVIOUS
<1> USE ConstantsAssumption
<1>0. /\ orders \in Seq(Order) /\ Len(orders) \in Nat
      /\ DOMAIN orders = 1 .. Len(orders)
  BY DEF Base, TypeOK
<1>1. ASSUME NEW c \in Peers, server_accept_loop(c) PROVE Base'
  BY <1>1 DEF Base, TypeOK, Dense, LockInv, server_accept_loop, SessionState, Unlocked, Created
<1>2. ASSUME NEW c \in Peers, client_thread_hello(c) PROVE Base'
  BY <1>2 DEF Base, TypeOK, Dense, LockInv, client_thread_hello, SessionState, Unlocked, Created
<1>3. ASSUME NEW c \in Peers, client_thread_register(c) PROVE Base'
  <2>1. clients' \in [Slots -> Peers \cup {Nobody}]
    BY <1>3 DEF client_thread_register, server_register_client, Base, TypeOK
  <2>2. \A id \in Ids : Created(id) => OrderOf(id).status \in Status
    <3> SUFFICES ASSUME NEW id \in Ids, Created(id)
                 PROVE  OrderOf(id).status \in Status
      OBVIOUS
    <3>1. PICK i \in DOMAIN orders : orders[i].order_id = id
      BY DEF Created
    <3>2. OrderOf(id) = orders[i]
      BY <3>1, Lookup DEF LookupFacts
    <3>3. orders[i] \in Order
      BY <1>0
    <3> QED
      BY <3>2, <3>3 DEF Order
  <2>3. told' \in [Peers -> [Ids -> Status \cup {"none"}]]
    BY <1>3, <2>2 DEF client_thread_register, send_snapshot_locked, Base, TypeOK
  <2> QED
    BY <1>3, <2>1, <2>3
       DEF Base, TypeOK, Dense, LockInv, client_thread_register, SessionState, Unlocked, Created
<1>4. ASSUME NEW c \in Peers, client_thread_leave(c) PROVE Base'
  BY <1>4 DEF Base, TypeOK, Dense, LockInv, client_thread_leave, SessionState, Unlocked, Created, Untold
<1>5. ASSUME NEW c \in Peers, handle_order_create_client(c) PROVE Base'
  <2> DEFINE o == [order_id |-> next_order_id, table_id |-> TableOf[c],
                   status |-> "WAITING"]
  <2>0. orders' = Append(orders, o)
    BY <1>5 DEF handle_order_create_client
  <2>1. next_order_id \in Ids
    BY <1>5, <1>0 DEF handle_order_create_client, HasRoom, CountedUp, Base, Dense, Ids
  <2>2. o \in Order
    BY <1>5, <2>1 DEF Order, Status, handle_order_create_client, HasRoom, CountedUp
  <2>3. /\ orders' \in Seq(Order) /\ Len(orders') = Len(orders) + 1
        /\ DOMAIN orders' = 1 .. (Len(orders) + 1)
        /\ \A j \in DOMAIN orders : orders'[j] = orders[j]
        /\ orders'[Len(orders) + 1] = o
    BY <2>0, <2>2, <1>0, AppendProperties
  <2>4. lock' = Holding("announce", c, next_order_id)
    BY <1>5 DEF handle_order_create_client
  <2>5. lock' \in Locks
    BY <2>1, <2>4 DEF Holding, Locks
  <2>6. TypeOK'
    BY <1>5, <2>3, <2>5, <1>0
       DEF handle_order_create_client, HasRoom, CountedUp, Base, TypeOK, SessionState, Dense
  <2>7. Dense'
    <3>1. /\ next_order_id' = FirstId + Len(orders')
          /\ Len(orders') <= MAX_ORDERS
      BY <1>5, <2>3, <1>0 DEF handle_order_create_client, HasRoom, CountedUp, Base, Dense
    <3>2. ASSUME NEW j \in DOMAIN orders'
          PROVE  orders'[j].order_id = FirstId + j - 1
      <4>1. CASE j \in DOMAIN orders
        BY <4>1, <2>3 DEF Base, Dense
      <4>2. CASE j = Len(orders) + 1
        BY <4>2, <2>3, <1>0 DEF Base, Dense
      <4> QED
        BY <4>1, <4>2, <2>3, <1>0
    <3> QED
      BY <3>1, <3>2 DEF Dense
  <2>8. LockInv'
    <3>1. \E j \in DOMAIN orders' : orders'[j].order_id = next_order_id
      BY <2>3, <1>0
    <3>2. lock'.id = next_order_id /\ lock'.step = "announce" /\ lock'.by = c
      BY <2>4 DEF Holding
    <3>3. Created(lock.id)'
      BY <3>1, <3>2 DEF Created
    <3> QED
      BY <3>2, <3>3 DEF LockInv, Unlocked, Peers
  <2> QED
    BY <2>6, <2>7, <2>8 DEF Base
<1>6. ASSUME NEW id \in Ids,
             \/ \E c \in Peers, st \in Status :
                    server_update_order_status(c, id, st)
             \/ \E c \in Peers : server_cancel_order(c, id)
             \/ server_pay_order(id)
      PROVE  Base'
  <2>1. PICK i \in DOMAIN orders, nw \in Status :
            orders_find(i, id) /\ SetStatus(i, nw)
            /\ (server_pay_order(id) => nw = "PAID")
    BY <1>6 DEF server_update_order_status, server_cancel_order, server_pay_order, Pay, Status, SetStatus
  <2>2. /\ orders' \in Seq(Order)
        /\ Len(orders') = Len(orders) /\ DOMAIN orders' = DOMAIN orders
        /\ \A j \in DOMAIN orders : orders'[j].order_id = orders[j].order_id
        /\ orders'[i].status = nw
    BY <2>1, SetStatusFacts
  <2>3. \/ \E c \in Peers : lock' = Holding("announce", c, id)
        \/ lock' = Holding("sale", Pos, id) /\ nw = "PAID"
    BY <1>6, <2>1 DEF server_update_order_status, server_cancel_order, server_pay_order, Pay
  <2>4. lock' \in Locks
    BY <2>3 DEF Holding, Locks
  <2>5. session' \in [Peers -> SessionState]
    BY <1>6 DEF server_update_order_status, server_cancel_order, server_pay_order, Pay, Base, TypeOK, SessionState
  <2>6. UNCHANGED <<next_order_id, sales, dropped, clients, told>>
    BY <1>6 DEF server_update_order_status, server_cancel_order, server_pay_order, Pay
  <2>7. orders[i].order_id = id
    BY <2>1 DEF orders_find
  <2>8. LockInv'
    BY <2>2, <2>3, <2>7 DEF LockInv, Holding, Unlocked, Created, Peers
  <2> QED
    BY <2>2, <2>4, <2>5, <2>6, <2>8 DEF Base, TypeOK, Dense
<1>7. ASSUME append_sales_meta PROVE Base'
  <2>1. lock.id \in Ids /\ lock' \in Locks
    BY <1>7 DEF append_sales_meta, Base, TypeOK, Locks
  <2>2. sales' \in Seq(Ids) /\ dropped' \subseteq Ids
    <3>1. sales \in Seq(Ids) /\ Append(sales, lock.id) \in Seq(Ids)
      BY <2>1, AppendProperties DEF Base, TypeOK
    <3> QED
      BY <1>7, <2>1, <3>1 DEF append_sales_meta, Base, TypeOK
  <2> QED
    BY <1>7, <2>1, <2>2
       DEF append_sales_meta, Base, TypeOK, Dense, LockInv, Locks, Unlocked, Created
<1>8. ASSUME broadcast_raw PROVE Base'
  <2>0. lock \in Locks /\ lock.at + 1 \in 1 .. (MAX_CLIENTS + 1)
    BY <1>8, BroadcastSlot DEF Base, TypeOK
  <2>1. lock' \in Locks
    BY <1>8, <2>0 DEF broadcast_raw, Locks
  <2>2. \A id \in Ids : StatusOf(id) \in Status \cup {"none"}
    <3> SUFFICES ASSUME NEW id \in Ids, Created(id)
                 PROVE  StatusOf(id) \in Status
      BY DEF StatusOf
    <3>1. PICK i \in DOMAIN orders : orders[i].order_id = id
      BY DEF Created
    <3>2. StatusOf(id) = orders[i].status
      BY <3>1, Lookup DEF LookupFacts
    <3>3. orders[i] \in Order
      BY <1>0
    <3> QED
      BY <3>2, <3>3 DEF Order
  <2>3. told' \in [Peers -> [Ids -> Status \cup {"none"}]]
    BY <1>8, <2>2 DEF broadcast_raw, Base, TypeOK
  <2> QED
    BY <1>8, <2>1, <2>3
       DEF broadcast_raw, Base, TypeOK, Dense, LockInv, Locks, Unlocked, Created
<1>9. ASSUME server_unlock PROVE Base'
  <2>1. lock' \in Locks
    BY <1>9 DEF server_unlock, EndOfSlots, Free, Locks, Ids
  <2>2. session' \in [Peers -> SessionState]
    BY <1>9 DEF server_unlock, EndOfSlots, Base, TypeOK, SessionState
  <2> QED
    BY <1>9, <2>1, <2>2
       DEF server_unlock, EndOfSlots, Base, TypeOK, Dense, LockInv, Free, Unlocked, Created
<1>10. ASSUME NEW c \in Peers, write_reply(c) PROVE Base'
  BY <1>10 DEF Base, TypeOK, Dense, LockInv, write_reply, SessionState, Unlocked, Created
<1>11. ASSUME UNCHANGED vars PROVE Base'
  BY <1>11 DEF vars, Base, TypeOK, Dense, LockInv, Unlocked, Created
<1> QED
  BY <1>1, <1>2, <1>3, <1>4, <1>5, <1>6, <1>7, <1>8, <1>9, <1>10, <1>11 DEF Next

\* Base is an invariant; the theorems below use it as a known fact.
LEMMA BaseInvariant == Spec => []Base
  BY InitBase, NextBase, PTL DEF Spec

\* The constants and variables keep their types, and the lock its meaning.
THEOREM TypeCorrect == Spec => []TypeOK
  BY BaseInvariant, PTL DEF Base

\* No two orders of one run of the server share an id, and the next id is
\* new: creation pushes the order and increments the counter under one lock.
THEOREM UniqueIds == Spec => []IdsUnique
<1>1. Base => IdsUnique
  <2> SUFFICES ASSUME Base PROVE IdsUnique
    OBVIOUS
  <2>1. DOMAIN orders = 1 .. Len(orders) /\ Len(orders) \in Nat
    BY DEF Base, TypeOK
  <2> QED
    BY <2>1, Lookup, ConstantsAssumption DEF LookupFacts, Base, Dense, IdsUnique
<1> QED
  BY <1>1, BaseInvariant, PTL

-----------------------------------------------------------------------------
\* A client is in at most one slot, only while its thread serves it, and a
\* connection that is not served has been told nothing.
SlotsInv ==
    /\ \A s, t \in Slots : clients[s] = clients[t] /\ clients[s] # Nobody => s = t
    /\ \A s \in Slots : clients[s] \in Peers =>
           session[clients[s]] \in {"serving", "busy", "replying"}
    /\ \A c \in Peers : session[c] \in {"off", "hello", "greeted"} =>
           told[c] = Untold

LEMMA InitSlots == Init => SlotsInv
  BY ConstantsAssumption DEF Init, SlotsInv, Peers

\* What the requests of a session that change an order have in common.
RequestStep(c) ==
    /\ session[c] = "serving"
    /\ session' = [session EXCEPT ![c] = "busy"]
    /\ UNCHANGED <<clients, told>>

LEMMA NextSlots == Base /\ SlotsInv /\ [Next]_vars => SlotsInv'
<1> SUFFICES ASSUME Base, SlotsInv, [Next]_vars PROVE SlotsInv'
  OBVIOUS
<1> USE ConstantsAssumption
<1>0. /\ session \in [Peers -> SessionState]
      /\ clients \in [Slots -> Peers \cup {Nobody}]
      /\ told \in [Peers -> [Ids -> Status \cup {"none"}]]
  BY DEF Base, TypeOK
<1>1. ASSUME NEW c \in Peers, server_accept_loop(c) PROVE SlotsInv'
  BY <1>1, <1>0 DEF SlotsInv, server_accept_loop
<1>2. ASSUME NEW c \in Peers, client_thread_hello(c) PROVE SlotsInv'
  BY <1>2, <1>0 DEF SlotsInv, client_thread_hello
<1>3. ASSUME NEW c \in Peers, client_thread_register(c) PROVE SlotsInv'
  <2>1. \A s \in Slots : clients[s] # c
    BY <1>3 DEF SlotsInv, client_thread_register
  <2>2. \A d \in Peers : d # c => session'[d] = session[d] /\ told'[d] = told[d]
    BY <1>3, <1>0 DEF client_thread_register, send_snapshot_locked
  <2>3. session'[c] = "serving"
    BY <1>3, <1>0 DEF client_thread_register
  <2>4. CASE UNCHANGED clients
    BY <2>1, <2>2, <2>3, <2>4, <1>0 DEF SlotsInv
  <2>5. ASSUME NEW s \in Slots, FreeSlot(s), clients' = [clients EXCEPT ![s] = c]
        PROVE  SlotsInv'
    BY <2>1, <2>2, <2>3, <2>5, <1>0 DEF SlotsInv
  <2> QED
    BY <2>4, <2>5, <1>3 DEF client_thread_register, server_register_client
<1>4. ASSUME NEW c \in Peers, client_thread_leave(c) PROVE SlotsInv'
  <2>1. \A s \in Slots : clients'[s] = IF clients[s] = c THEN Nobody ELSE clients[s]
    BY <1>4 DEF client_thread_leave
  <2>2. /\ \A d \in Peers : d # c => session'[d] = session[d] /\ told'[d] = told[d]
        /\ told'[c] = Untold /\ session'[c] = "off"
    BY <1>4, <1>0 DEF client_thread_leave
  <2> QED
    BY <2>1, <2>2, <1>0 DEF SlotsInv
<1>5. ASSUME NEW c \in Peers, RequestStep(c) PROVE SlotsInv'
  BY <1>5, <1>0 DEF SlotsInv, RequestStep
<1>6. ASSUME NEW c \in Peers, handle_order_create_client(c) PROVE SlotsInv'
  BY <1>5, <1>6 DEF handle_order_create_client, HasRoom, CountedUp, RequestStep
<1>7. ASSUME NEW c \in Peers, NEW id \in Ids, NEW st \in Status,
             server_update_order_status(c, id, st)
      PROVE  SlotsInv'
  BY <1>5, <1>7 DEF server_update_order_status, RequestStep
<1>8. ASSUME NEW c \in Peers, NEW id \in Ids, server_cancel_order(c, id)
      PROVE  SlotsInv'
  BY <1>5, <1>8 DEF server_cancel_order, RequestStep
<1>9. ASSUME UNCHANGED <<clients, session, told>> PROVE SlotsInv'
  BY <1>9 DEF SlotsInv
<1>10. ASSUME NEW id \in Ids, server_pay_order(id) PROVE SlotsInv'
  BY <1>9, <1>10 DEF server_pay_order, Pay
<1>11. ASSUME append_sales_meta PROVE SlotsInv'
  BY <1>9, <1>11 DEF append_sales_meta
<1>12. ASSUME broadcast_raw PROVE SlotsInv'
  <2>1. \A c \in Peers : clients[lock.at] # c => told'[c] = told[c]
    BY <1>12 DEF broadcast_raw
  <2> QED
    BY <2>1, <1>12, <1>0, BroadcastSlot DEF SlotsInv, broadcast_raw
<1>13. ASSUME server_unlock PROVE SlotsInv'
  BY <1>13, <1>0 DEF SlotsInv, server_unlock, EndOfSlots
<1>14. ASSUME NEW c \in Peers, write_reply(c) PROVE SlotsInv'
  BY <1>14, <1>0 DEF SlotsInv, write_reply
<1>15. ASSUME UNCHANGED vars PROVE SlotsInv'
  BY <1>9, <1>15 DEF vars
<1> QED
  BY <1>1, <1>2, <1>3, <1>4, <1>6, <1>7, <1>8, <1>10, <1>11, <1>12,
     <1>13, <1>14, <1>15 DEF Next

-----------------------------------------------------------------------------
\* What server_update_order_status, server_cancel_order and server_pay_order
\* have in common: one legal move of one order, to be announced.
ChangeStep(i, id, nw) ==
    /\ Unlocked
    /\ orders[i].order_id = id
    /\ LegalMove(orders[i].status, nw)
    /\ DOMAIN orders' = DOMAIN orders
    /\ \A j \in DOMAIN orders :
           /\ orders'[j].order_id = orders[j].order_id
           /\ orders'[j].table_id = orders[j].table_id
           /\ j # i => orders'[j] = orders[j]
    /\ orders'[i].status = nw
    /\ lock'.step = IF nw = "PAID" THEN "sale" ELSE "announce"
    /\ lock'.id = id
    /\ lock'.at = 1
    /\ UNCHANGED <<next_order_id, sales, dropped, clients, told>>

LEMMA ChangeSteps ==
    ASSUME Base, NEW id \in Ids,
           \/ \E c \in Peers, st \in Status : server_update_order_status(c, id, st)
           \/ \E c \in Peers : server_cancel_order(c, id)
           \/ server_pay_order(id)
    PROVE  \E i \in DOMAIN orders, nw \in Status : ChangeStep(i, id, nw)
<1>1. ASSUME NEW c \in Peers, NEW st \in Status, server_update_order_status(c, id, st)
      PROVE  \E i \in DOMAIN orders, nw \in Status : ChangeStep(i, id, nw)
  <2>1. PICK i \in DOMAIN orders : /\ orders_find(i, id)
                                   /\ valid_kitchen_transition(orders[i].status, st)
                                   /\ SetStatus(i, st)
    BY <1>1 DEF server_update_order_status
  <2>2. st # "PAID"
    BY <2>1 DEF valid_kitchen_transition, KitchenMoves
  <2>3. ChangeStep(i, id, st)
    BY <1>1, <2>1, <2>2, SetStatusFacts
       DEF ChangeStep, server_update_order_status, orders_find, LegalMove, Holding
  <2> QED
    BY <2>3
<1>2. ASSUME NEW c \in Peers, server_cancel_order(c, id)
      PROVE  \E i \in DOMAIN orders, nw \in Status : ChangeStep(i, id, nw)
  <2>0. "CANCELLED" \in Status
    BY DEF Status
  <2>1. PICK i \in DOMAIN orders : /\ orders_find(i, id)
                                   /\ Cancellable(orders[i].status)
                                   /\ SetStatus(i, "CANCELLED")
    BY <1>2 DEF server_cancel_order
  <2>2. ChangeStep(i, id, "CANCELLED")
    BY <1>2, <2>0, <2>1, SetStatusFacts
       DEF ChangeStep, server_cancel_order, orders_find, LegalMove, Holding
  <2> QED
    BY <2>0, <2>2
<1>3. ASSUME server_pay_order(id)
      PROVE  \E i \in DOMAIN orders, nw \in Status : ChangeStep(i, id, nw)
  <2>0. "PAID" \in Status
    BY DEF Status
  <2>1. PICK i \in DOMAIN orders : /\ orders_find(i, id)
                                   /\ Payable(orders[i].status)
                                   /\ SetStatus(i, "PAID")
    BY <1>3 DEF server_pay_order, Pay
  <2>2. ChangeStep(i, id, "PAID")
    BY <1>3, <2>0, <2>1, SetStatusFacts
       DEF ChangeStep, server_pay_order, Pay, orders_find, LegalMove, Holding
  <2> QED
    BY <2>0, <2>2
<1> QED
  BY <1>1, <1>2, <1>3

\* What handle_order_create_client does to the order table.
LEMMA CreateFacts ==
    ASSUME Base, NEW c \in Peers, handle_order_create_client(c)
    PROVE  /\ next_order_id \in Ids
           /\ ~ Created(next_order_id)
           /\ \A id \in Ids : Created(id)' <=> Created(id) \/ id = next_order_id
           /\ DOMAIN orders' = DOMAIN orders \cup {Len(orders) + 1}
           /\ \A j \in DOMAIN orders : orders'[j] = orders[j]
           /\ orders'[Len(orders) + 1].order_id = next_order_id
           /\ orders'[Len(orders) + 1].table_id = TableOf[c]
           /\ orders'[Len(orders) + 1].status = "WAITING"
<1> USE ConstantsAssumption
<1> DEFINE o == [order_id |-> next_order_id, table_id |-> TableOf[c],
                 status |-> "WAITING"]
<1>0. orders \in Seq(Order) /\ Len(orders) \in Nat /\ DOMAIN orders = 1 .. Len(orders)
  BY DEF Base, TypeOK
<1>1. next_order_id \in Ids /\ next_order_id = FirstId + Len(orders)
  BY <1>0 DEF handle_order_create_client, HasRoom, CountedUp, Base, Dense, Ids
<1>2. orders' = Append(orders, o) /\ o \in Order
  BY <1>1 DEF Order, Status, handle_order_create_client, HasRoom, CountedUp
<1>3. /\ DOMAIN orders' = DOMAIN orders \cup {Len(orders) + 1}
      /\ \A j \in DOMAIN orders : orders'[j] = orders[j]
      /\ orders'[Len(orders) + 1] = o
  BY <1>0, <1>2, AppendProperties
<1>4. ~ Created(next_order_id)
  BY <1>0, <1>1 DEF Created, Base, Dense
<1>5. \A id \in Ids : Created(id)' <=> Created(id) \/ id = next_order_id
  BY <1>3 DEF Created
<1>6. /\ orders'[Len(orders) + 1].order_id = next_order_id
      /\ orders'[Len(orders) + 1].table_id = TableOf[c]
      /\ orders'[Len(orders) + 1].status = "WAITING"
  BY <1>3
<1> QED
  BY <1>1, <1>3, <1>4, <1>5, <1>6

-----------------------------------------------------------------------------
\* The ledger, what was told of it, and that it only knows orders that exist.
SalesInv ==
    /\ SalesLedger
    /\ PaidIsToldLast
    /\ \A id \in Entered \cup dropped : Created(id)

LEMMA InitSales == Init => SalesInv
  BY DEF Init, SalesInv, SalesLedger, PaidIsToldLast, Entered, Untold, Created, Unlocked

LEMMA NextSales == Base /\ SalesInv /\ [Next]_vars => SalesInv'
<1> SUFFICES ASSUME Base, SalesInv, [Next]_vars PROVE SalesInv'
  OBVIOUS
<1> USE ConstantsAssumption
<1>0. /\ orders \in Seq(Order) /\ Len(orders) \in Nat /\ DOMAIN orders = 1 .. Len(orders)
      /\ told \in [Peers -> [Ids -> Status \cup {"none"}]]
      /\ lock.id \in Ids /\ lock.step \in {"free", "sale", "announce"}
      /\ sales \in Seq(Ids) /\ dropped \subseteq Ids
  BY DEF Base, TypeOK, Locks
<1>1. ASSUME UNCHANGED <<orders, sales, dropped, told, lock>> PROVE SalesInv'
  BY <1>1 DEF SalesInv, SalesLedger, PaidIsToldLast, Entered, Created
<1>2. ASSUME NEW c \in Peers, client_thread_register(c) PROVE SalesInv'
  <2>1. \A id \in Ids : told'[c][id] # "PAID"
    BY <1>2, <1>0 DEF client_thread_register, send_snapshot_locked, InSnapshot, Closed
  <2>2. \A d \in Peers : d # c => told'[d] = told[d]
    BY <1>2, <1>0 DEF client_thread_register, send_snapshot_locked
  <2> QED
    BY <1>2, <2>1, <2>2
       DEF client_thread_register, SalesInv, SalesLedger, PaidIsToldLast, Entered, Created
<1>3. ASSUME NEW c \in Peers, client_thread_leave(c) PROVE SalesInv'
  BY <1>3, <1>0
     DEF client_thread_leave, Untold, SalesInv, SalesLedger, PaidIsToldLast, Entered, Created
<1>4. ASSUME NEW c \in Peers, handle_order_create_client(c) PROVE SalesInv'
  <2>1. UNCHANGED <<sales, dropped, told>> /\ lock'.step = "announce" /\ Unlocked
    BY <1>4 DEF handle_order_create_client, HasRoom, CountedUp, Holding
  <2>2. next_order_id \notin Entered \cup dropped
    BY <1>4, CreateFacts DEF SalesInv
  <2>3. SalesLedger'
    <3>1. ASSUME NEW j \in DOMAIN orders'
          PROVE  orders'[j].order_id \in Entered \cup dropped
                    <=> orders'[j].status = "PAID"
      <4>1. CASE j \in DOMAIN orders
        BY <4>1, <2>1, <1>4, CreateFacts DEF SalesInv, SalesLedger, Unlocked
      <4>2. CASE j = Len(orders) + 1
        <5>1. /\ orders'[j].order_id = next_order_id
              /\ orders'[j].status = "WAITING"
          BY <4>2, <1>4, CreateFacts
        <5> QED
          BY <5>1, <2>2
      <4> QED
        BY <4>1, <4>2, <1>4, CreateFacts
    <3> QED
      BY <3>1, <2>1 DEF SalesInv, SalesLedger, Entered
  <2>4. \A id \in (Entered \cup dropped)' : Created(id)'
    <3>1. (Entered \cup dropped)' = Entered \cup dropped
      BY <2>1 DEF Entered
    <3>2. \A j \in DOMAIN orders : j \in DOMAIN orders' /\ orders'[j] = orders[j]
      BY <1>4, CreateFacts
    <3> QED
      BY <3>1, <3>2 DEF SalesInv, Created
  <2> QED
    BY <2>1, <2>3, <2>4 DEF SalesInv, PaidIsToldLast, Entered
<1>5. ASSUME NEW i \in DOMAIN orders, NEW id \in Ids, NEW nw \in Status,
             ChangeStep(i, id, nw)
      PROVE  SalesInv'
  <2>1. orders[i].order_id \notin Entered \cup dropped
    BY <1>5 DEF ChangeStep, SalesInv, SalesLedger, LegalMove, valid_kitchen_transition,
                KitchenMoves, Cancellable, Payable
  <2>2. \A j \in DOMAIN orders :
            orders'[j].order_id \in Entered \cup dropped
              <=> /\ orders'[j].status = "PAID"
                  /\ ~ (lock'.step = "sale" /\ lock'.id = orders'[j].order_id)
    <3> TAKE j \in DOMAIN orders
    <3>1. CASE j = i
      BY <3>1, <2>1, <1>5 DEF ChangeStep
    <3>2. CASE j # i
      <4>1. orders[j].order_id # id
        BY <3>2, <1>5, Lookup DEF LookupFacts, ChangeStep
      <4> QED
        BY <4>1, <3>2, <1>5 DEF ChangeStep, SalesInv, SalesLedger, Unlocked
    <3> QED
      BY <3>1, <3>2
  <2> QED
    BY <1>5, <2>2
       DEF ChangeStep, SalesInv, SalesLedger, PaidIsToldLast, Entered, Created
<1>6. ASSUME append_sales_meta PROVE SalesInv'
  <2>1. PICK i \in DOMAIN orders : orders[i].order_id = lock.id /\ orders[i].status = "PAID"
    BY <1>6 DEF append_sales_meta, Base, LockInv
  <2>2. lock.id \notin Entered \cup dropped
    BY <1>6, <2>1 DEF append_sales_meta, SalesInv, SalesLedger
  <2>3. UNCHANGED <<orders, told>> /\ lock'.step = "announce"
    BY <1>6 DEF append_sales_meta, Base, TypeOK, Locks
  <2>4. /\ (Entered \cup dropped)' = Entered \cup dropped \cup {lock.id}
        /\ \A m, n \in DOMAIN sales' : sales'[m] = sales'[n] => m = n
        /\ (Entered \cap dropped)' = {}
    <3>1. CASE sales' = Append(sales, lock.id) /\ UNCHANGED dropped
      <4>1. /\ DOMAIN sales' = DOMAIN sales \cup {Len(sales) + 1}
            /\ \A n \in DOMAIN sales : sales'[n] = sales[n] /\ n # Len(sales) + 1
            /\ sales'[Len(sales) + 1] = lock.id
        BY <3>1, <1>0, AppendProperties
      <4> QED
        BY <4>1, <3>1, <2>2 DEF SalesInv, SalesLedger, Entered
    <3>2. CASE dropped' = dropped \cup {lock.id} /\ UNCHANGED sales
      BY <3>2, <2>2 DEF SalesInv, SalesLedger, Entered
    <3> QED
      BY <3>1, <3>2, <1>6 DEF append_sales_meta
  <2>5. \A j \in DOMAIN orders :
            orders[j].order_id = lock.id => orders[j].status = "PAID"
    BY <2>1, Lookup DEF LookupFacts
  <2>6. SalesLedger'
    BY <2>3, <2>4, <2>5, <1>6 DEF append_sales_meta, SalesInv, SalesLedger
  <2>7. PaidIsToldLast'
    BY <2>3, <2>4 DEF SalesInv, PaidIsToldLast
  <2> QED
    BY <2>1, <2>3, <2>4, <2>6, <2>7 DEF SalesInv, Created
<1>7. ASSUME broadcast_raw PROVE SalesInv'
  <2>1. UNCHANGED <<orders, sales, dropped>> /\ lock'.step = "announce" /\ lock.step = "announce"
    BY <1>7 DEF broadcast_raw, Base, TypeOK, Locks
  <2>2. PICK i \in DOMAIN orders : orders[i].order_id = lock.id
    BY <2>1 DEF Base, LockInv, Unlocked, Created
  <2>3. StatusOf(lock.id) = "PAID" => lock.id \in Entered \cup dropped
    BY <2>1, <2>2, Lookup DEF LookupFacts, SalesInv, SalesLedger
  <2>4. PaidIsToldLast'
    BY <1>7, <2>1, <2>3, <1>0 DEF broadcast_raw, SalesInv, PaidIsToldLast, Entered
  <2>5. SalesLedger'
    BY <2>1 DEF SalesInv, SalesLedger, Entered
  <2> QED
    BY <2>1, <2>4, <2>5 DEF SalesInv, Entered, Created
<1>8. ASSUME server_unlock PROVE SalesInv'
  <2>1. UNCHANGED <<orders, sales, dropped, told>> /\ lock'.step = "free" /\ lock.step = "announce"
    BY <1>8 DEF server_unlock, EndOfSlots, Free
  <2> QED
    BY <2>1 DEF SalesInv, SalesLedger, PaidIsToldLast, Entered, Created
<1>9. ASSUME NEW id \in Ids,
             \/ \E c \in Peers, st \in Status : server_update_order_status(c, id, st)
             \/ \E c \in Peers : server_cancel_order(c, id)
             \/ server_pay_order(id)
      PROVE  SalesInv'
  BY <1>5, <1>9, ChangeSteps
<1>10. ASSUME NEW c \in Peers,
              server_accept_loop(c) \/ client_thread_hello(c) \/ write_reply(c)
       PROVE  SalesInv'
  BY <1>1, <1>10 DEF server_accept_loop, client_thread_hello, write_reply
<1>11. ASSUME UNCHANGED vars PROVE SalesInv'
  BY <1>1, <1>11 DEF vars
<1> QED
  BY <1>2, <1>3, <1>4, <1>6, <1>7, <1>8, <1>9, <1>10, <1>11 DEF Next

\* An order is PAID exactly when its sale was entered, or lost, once, but
\* for the moment in server_pay_order between the two.
THEOREM LedgerMatches == Spec => []SalesLedger
<1>1. Spec => []SalesInv
  BY InitSales, NextSales, BaseInvariant, PTL DEF Spec
<1> QED
  BY <1>1, PTL DEF SalesInv

\* Nobody is told PAID before the ledger has been dealt with.
THEOREM PaidToldLast == Spec => []PaidIsToldLast
<1>1. Spec => []SalesInv
  BY InitSales, NextSales, BaseInvariant, PTL DEF Spec
<1> QED
  BY <1>1, PTL DEF SalesInv

-----------------------------------------------------------------------------
\* A slot that the announcement has not reached yet is one legal move behind,
\* or has not heard of the order; nobody is told of an order that is not there.
Pending ==
    \A s \in Slots : clients[s] \in Peers /\ ~ Reached(s, lock.id) =>
        LET was == told[clients[s]][lock.id]
        IN  was = "none" \/ LegalMove(was, StatusOf(lock.id))

ToldInv ==
    /\ ToldIsCurrent
    /\ Pending
    /\ \A c \in Peers, id \in Ids : told[c][id] # "none" => Created(id)

LEMMA InitTold == Init => ToldInv
  BY ConstantsAssumption
     DEF Init, ToldInv, ToldIsCurrent, Pending, Untold, Peers

\* What client_thread_register tells the new connection.
LEMMA SnapshotFacts ==
    ASSUME Base, NEW c \in Peers, client_thread_register(c)
    PROVE  /\ \A i \in DOMAIN orders :
                  told'[c][orders[i].order_id] =
                      IF InSnapshot(c, orders[i]) THEN orders[i].status ELSE "none"
           /\ \A id \in Ids : told'[c][id] # "none" => Created(id)
           /\ \A d \in Peers : d # c => told'[d] = told[d]
<1>0. told \in [Peers -> [Ids -> Status \cup {"none"}]]
  BY DEF Base, TypeOK
<1>1. told' = [told EXCEPT ![c] = [id \in Ids |->
          IF Created(id) /\ InSnapshot(c, OrderOf(id)) THEN OrderOf(id).status
          ELSE "none"]]
  BY DEF client_thread_register, send_snapshot_locked
<1>2. ASSUME NEW i \in DOMAIN orders
      PROVE  told'[c][orders[i].order_id] =
                 IF InSnapshot(c, orders[i]) THEN orders[i].status ELSE "none"
  <2>1. orders[i].order_id \in Ids
    BY EntryTypes DEF Order
  <2>2. Created(orders[i].order_id) /\ OrderOf(orders[i].order_id) = orders[i]
    BY Lookup DEF LookupFacts
  <2> QED
    BY <1>0, <1>1, <2>1, <2>2
<1> QED
  BY <1>0, <1>1, <1>2

LEMMA NextTold == Base /\ SlotsInv /\ ToldInv /\ [Next]_vars => ToldInv'
<1> SUFFICES ASSUME Base, SlotsInv, ToldInv, [Next]_vars PROVE ToldInv'
  OBVIOUS
<1> USE ConstantsAssumption
<1>0. /\ orders \in Seq(Order) /\ Len(orders) \in Nat /\ DOMAIN orders = 1 .. Len(orders)
      /\ told \in [Peers -> [Ids -> Status \cup {"none"}]]
      /\ clients \in [Slots -> Peers \cup {Nobody}]
      /\ lock.id \in Ids /\ lock.step \in {"free", "sale", "announce"}
      /\ lock.at \in 1 .. (MAX_CLIENTS + 1)
      /\ \A i \in DOMAIN orders : orders[i].order_id \in Ids
  BY EntryTypes DEF Base, TypeOK, Locks, Order
<1>1. ASSUME UNCHANGED <<orders, clients, told, lock>> PROVE ToldInv'
  BY <1>1 DEF ToldInv, ToldIsCurrent, Pending, Reached, MayBeUnknown, Created, StatusOf,
              OrderOf, orders_find, Unlocked
<1>2. ASSUME NEW c \in Peers, client_thread_register(c) PROVE ToldInv'
  <2>1. UNCHANGED <<orders, lock>> /\ Unlocked
    BY <1>2 DEF client_thread_register
  <2>2. \A s \in Slots : clients'[s] = c \/ (clients'[s] = clients[s] /\ clients[s] # c)
    <3>1. \A s \in Slots : clients[s] # c
      BY <1>2 DEF SlotsInv, client_thread_register
    <3> QED
      BY <1>2, <3>1, <1>0 DEF client_thread_register, server_register_client
  <2>3. ToldIsCurrent'
    <3> SUFFICES ASSUME NEW s \in Slots, NEW i \in DOMAIN orders, clients'[s] \in Peers
                 PROVE  LET o == orders[i]
                            d == clients'[s]
                        IN  \/ told'[d][o.order_id] = o.status
                            \/ told'[d][o.order_id] = "none" /\ MayBeUnknown(d, o)
      BY <2>1 DEF ToldIsCurrent, MayBeUnknown
    <3>1. CASE clients'[s] = c
      BY <3>1, <1>2, SnapshotFacts DEF InSnapshot, Closed, MayBeUnknown
    <3>2. CASE clients'[s] = clients[s] /\ clients[s] # c
      BY <3>2, <1>2, <2>1, SnapshotFacts DEF ToldInv, ToldIsCurrent, Reached
    <3> QED
      BY <3>1, <3>2, <2>2
  <2>4. Pending'
    BY <2>1 DEF Pending, Reached, Unlocked
  <2>5. \A d \in Peers, id \in Ids : told'[d][id] # "none" => Created(id)'
    BY <2>1, <1>2, SnapshotFacts DEF ToldInv, Created
  <2> QED
    BY <2>3, <2>4, <2>5 DEF ToldInv
<1>3. ASSUME NEW c \in Peers, client_thread_leave(c) PROVE ToldInv'
  <2>1. /\ UNCHANGED <<orders, lock>> /\ Unlocked
        /\ \A s \in Slots : clients'[s] \in Peers => clients'[s] = clients[s] /\ clients[s] # c
        /\ \A d \in Peers : d # c => told'[d] = told[d]
        /\ told'[c] = Untold
    BY <1>3, <1>0 DEF client_thread_leave, Peers
  <2>2. ToldIsCurrent'
    BY <2>1 DEF ToldInv, ToldIsCurrent, Reached, MayBeUnknown
  <2>3. Pending'
    BY <2>1 DEF Pending, Reached, Unlocked
  <2> QED
    BY <2>1, <2>2, <2>3 DEF ToldInv, Created, Untold
<1>4. ASSUME NEW c \in Peers, handle_order_create_client(c) PROVE ToldInv'
  <2>1. /\ UNCHANGED <<clients, told>> /\ Unlocked
        /\ lock'.step = "announce" /\ lock'.id = next_order_id /\ lock'.at = 1
    BY <1>4 DEF handle_order_create_client, HasRoom, CountedUp, Holding
  <2>2. \A s \in Slots : ~ Reached(s, lock.id)'
    BY <2>1 DEF Reached, Unlocked, Slots
  <2>3. ToldIsCurrent'
    <3> SUFFICES ASSUME NEW s \in Slots, NEW i \in DOMAIN orders', clients[s] \in Peers,
                        Reached(s, orders[i].order_id)'
                 PROVE  \/ told[clients[s]][orders'[i].order_id] = orders'[i].status
                        \/ /\ told[clients[s]][orders'[i].order_id] = "none"
                           /\ MayBeUnknown(clients[s], orders'[i])
      BY <2>1 DEF ToldIsCurrent, MayBeUnknown, Reached, Unlocked
    <3>1. CASE i \in DOMAIN orders
      BY <3>1, <2>1, <1>4, CreateFacts DEF ToldInv, ToldIsCurrent, Reached
    <3>2. CASE i = Len(orders) + 1
      <4>1. orders'[i].order_id = next_order_id
        BY <3>2, <1>4, CreateFacts
      <4> QED
        BY <4>1, <2>1 DEF Reached, Unlocked, Slots
    <3> QED
      BY <3>1, <3>2, <1>4, CreateFacts
  <2>4. \A d \in Peers : told'[d][lock'.id] = "none"
    BY <2>1, <1>4, CreateFacts DEF ToldInv
  <2>5. Pending'
    BY <2>1, <2>4 DEF Pending
  <2>6. \A d \in Peers, id \in Ids : told'[d][id] # "none" => Created(id)'
    BY <2>1, <1>4, CreateFacts DEF ToldInv
  <2> QED
    BY <2>3, <2>5, <2>6 DEF ToldInv
<1>5. ASSUME NEW i \in DOMAIN orders, NEW id \in Ids, NEW nw \in Status,
             ChangeStep(i, id, nw)
      PROVE  ToldInv'
  <2>1. /\ UNCHANGED <<clients, told>> /\ Unlocked /\ orders[i].order_id = id
        /\ lock'.step \in {"sale", "announce"} /\ lock'.id = id /\ lock'.at = 1
    BY <1>5 DEF ChangeStep
  <2>2. ToldIsCurrent'
    <3> SUFFICES ASSUME NEW s \in Slots, NEW j \in DOMAIN orders, clients[s] \in Peers,
                        Reached(s, orders[j].order_id)'
                 PROVE  \/ told[clients[s]][orders'[j].order_id] = orders'[j].status
                        \/ /\ told[clients[s]][orders'[j].order_id] = "none"
                           /\ MayBeUnknown(clients[s], orders'[j])
      BY <1>5, <2>1 DEF ToldIsCurrent, MayBeUnknown, Reached, Unlocked, ChangeStep
    <3>1. orders[j].order_id # id
      BY <2>1, <1>5 DEF Reached, Unlocked, Slots, ChangeStep
    <3> QED
      BY <3>1, <2>1, <1>5 DEF ChangeStep, ToldInv, ToldIsCurrent, Reached
  <2>3. StatusOf(id)' = nw
    <3>1. LookupFacts'
      BY NextBase, LookupNext
    <3>2. orders'[i].order_id = id /\ orders'[i].status = nw /\ i \in DOMAIN orders'
      BY <1>5 DEF ChangeStep
    <3> QED
      BY <3>1, <3>2 DEF LookupFacts
  <2>4. Pending'
    <3> SUFFICES ASSUME NEW s \in Slots, clients[s] \in Peers
                 PROVE  \/ told[clients[s]][id] = "none"
                        \/ LegalMove(told[clients[s]][id], nw)
      <4>1. StatusOf(lock.id)' = nw
        BY <2>1, <2>3 DEF StatusOf, OrderOf, Created, orders_find
      <4> QED
        BY <2>1, <4>1 DEF Pending
    <3> QED
      BY <2>1, <1>5 DEF ChangeStep, ToldInv, ToldIsCurrent, Reached
  <2>5. \A d \in Peers, x \in Ids : told'[d][x] # "none" => Created(x)'
    BY <2>1, <1>5 DEF ChangeStep, ToldInv, Created
  <2> QED
    BY <2>2, <2>4, <2>5 DEF ToldInv
<1>6. ASSUME append_sales_meta PROVE ToldInv'
  <2>1. /\ UNCHANGED <<orders, clients, told>> /\ lock.step = "sale" /\ lock.at = 1
        /\ lock'.step = "announce" /\ lock'.id = lock.id /\ lock'.at = 1
    BY <1>6 DEF append_sales_meta, Base, LockInv, TypeOK, Locks
  <2>2. \A s \in Slots, id \in Ids : Reached(s, id)' <=> Reached(s, id)
    BY <2>1 DEF Reached, Unlocked, Slots
  <2>3. ToldIsCurrent'
    BY <2>1, <2>2, <1>0 DEF ToldInv, ToldIsCurrent, MayBeUnknown
  <2>4. Pending'
    <3>1. (StatusOf(lock.id))' = StatusOf(lock.id)
      BY <2>1 DEF StatusOf, OrderOf, Created, orders_find
    <3>2. \A s \in Slots : ~ Reached(s, lock.id)
      BY <2>1 DEF Reached, Unlocked, Slots
    <3> QED
      BY <2>1, <3>1, <3>2 DEF ToldInv, Pending
  <2> QED
    BY <2>1, <2>3, <2>4 DEF ToldInv, Created
<1>7. ASSUME broadcast_raw PROVE ToldInv'
  <2>1. /\ UNCHANGED <<orders, clients>> /\ lock.step = "announce" /\ lock.at \in Slots
        /\ lock'.step = "announce" /\ lock'.id = lock.id /\ lock'.at = lock.at + 1
    BY <1>7, BroadcastSlot DEF broadcast_raw, Base, TypeOK, Locks
  <2>2. PICK i \in DOMAIN orders : orders[i].order_id = lock.id
    BY <2>1 DEF Base, LockInv, Unlocked, Created
  <2>3. StatusOf(lock.id) = orders[i].status
    BY <2>2, Lookup DEF LookupFacts
  <2>4. \A c \in Peers, id \in Ids :
            told'[c][id] = IF clients[lock.at] = c /\ id = lock.id
                           THEN orders[i].status ELSE told[c][id]
    BY <1>7, <2>3 DEF broadcast_raw
  <2>5. \A s \in Slots : s # lock.at /\ clients[s] \in Peers => clients[s] # clients[lock.at]
    BY <2>1 DEF SlotsInv, Peers
  <2>6. ToldIsCurrent'
    <3> SUFFICES ASSUME NEW s \in Slots, NEW j \in DOMAIN orders, clients[s] \in Peers,
                        Reached(s, orders[j].order_id)'
                 PROVE  \/ told'[clients[s]][orders[j].order_id] = orders[j].status
                        \/ /\ told'[clients[s]][orders[j].order_id] = "none"
                           /\ MayBeUnknown(clients[s], orders[j])
      BY <2>1 DEF ToldIsCurrent, MayBeUnknown, Reached, Unlocked
    <3>1. CASE orders[j].order_id # lock.id
      BY <3>1, <2>4, <1>0 DEF ToldInv, ToldIsCurrent, Reached
    <3>2. CASE orders[j].order_id = lock.id
      <4>1. j = i
        BY <3>2, <2>2, Lookup DEF LookupFacts
      <4>2. CASE s = lock.at
        BY <4>1, <4>2, <2>4, <3>2, <1>0
      <4>3. CASE s # lock.at
        <5>1. Reached(s, lock.id)
          BY <4>3, <3>2, <2>1, <1>0 DEF Reached, Unlocked, Slots
        <5>2. told'[clients[s]][orders[j].order_id] = told[clients[s]][orders[j].order_id]
          BY <4>3, <2>4, <2>5, <1>0
        <5> QED
          BY <5>1, <5>2, <3>2 DEF ToldInv, ToldIsCurrent
      <4> QED
        BY <4>2, <4>3
    <3> QED
      BY <3>1, <3>2
  <2>7. Pending'
    <3> SUFFICES ASSUME NEW s \in Slots, clients[s] \in Peers, ~ Reached(s, lock.id)'
                 PROVE  \/ told'[clients[s]][lock.id] = "none"
                        \/ LegalMove(told'[clients[s]][lock.id], StatusOf(lock.id))
      BY <2>1 DEF Pending, StatusOf, OrderOf, Created, orders_find, Reached, Unlocked
    <3>1. ~ Reached(s, lock.id) /\ s # lock.at
      BY <2>1, <1>0 DEF Reached, Unlocked, Slots
    <3>2. told'[clients[s]][lock.id] = told[clients[s]][lock.id]
      BY <3>1, <2>4, <2>5, <1>0
    <3> QED
      BY <3>1, <3>2 DEF ToldInv, Pending
  <2>8. \A c \in Peers, id \in Ids : told'[c][id] # "none" => Created(id)'
    BY <2>1, <2>2, <2>4 DEF ToldInv, Created
  <2> QED
    BY <2>6, <2>7, <2>8 DEF ToldInv
<1>8. ASSUME server_unlock PROVE ToldInv'
  <2>1. /\ UNCHANGED <<orders, clients, told>> /\ lock.step = "announce"
        /\ lock.at = MAX_CLIENTS + 1 /\ Unlocked'
    BY <1>8 DEF server_unlock, EndOfSlots, Free, Unlocked
  <2>2. \A s \in Slots, id \in Ids : Reached(s, id)
    BY <2>1 DEF Reached, Slots
  <2> QED
    BY <2>1, <2>2, <1>0 DEF ToldInv, ToldIsCurrent, Pending, Reached, MayBeUnknown, Created
<1>9. ASSUME NEW id \in Ids,
             \/ \E c \in Peers, st \in Status : server_update_order_status(c, id, st)
             \/ \E c \in Peers : server_cancel_order(c, id)
             \/ server_pay_order(id)
      PROVE  ToldInv'
  BY <1>5, <1>9, ChangeSteps
<1>10. ASSUME NEW c \in Peers,
              server_accept_loop(c) \/ client_thread_hello(c) \/ write_reply(c)
       PROVE  ToldInv'
  BY <1>1, <1>10 DEF server_accept_loop, client_thread_hello, write_reply
<1>11. ASSUME UNCHANGED vars PROVE ToldInv'
  BY <1>1, <1>11 DEF vars
<1> QED
  BY <1>2, <1>3, <1>4, <1>6, <1>7, <1>8, <1>9, <1>10, <1>11 DEF Next

\* The inductive invariant of the server.
IInv == Base /\ SlotsInv /\ SalesInv /\ ToldInv

LEMMA InductiveInvariant == Spec => []IInv
<1>1. Init => IInv
  BY InitBase, InitSlots, InitSales, InitTold DEF IInv
<1>2. IInv /\ [Next]_vars => IInv'
  BY NextBase, NextSlots, NextSales, NextTold DEF IInv
<1> QED
  BY <1>1, <1>2, PTL DEF Spec

\* Between announcements every registered connection has been told the
\* status of every order, but for what a snapshot hides from it; during one,
\* the slots the broadcast has reached have.
THEOREM ToldCurrent == Spec => []ToldIsCurrent
  BY InductiveInvariant, PTL DEF IInv, ToldInv

-----------------------------------------------------------------------------
\* Each connection hears of an order in legal moves, without a gap and never
\* backwards: a broadcast only ever brings a slot that is one move behind up
\* to date, and a snapshot only goes to a connection that knows nothing.
THEOREM HeardWithoutGaps == Spec => ToldWithoutGaps
<1> DEFINE Heard == \A c \in Peers, id \in Ids :
          told'[c][id] # told[c][id] =>
              \/ told[c][id] = "none"
              \/ told'[c][id] = "none" /\ session'[c] = "off"
              \/ LegalMove(told[c][id], told'[c][id])
<1>1. IInv /\ [Next]_vars => [Heard]_vars
  <2> SUFFICES ASSUME IInv, Next PROVE Heard
    BY DEF vars
  <2>0. /\ told \in [Peers -> [Ids -> Status \cup {"none"}]]
        /\ session \in [Peers -> SessionState]
    BY DEF IInv, Base, TypeOK
  <2>1. CASE UNCHANGED told
    BY <2>1
  <2>2. ASSUME NEW c \in Peers, client_thread_register(c) PROVE Heard
    <3>1. \A id \in Ids : told[c][id] = "none"
      BY <2>2 DEF client_thread_register, IInv, SlotsInv, Untold
    <3>2. \A d \in Peers : d # c => told'[d] = told[d]
      BY <2>2, SnapshotFacts DEF IInv
    <3> QED
      BY <3>1, <3>2
  <2>3. ASSUME NEW c \in Peers, client_thread_leave(c) PROVE Heard
    BY <2>3, <2>0 DEF client_thread_leave, Untold
  <2>4. ASSUME broadcast_raw PROVE Heard
    <3>1. /\ ~ Reached(lock.at, lock.id) /\ lock.at \in Slots
          /\ \A c \in Peers, id \in Ids :
                 told'[c][id] = IF clients[lock.at] = c /\ id = lock.id
                                THEN StatusOf(id) ELSE told[c][id]
      BY <2>4, BroadcastSlot, ConstantsAssumption
         DEF IInv, broadcast_raw, Reached, Unlocked, Slots
    <3> QED
      BY <3>1 DEF IInv, ToldInv, Pending
  <2>5. CASE \E c \in Peers : server_accept_loop(c) \/ client_thread_hello(c) \/ write_reply(c)
    BY <2>1, <2>5 DEF server_accept_loop, client_thread_hello, write_reply
  <2>6. CASE \E c \in Peers : handle_order_create_client(c)
    BY <2>1, <2>6 DEF handle_order_create_client
  <2>7. ASSUME NEW id \in Ids,
               \/ \E c \in Peers, st \in Status : server_update_order_status(c, id, st)
               \/ \E c \in Peers : server_cancel_order(c, id)
               \/ server_pay_order(id)
        PROVE  Heard
    BY <2>1, <2>7, ChangeSteps DEF IInv, ChangeStep
  <2>8. CASE append_sales_meta \/ server_unlock
    BY <2>1, <2>8 DEF append_sales_meta, server_unlock, EndOfSlots
  <2> QED
    BY <2>2, <2>3, <2>4, <2>5, <2>6, <2>7, <2>8 DEF Next
<1> QED
  BY <1>1, InductiveInvariant, PTL DEF Spec, ToldWithoutGaps

-----------------------------------------------------------------------------
\* A step that leaves the orders and the ledger alone is a stutter of the
\* abstract specification.
LEMMA Stutter == UNCHANGED <<orders, sales, dropped>> => UNCHANGED Life!vars
  BY DEF Life!vars, StatusOf, OrderOf, Created, orders_find, LedgerOf, Entered

\* Every step of the server is a step of the life of one order, or none.
LEMMA LifeStep == IInv /\ IInv' /\ [Next]_vars => [Life!Next]_(Life!vars)
<1> SUFFICES ASSUME IInv, IInv', [Next]_vars PROVE [Life!Next]_(Life!vars)
  OBVIOUS
<1> USE ConstantsAssumption
<1> DEFINE life == [id \in Ids |-> StatusOf(id)]
           ledger == [id \in Ids |-> LedgerOf(id)]
<1>0. LookupFacts /\ LookupFacts' /\ Base
  BY Lookup, LookupNext DEF IInv
<1>1. ASSUME UNCHANGED <<orders, sales, dropped>> PROVE [Life!Next]_(Life!vars)
  BY <1>1, Stutter
<1>2. ASSUME NEW c \in Peers, handle_order_create_client(c) PROVE Life!Next
  <2> DEFINE n == next_order_id
  <2>0. /\ n \in Ids /\ ~ Created(n)
        /\ \A id \in Ids : Created(id)' <=> Created(id) \/ id = n
        /\ UNCHANGED <<sales, dropped>>
    BY <1>0, <1>2, CreateFacts DEF handle_order_create_client
  <2>1. life[n] = "none"
    BY <2>0, <1>0 DEF LookupFacts
  <2>2. \A older \in Ids : older < n => life[older] # "none"
    <3> SUFFICES ASSUME NEW older \in Ids, older < n PROVE StatusOf(older) # "none"
      OBVIOUS
    <3> DEFINE i == older - FirstId + 1
    <3>a. FirstId \in Nat /\ older \in Int /\ older >= FirstId
      BY DEF Ids
    <3>b. n = FirstId + Len(orders) /\ Len(orders) \in Nat
      BY DEF IInv, Base, Dense, TypeOK
    <3>c. i \in 1 .. Len(orders)
      BY <3>a, <3>b
    <3>d. i \in DOMAIN orders
      BY <3>c DEF IInv, Base, TypeOK
    <3>e. orders[i].order_id = FirstId + i - 1
      BY <3>d DEF IInv, Base, Dense
    <3>1. i \in DOMAIN orders /\ orders[i].order_id = older
      BY <3>a, <3>d, <3>e
    <3>2. StatusOf(older) = orders[i].status /\ orders[i].status \in Status
      BY <3>1, <1>0, EntryTypes DEF LookupFacts, Order
    <3> QED
      BY <3>2 DEF Status
  <2>3. \A id \in Ids : StatusOf(id)' = IF id = n THEN "WAITING" ELSE StatusOf(id)
    <3> SUFFICES ASSUME NEW id \in Ids
                 PROVE  StatusOf(id)' = IF id = n THEN "WAITING" ELSE StatusOf(id)
      OBVIOUS
    <3>1. CASE id = n
      BY <3>1, <1>0, <1>2, CreateFacts DEF LookupFacts
    <3>2. CASE id # n /\ Created(id)
      <4>1. PICK i \in DOMAIN orders : orders[i].order_id = id
        BY <3>2 DEF Created
      <4>2. i \in DOMAIN orders' /\ orders'[i] = orders[i]
        BY <1>0, <1>2, CreateFacts
      <4> QED
        BY <3>2, <4>1, <4>2, <1>0 DEF LookupFacts
    <3>3. CASE id # n /\ ~ Created(id)
      BY <3>3, <2>0, <1>0 DEF LookupFacts
    <3> QED
      BY <3>1, <3>2, <3>3
  <2>4. life' = [life EXCEPT ![n] = "WAITING"]
    BY <2>3
  <2>5. ledger' = ledger
    BY <2>0 DEF LedgerOf, Entered
  <2>6. Life!Open(n)
    BY <2>1, <2>2, <2>4, <2>5 DEF Life!Open
  <2> QED
    BY <2>0, <2>6 DEF Life!Next
<1>3. ASSUME NEW i \in DOMAIN orders, NEW id \in Ids, NEW nw \in Status,
             ChangeStep(i, id, nw)
      PROVE  Life!Next
  <2>1. \A x \in Ids : Created(x)' <=> Created(x)
    BY <1>3 DEF ChangeStep, Created
  <2>2. StatusOf(id) = orders[i].status /\ StatusOf(id)' = nw
    BY <1>3, <1>0 DEF ChangeStep, LookupFacts
  <2>3. \A x \in Ids : x # id => StatusOf(x)' = StatusOf(x)
    <3> SUFFICES ASSUME NEW x \in Ids, x # id PROVE StatusOf(x)' = StatusOf(x)
      OBVIOUS
    <3>1. CASE Created(x)
      <4>1. PICK j \in DOMAIN orders : orders[j].order_id = x
        BY <3>1 DEF Created
      <4>2. j \in DOMAIN orders' /\ orders'[j] = orders[j]
        BY <4>1, <1>3 DEF ChangeStep
      <4> QED
        BY <4>1, <4>2, <1>0 DEF LookupFacts
    <3>2. CASE ~ Created(x)
      BY <3>2, <2>1, <1>0 DEF LookupFacts
    <3> QED
      BY <3>1, <3>2
  <2>4. life' = [life EXCEPT ![id] = nw]
    BY <2>2, <2>3
  <2>5. ledger' = ledger
    BY <1>3 DEF ChangeStep, LedgerOf, Entered
  <2>6. Life!Move(id, nw)
    BY <2>2, <2>4, <2>5, <1>3 DEF Life!Move, ChangeStep, Life!LegalMove, LegalMove,
       Life!valid_kitchen_transition, valid_kitchen_transition, Life!KitchenMoves,
       KitchenMoves, Life!Cancellable, Cancellable, Life!Payable, Payable
  <2> QED
    BY <2>6 DEF Life!Next, Life!Status, Status
<1>4. ASSUME append_sales_meta PROVE Life!Next
  <2>1. lock.id \in Ids /\ UNCHANGED orders /\ sales \in Seq(Ids) /\ Len(sales) \in Nat
    BY <1>4 DEF append_sales_meta, IInv, Base, TypeOK, Locks
  <2>2. PICK i \in DOMAIN orders : orders[i].order_id = lock.id /\ orders[i].status = "PAID"
    BY <1>4 DEF append_sales_meta, IInv, Base, LockInv
  <2>3. life[lock.id] = "PAID" /\ lock.id \notin Entered \cup dropped
    BY <2>1, <2>2, <1>0, <1>4 DEF LookupFacts, IInv, SalesInv, SalesLedger, append_sales_meta
  <2>4. \/ Entered' = Entered \cup {lock.id} /\ UNCHANGED dropped
        \/ dropped' = dropped \cup {lock.id} /\ Entered' = Entered
    <3>1. CASE sales' = Append(sales, lock.id) /\ UNCHANGED dropped
      <4>1. /\ DOMAIN sales' = DOMAIN sales \cup {Len(sales) + 1}
            /\ \A m \in DOMAIN sales : sales'[m] = sales[m]
            /\ sales'[Len(sales) + 1] = lock.id
        BY <3>1, <2>1, AppendProperties
      <4> QED
        BY <4>1, <3>1 DEF Entered
    <3>2. CASE dropped' = dropped \cup {lock.id} /\ UNCHANGED sales
      BY <3>2 DEF Entered
    <3> QED
      BY <3>1, <3>2, <1>4 DEF append_sales_meta
  <2>5. \E entry \in {"sold", "lost"} : ledger' = [ledger EXCEPT ![lock.id] = entry]
    <3>1. CASE Entered' = Entered \cup {lock.id} /\ UNCHANGED dropped
      <4>1. ledger' = [ledger EXCEPT ![lock.id] = "sold"]
        BY <3>1, <2>1 DEF LedgerOf
      <4> QED
        BY <4>1
    <3>2. CASE dropped' = dropped \cup {lock.id} /\ Entered' = Entered
      <4>1. ledger' = [ledger EXCEPT ![lock.id] = "lost"]
        BY <3>2, <2>1, <2>3 DEF LedgerOf
      <4> QED
        BY <4>1
    <3> QED
      BY <3>1, <3>2, <2>4
  <2>6. ledger[lock.id] = "open" /\ life' = life
    BY <2>1, <2>3 DEF LedgerOf, StatusOf, OrderOf, Created, orders_find
  <2>7. Life!Record(lock.id)
    BY <2>3, <2>5, <2>6 DEF Life!Record
  <2> QED
    BY <2>1, <2>7 DEF Life!Next
<1>5. ASSUME NEW id \in Ids,
             \/ \E c \in Peers, st \in Status : server_update_order_status(c, id, st)
             \/ \E c \in Peers : server_cancel_order(c, id)
             \/ server_pay_order(id)
      PROVE  Life!Next
  BY <1>0, <1>3, <1>5, ChangeSteps
<1>6. ASSUME NEW c \in Peers,
             \/ server_accept_loop(c) \/ client_thread_hello(c) \/ write_reply(c)
             \/ client_thread_register(c) \/ client_thread_leave(c)
      PROVE  [Life!Next]_(Life!vars)
  BY <1>1, <1>6 DEF server_accept_loop, client_thread_hello, write_reply,
                    client_thread_register, client_thread_leave
<1>7. ASSUME broadcast_raw \/ server_unlock \/ UNCHANGED vars
      PROVE  [Life!Next]_(Life!vars)
  BY <1>1, <1>7 DEF broadcast_raw, server_unlock, EndOfSlots, vars
<1> QED
  BY <1>2, <1>4, <1>5, <1>6, <1>7 DEF Next

LEMMA LifeInit == Init => Life!Init
  BY DEF Init, Life!Init, StatusOf, LedgerOf, Created, Entered

\* Every behaviour of the server is a behaviour of OrderLife: an order opens
\* once and in turn, moves only by the rules, and is entered in the ledger
\* at most once and only when paid.
THEOREM ServerImplementsLife == Spec => Life!SafeSpec
  BY LifeInit, LifeStep, InductiveInvariant, PTL DEF Spec, Life!SafeSpec
=============================================================================
