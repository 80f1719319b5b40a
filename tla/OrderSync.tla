----------------------------- MODULE OrderSync ------------------------------
(***************************************************************************)
(* The order server together with the client programs of ui.c: the bytes   *)
(* on the way to a client, the reader thread that puts lines into the      *)
(* UiNetQueue and drops them when it is full, the UI loop that merges them *)
(* into its mirror of the orders, and the requests the user's keys send on *)
(* the strength of that mirror.                                            *)
(*                                                                         *)
(* Each action of the server is one of OrderServer, together with what it  *)
(* writes to a socket.  Lines other than order events only take up room.   *)
(***************************************************************************)
EXTENDS OrderServer

CONSTANTS QCAP,     \* room of UiNetQueue.q, 128 in ui.c
          WCAP,     \* lines a socket holds before write_all blocks
          RCAP      \* bound: requests on the way from one client

ASSUME SyncAssumption ==
    QCAP \in Nat \ {0} /\ WCAP \in Nat \ {0} /\ RCAP \in Nat \ {0}

VARIABLES
    wire,       \* wire[c]: lines the server wrote and c has not read
    unsent,     \* unsent[c]: what is left to write of the snapshot of c
    refused,    \* tables whose session has an ERROR to write
    queue,      \* queue[c]: lines in c's UiNetQueue
    mirror,     \* mirror[c][id]: the status c's screen shows, or "none"
    screen,     \* screen[c]: "off", in its handshake loop, or running
    requests,   \* requests[c]: what c sent and its session has not read
    lost        \* lost[c]: some order event of c found the queue full

serverVars == <<unsent, refused>>
clientVars == <<wire, queue, mirror, screen, requests, lost>>
syncVars   == <<vars, serverVars, clientVars>>

Event(id, st) == [kind |-> "ORDER_EVENT", id |-> id, status |-> st]
Plain(kind)   == [kind |-> kind, id |-> FirstId, status |-> "none"]
HelloFault == Plain("REPLY")
Hello == Plain("OK")        \* OK|hello
Reply == Plain("REPLY")     \* ORDER_CREATED, OK|cancel, ERROR

Request(kind, id, st) == [kind |-> kind, id |-> id, status |-> st]

SyncInit ==
    /\ Init
    /\ wire = [c \in Peers |-> << >>]
    /\ unsent = [c \in Peers |-> << >>]
    /\ refused = {}
    /\ queue = [c \in Peers |-> << >>]
    /\ mirror = [c \in Peers |-> Untold]
    /\ screen = [c \in Peers |-> "off"]
    /\ requests = [c \in Peers |-> << >>]
    /\ lost = [c \in Peers |-> FALSE]

\* write_all to a client: what a client that has quit is sent is gone.
Write(c, line) ==
    wire' = IF screen[c] = "off" THEN wire
            ELSE [wire EXCEPT ![c] = Append(@, line)]

\* write_all blocks while the socket is full.
CanWrite(c) == screen[c] = "off" \/ Len(wire[c]) < WCAP

\* A fault: what the socket has no room for is not written.
SendLineFault(c, line) == IF CanWrite(c) THEN Write(c, line) ELSE UNCHANGED wire

SendLine(c, line) == CanWrite(c) /\ Write(c, line)

\* Nobody is in a critical section: no order is being announced, no snapshot
\* being written.
LockFree == Unlocked /\ \A c \in Peers : unsent[c] = << >>

-----------------------------------------------------------------------------
(* The server *)

\* ui_run_table and ui_run_kitchen connect and send HELLO.
Connect(c) ==
    /\ screen[c] = "off"
    /\ server_accept_loop(c)
    /\ screen' = [screen EXCEPT ![c] = "handshake"]
    /\ UNCHANGED <<serverVars, wire, queue, mirror, requests, lost>>

\* A client program always says a HELLO that is accepted.
Greet(c) ==
    /\ client_thread_hello(c)
    /\ session'[c] = "greeted"
    /\ SendLine(c, Hello)
    /\ UNCHANGED <<serverVars, queue, mirror, screen, requests, lost>>

\* The places in the table of the orders that the snapshot shows c.
Shown(c) == {i \in DOMAIN orders : InSnapshot(c, orders[i])}

\* The session takes ctx->lock; the snapshot is to be written order by order,
\* in the order of the table.
Register(c) ==
    /\ LockFree
    /\ client_thread_register(c)
    /\ \E at \in [1 .. Cardinality(Shown(c)) -> Shown(c)] :
           /\ \A m, n \in DOMAIN at : m < n => at[m] < at[n]
           /\ unsent' = [unsent EXCEPT ![c] =
                             IF screen[c] = "off" THEN << >>
                             ELSE [n \in DOMAIN at |->
                                      Event(orders[at[n]].order_id, orders[at[n]].status)]]
    /\ UNCHANGED <<refused, clientVars>>

\* write_all of one order in send_snapshot_locked: the lock is held until the
\* last of them is in the socket.
WriteSnapshot(c) ==
    /\ unsent[c] # << >>
    /\ SendLine(c, Head(unsent[c]))
    /\ unsent' = [unsent EXCEPT ![c] = Tail(@)]
    /\ UNCHANGED <<vars, refused, queue, mirror, screen, requests, lost>>

\* The session thread reads end of file once it has read every request.
Leave(c) ==
    /\ screen[c] = "off"
    /\ requests[c] = << >> /\ c \notin refused
    /\ LockFree
    /\ client_thread_leave(c)
    /\ UNCHANGED <<serverVars, clientVars>>

CanCancel(c, id) == \E i \in DOMAIN orders :
    /\ orders_find(i, id)
    /\ orders[i].table_id = TableOf[c]
    /\ Cancellable(orders[i].status)

CanUpdate(id, st) == \E i \in DOMAIN orders :
    orders_find(i, id) /\ valid_kitchen_transition(orders[i].status, st)

\* The session reads its next request and gets the lock.
NextRequest(c, kind) ==
    /\ LockFree /\ c \notin refused
    /\ requests[c] # << >>
    /\ Head(requests[c]).kind = kind
    /\ requests' = [requests EXCEPT ![c] = Tail(@)]

\* A request that is granted: its reply is written after the unlock.
Serve(c) ==
    /\ \/ NextRequest(c, "ORDER_CREATE") /\ handle_order_create_client(c)
       \/ /\ NextRequest(c, "ORDER_CANCEL")
          /\ server_cancel_order(c, Head(requests[c]).id)
       \/ /\ NextRequest(c, "ORDER_UPDATE")
          /\ server_update_order_status(c, Head(requests[c]).id,
                                        Head(requests[c]).status)
    /\ UNCHANGED <<serverVars, wire, queue, mirror, screen, lost>>

\* A refused one: a table has an ERROR coming, a kitchen nothing.  An
\* ORDER_CREATE may be refused for what it orders, which is not modelled.
Refuse(c) ==
    /\ session[c] = "serving"
    /\ \/ /\ c \in TableClients
          /\ \/ NextRequest(c, "ORDER_CREATE")
             \/ NextRequest(c, "ORDER_CANCEL") /\ ~ CanCancel(c, Head(requests[c]).id)
          /\ refused' = refused \cup {c}
       \/ /\ NextRequest(c, "ORDER_UPDATE")
          /\ ~ CanUpdate(Head(requests[c]).id, Head(requests[c]).status)
          /\ UNCHANGED refused
    /\ UNCHANGED <<vars, unsent, wire, queue, mirror, screen, lost>>

\* Both replies are written after the unlock.
WriteRefusal(c) ==
    /\ c \in refused
    /\ SendLine(c, Reply)
    /\ refused' = refused \ {c}
    /\ UNCHANGED <<vars, unsent, queue, mirror, screen, requests, lost>>

AnswerRequest(c) ==
    /\ write_reply(c)
    /\ SendLine(c, Reply)
    /\ UNCHANGED <<serverVars, queue, mirror, screen, requests, lost>>

\* The write of broadcast_raw blocks, with ctx->lock held, while the socket
\* of this slot is full.
Broadcast ==
    /\ broadcast_raw
    /\ LET c == clients[lock.at]
       IN  \/ c \notin Peers /\ UNCHANGED wire
           \/ c \in Peers /\ SendLine(c, Event(lock.id, StatusOf(lock.id)))
    /\ UNCHANGED <<serverVars, queue, mirror, screen, requests, lost>>

PosStep ==
    /\ LockFree
    /\ \E id \in Ids : server_pay_order(id)
    /\ UNCHANGED <<serverVars, clientVars>>

LockStep == /\ append_sales_meta \/ server_unlock
            /\ UNCHANGED <<serverVars, clientVars>>

-----------------------------------------------------------------------------
(* The client *)

NoRoomFault(c) == Len(queue[c]) > QCAP

\* ui_net_enqueue stores a line only while nq->qn < 128.
NoRoom(c) == Len(queue[c]) >= QCAP

\* ui_net_reader_main reads one line; the line is gone if there is no room.
ReadLine(c) ==
    /\ screen[c] # "off"
    /\ wire[c] # << >>
    /\ wire' = [wire EXCEPT ![c] = Tail(@)]
    /\ \/ /\ ~ NoRoom(c)
          /\ queue' = [queue EXCEPT ![c] = Append(@, Head(wire[c]))]
          /\ UNCHANGED lost
       \/ /\ NoRoom(c)
          /\ lost' = [lost EXCEPT ![c] = @ \/ Head(wire[c]).kind # "REPLY"]
          /\ UNCHANGED queue
    /\ UNCHANGED <<vars, serverVars, mirror, screen, requests>>

\* ui_merge_order_mirror
MergedFault(m, line) ==
    IF line.kind = "ORDER_EVENT" /\ m[line.id] = "none"
    THEN [m EXCEPT ![line.id] = line.status] ELSE m

Merged(m, line) ==
    IF line.kind = "ORDER_EVENT" THEN [m EXCEPT ![line.id] = line.status] ELSE m

\* The UI loop takes the next line: the handshake ends with the first OK|,
\* events are merged in the handshake loop too.
PopLine(c) ==
    /\ screen[c] # "off"
    /\ queue[c] # << >>
    /\ queue' = [queue EXCEPT ![c] = Tail(@)]
    /\ mirror' = [mirror EXCEPT ![c] = Merged(@, Head(queue[c]))]
    /\ screen' = [screen EXCEPT ![c] =
                     IF Head(queue[c]).kind = "OK" THEN "running" ELSE @]
    /\ UNCHANGED <<vars, serverVars, wire, requests, lost>>

\* What the kitchen's keys ask for an order shown with this status: right,
\* left, c and d of ui_run_kitchen.
KitchenAsks(st) ==
    CASE st = "WAITING" -> {"COOKING", "DONE"}
      [] st = "COOKING" -> {"DONE", "WAITING"}
      [] st = "DONE"    -> {"COOKING"}
      [] OTHER          -> {}

\* The requests c's screen can send as it is now: a table sends a cart or
\* cancels one of its orders that it shows WAITING (its mirror also holds
\* what was broadcast about other tables, which the screen does not list).
Asks(c) ==
    IF c \in KitchenClients
    THEN UNION { { Request("ORDER_UPDATE", id, st) : st \in KitchenAsks(mirror[c][id]) }
                 : id \in Ids }
    ELSE {Request("ORDER_CREATE", FirstId, "none")}
         \cup { Request("ORDER_CANCEL", id, "none") : id \in
                  { x \in Ids : mirror[c][x] = "WAITING" /\
                      \E i \in DOMAIN orders : /\ orders[i].order_id = x
                                               /\ orders[i].table_id = TableOf[c] } }

PressKey(c) ==
    /\ screen[c] = "running"
    /\ Len(requests[c]) < RCAP
    /\ \E rq \in Asks(c) : requests' = [requests EXCEPT ![c] = Append(@, rq)]
    /\ UNCHANGED <<vars, serverVars, wire, queue, mirror, screen, lost>>

\* Key q: the program ends, with its queue and its mirror, and what is left of
\* its snapshot is written to nobody.  The handshake loop reads no keys.
Quit(c) ==
    /\ screen[c] = "running"
    /\ screen' = [screen EXCEPT ![c] = "off"]
    /\ wire' = [wire EXCEPT ![c] = << >>]
    /\ unsent' = [unsent EXCEPT ![c] = << >>]
    /\ queue' = [queue EXCEPT ![c] = << >>]
    /\ mirror' = [mirror EXCEPT ![c] = Untold]
    /\ lost' = [lost EXCEPT ![c] = FALSE]
    /\ UNCHANGED <<vars, refused, requests>>

-----------------------------------------------------------------------------
Holder == LockStep \/ Broadcast \/ \E c \in Peers : WriteSnapshot(c)

SyncNext ==
    \/ \E c \in Peers :
           \/ Connect(c) \/ Greet(c) \/ Register(c) \/ WriteSnapshot(c) \/ Leave(c)
           \/ Serve(c) \/ Refuse(c) \/ WriteRefusal(c) \/ AnswerRequest(c)
           \/ ReadLine(c) \/ PopLine(c) \/ PressKey(c) \/ Quit(c)
    \/ PosStep
    \/ LockStep
    \/ Broadcast

SyncSpec == SyncInit /\ [][SyncNext]_syncVars

\* The lock holder, every reader thread and every UI loop run on.  Nobody is
\* assumed to press a key, and no session to get the mutex.
SyncFairSpec ==
    /\ SyncSpec
    /\ WF_syncVars(Holder)
    /\ \A c \in Peers : WF_syncVars(ReadLine(c)) /\ WF_syncVars(PopLine(c))

-----------------------------------------------------------------------------
(* Properties *)

Lines == [kind : {"ORDER_EVENT", "OK", "REPLY"}, id : Ids,
          status : Status \cup {"none"}]

SyncTypeOK ==
    /\ TypeOK
    /\ refused \subseteq TableClients
    /\ \A c \in Peers :
           /\ wire[c] \in Seq(Lines) /\ Len(wire[c]) <= WCAP
           /\ unsent[c] \in Seq(Lines)
           /\ queue[c] \in Seq(Lines) /\ Len(queue[c]) <= QCAP
           /\ mirror[c] \in [Ids -> Status \cup {"none"}]
           /\ screen[c] \in {"off", "handshake", "running"}
           /\ Len(requests[c]) <= RCAP
           /\ lost[c] \in BOOLEAN

Caught(c) == screen[c] = "running" /\ wire[c] = << >> /\ queue[c] = << >>

\* A screen that has read all it was sent, and lost nothing, shows for every
\* order what the server's table says, except closed orders and orders of
\* other tables it may not know.  The whole way from a status change over
\* lock, slots, socket, reader and queue to the mirror is in this.
CaughtUpMirrorAgrees ==
    \A c \in Registered, i \in DOMAIN orders :
        LockFree /\ Caught(c) /\ ~ lost[c] =>
            \/ mirror[c][orders[i].order_id] = orders[i].status
            \/ /\ mirror[c][orders[i].order_id] = "none"
               /\ MayBeUnknown(c, orders[i])

\* A screen never shows an order going a way the rules do not have, as long
\* as no line was dropped: events are neither reordered nor repeated between
\* the snapshot and the broadcasts.
ScreenMovesLegally ==
    [][\A c \in Peers, id \in Ids :
          mirror'[c][id] # mirror[c][id] =>
              \/ mirror[c][id] = "none"
              \/ screen'[c] = "off"
              \/ lost[c]
              \/ LegalMove(mirror[c][id], mirror'[c][id])]_syncVars

\* What a connection was told appears on its screen, or is overtaken by
\* something newer, or the client is gone, or its queue overflowed.
ToldIsShown ==
    \A c \in Peers, id \in Ids, st \in Status :
        (c \in Registered /\ screen[c] # "off" /\ told[c][id] = st)
            ~> \/ mirror[c][id] = st
               \/ told[c][id] # st
               \/ screen[c] = "off"
               \/ lost[c]

\* The handshake loop has no way out but an OK| line: it gets one.
HandshakeEnds ==
    \A c \in Peers :
        (c \in Registered /\ screen[c] = "handshake")
            ~> (screen[c] # "handshake" \/ lost[c])
=============================================================================
