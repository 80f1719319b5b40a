-------------------------- MODULE OrderSyncProofs ---------------------------
(***************************************************************************)
(* OrderSync adds the clients to the server without changing what the      *)
(* server does: whatever is proved of OrderServer holds in OrderSync too.  *)
(* The second half follows what a connection is told through the socket    *)
(* and the queue to the screen, for queues, sockets and tables of any      *)
(* size: the screen agrees with the server once it has caught up, and on   *)
(* its way there every move it shows is a legal one.                       *)
(***************************************************************************)
EXTENDS OrderSync, OrderServerProofs, FiniteSetTheorems

\* A request that the server grants names an order and a status it knows.
LEMMA GrantedRequest ==
    ASSUME Base, NEW c \in Peers, NEW id, NEW st
    PROVE  /\ server_cancel_order(c, id) => id \in Ids
           /\ server_update_order_status(c, id, st) => id \in Ids /\ st \in Status
<1>1. \A i \in DOMAIN orders : orders_find(i, id) => id \in Ids
  BY EntryTypes DEF orders_find, Order
<1>2. ASSUME NEW cur, valid_kitchen_transition(cur, st) PROVE st \in Status
  BY <1>2 DEF valid_kitchen_transition, KitchenMoves, Status
<1>. QED  BY <1>1, <1>2 DEF server_cancel_order, server_update_order_status

\* Every step of server and clients is a step of the server or leaves it alone.
LEMMA SyncStep == Base /\ [SyncNext]_syncVars => [Next]_vars
<1> SUFFICES ASSUME Base, [SyncNext]_syncVars PROVE [Next]_vars
  OBVIOUS
<1>1. ASSUME NEW c \in Peers,
             Connect(c) \/ Greet(c) \/ Register(c) \/ Leave(c) \/ AnswerRequest(c)
      PROVE  Next
  BY <1>1 DEF Connect, Greet, Register, Leave, AnswerRequest, Next
<1>2. ASSUME NEW c \in Peers, Serve(c) PROVE Next
  <2> DEFINE id == Head(requests[c]).id
             st == Head(requests[c]).status
  <2>1. \/ handle_order_create_client(c)
        \/ server_cancel_order(c, id)
        \/ server_update_order_status(c, id, st)
    BY <1>2 DEF Serve
  <2>2. /\ server_cancel_order(c, id) => id \in Ids
        /\ server_update_order_status(c, id, st) => id \in Ids /\ st \in Status
    BY GrantedRequest
  <2> HIDE DEF id, st
  <2>. QED  BY <2>1, <2>2 DEF Next
<1>3. ASSUME NEW c \in Peers,
             \/ WriteSnapshot(c) \/ Refuse(c) \/ WriteRefusal(c)
             \/ ReadLine(c) \/ PopLine(c) \/ PressKey(c) \/ Quit(c)
      PROVE  UNCHANGED vars
  BY <1>3 DEF WriteSnapshot, Refuse, WriteRefusal, ReadLine, PopLine, PressKey, Quit
<1>4. PosStep \/ LockStep \/ Broadcast => Next
  BY DEF PosStep, LockStep, Broadcast, Next
<1>5. UNCHANGED syncVars => UNCHANGED vars
  BY DEF syncVars
<1>. QED  BY <1>1, <1>2, <1>3, <1>4, <1>5 DEF SyncNext

\* The server in the middle of its clients is the server of OrderServer: the
\* clients' programs can make it do nothing that OrderServer does not do.
THEOREM SyncImplementsServer == SyncSpec => Spec
<1>1. SyncInit => Init
  BY DEF SyncInit
<1>2. Base /\ [SyncNext]_syncVars => [Next]_vars /\ Base'
  BY SyncStep, NextBase
<1>. QED  BY <1>1, <1>2, InitBase, PTL DEF SyncSpec, Spec

\* What is proved of the server on its own therefore holds among clients:
\* every registered connection has been told the current status of each order
\* it has to know, whatever sockets, queues and keys do.
THEOREM SyncToldCurrent == SyncSpec => []ToldIsCurrent
  BY SyncImplementsServer, ToldCurrent, PTL

-----------------------------------------------------------------------------
(* Lines on their way to a screen *)

\* A line that tells of this order.
About(line, id) == line.kind = "ORDER_EVENT" /\ line.id = id

\* One status after another, as a screen may show them.
Follows(from, to) == from = "none" \/ from = to \/ LegalMove(from, to)

\* A screen that shows b of an order shows st once it has read the lines s.
Brings(s, id, b, st) ==
    \/ /\ \A k \in DOMAIN s : ~ About(s[k], id)
       /\ b = st
    \/ \E k \in DOMAIN s : /\ About(s[k], id)
                           /\ s[k].status = st
                           /\ \A j \in DOMAIN s : j > k => ~ About(s[j], id)

\* On the way there it shows no illegal move.
Steadily(s, id, b) ==
    /\ \A k \in DOMAIN s :
           About(s[k], id) /\ (\A j \in DOMAIN s : j < k => ~ About(s[j], id))
           => Follows(b, s[k].status)
    /\ \A j, k \in DOMAIN s :
           /\ j < k /\ About(s[j], id) /\ About(s[k], id)
           /\ \A i \in DOMAIN s : j < i /\ i < k => ~ About(s[i], id)
           => Follows(s[j].status, s[k].status)

\* Lines about other orders, added at the end, are of no account.
LEMMA ConcatOther ==
    ASSUME NEW s \in Seq(Lines), NEW t \in Seq(Lines), NEW id, NEW b, NEW st,
           \A k \in DOMAIN t : ~ About(t[k], id),
           Brings(s, id, b, st), Steadily(s, id, b)
    PROVE  Brings(s \o t, id, b, st) /\ Steadily(s \o t, id, b)
<1> DEFINE u == s \o t
<1>1. /\ Len(s) \in Nat /\ DOMAIN s = 1 .. Len(s)
      /\ Len(t) \in Nat /\ DOMAIN t = 1 .. Len(t)
      /\ DOMAIN u = 1 .. Len(s) + Len(t)
      /\ \A i \in DOMAIN s : u[i] = s[i]
      /\ \A i \in 1 .. Len(s) + Len(t) : i > Len(s) => u[i] = t[i - Len(s)]
  BY ConcatProperties, LenProperties
<1> HIDE DEF u
<1>2. /\ \A i \in DOMAIN u : About(u[i], id) => i \in DOMAIN s /\ About(s[i], id)
      /\ DOMAIN s \subseteq DOMAIN u
  BY <1>1
<1>3. Brings(u, id, b, st)
  BY <1>1, <1>2 DEF Brings
<1>4. Steadily(u, id, b)
  BY <1>1, <1>2 DEF Steadily
<1> QED
  BY <1>3, <1>4 DEF u

\* Lines added at the end of which one is about the order move it on.
LEMMA ConcatOnce ==
    ASSUME NEW s \in Seq(Lines), NEW t \in Seq(Lines), NEW id, NEW b, NEW st,
           NEW n \in DOMAIN t, About(t[n], id),
           \A k \in DOMAIN t : About(t[k], id) => k = n,
           Brings(s, id, b, st), Steadily(s, id, b), Follows(st, t[n].status)
    PROVE  Brings(s \o t, id, b, t[n].status) /\ Steadily(s \o t, id, b)
<1> DEFINE u == s \o t
           m == Len(s) + n
<1>1. /\ Len(s) \in Nat /\ DOMAIN s = 1 .. Len(s)
      /\ Len(t) \in Nat /\ DOMAIN t = 1 .. Len(t)
      /\ DOMAIN u = 1 .. Len(s) + Len(t)
      /\ \A i \in DOMAIN s : u[i] = s[i]
      /\ \A i \in 1 .. Len(s) + Len(t) : i > Len(s) => u[i] = t[i - Len(s)]
  BY ConcatProperties, LenProperties
<1> HIDE DEF u
<1>2. /\ m \in DOMAIN u /\ m > Len(s) /\ u[m] = t[n]
      /\ About(u[m], id) /\ u[m].status = t[n].status
      /\ DOMAIN s \subseteq DOMAIN u
      /\ \A i \in DOMAIN u : i \in Int
      /\ \A i \in DOMAIN s : i < m
  <2>1. n \in Int /\ n >= 1 /\ n <= Len(t)
    BY <1>1
  <2>2. m \in 1 .. Len(s) + Len(t) /\ m > Len(s) /\ m - Len(s) = n
    BY <1>1, <2>1
  <2>3. u[m] = t[n]
    BY <1>1, <2>2
  <2> QED
    BY <1>1, <2>2, <2>3
<1>20. ASSUME NEW i \in DOMAIN u, About(u[i], id)
       PROVE  i = m \/ (i \in DOMAIN s /\ About(s[i], id))
  <2>1. CASE i > Len(s)
    <3>1. i - Len(s) \in DOMAIN t /\ u[i] = t[i - Len(s)]
      BY <1>1, <2>1
    <3>2. i - Len(s) = n
      BY <1>20, <3>1
    <3> QED
      BY <1>1, <3>2
  <2>2. CASE ~ (i > Len(s))
    BY <1>1, <1>20, <2>2
  <2> QED
    BY <2>1, <2>2
<1> HIDE DEF m
<1>3. Brings(u, id, b, t[n].status)
  <2>1. \A j \in DOMAIN u : j > m => ~ About(u[j], id)
    BY <1>2, <1>20
  <2> QED
    BY <1>2, <2>1 DEF Brings
<1>4. ASSUME NEW k \in DOMAIN u, About(u[k], id), \A j \in DOMAIN u : j < k => ~ About(u[j], id)
      PROVE  Follows(b, u[k].status)
  <2>1. CASE k = m
    <3>1. \A j \in DOMAIN s : ~ About(s[j], id)
      BY <1>1, <1>2, <1>20, <1>4, <2>1
    <3>2. b = st
      BY <3>1 DEF Brings
    <3> QED BY <1>2, <2>1, <3>2
  <2>2. CASE k # m
    BY <1>1, <1>2, <1>20, <1>4, <2>2 DEF Steadily
  <2> QED BY <2>1, <2>2
<1>5. ASSUME NEW j \in DOMAIN u, NEW k \in DOMAIN u, j < k, About(u[j], id), About(u[k], id),
             \A i \in DOMAIN u : j < i /\ i < k => ~ About(u[i], id)
      PROVE  Follows(u[j].status, u[k].status)
  <2>0. j \in DOMAIN s /\ About(s[j], id) /\ u[j] = s[j]
    BY <1>1, <1>2, <1>20, <1>5
  <2>1. CASE k = m
    <3>1. \A i \in DOMAIN s : j < i => ~ About(s[i], id)
      BY <1>1, <1>2, <1>20, <1>5, <2>1
    <3>2. s[j].status = st
      <4>1. PICK l \in DOMAIN s : /\ About(s[l], id) /\ s[l].status = st
                                  /\ \A i \in DOMAIN s : i > l => ~ About(s[i], id)
        BY <2>0 DEF Brings
      <4>2. l = j
        BY <1>1, <2>0, <3>1, <4>1
      <4> QED BY <4>1, <4>2
    <3> QED BY <1>2, <2>0, <2>1, <3>2
  <2>2. CASE k # m
    BY <1>1, <1>2, <1>20, <1>5, <2>0, <2>2 DEF Steadily
  <2> QED BY <2>1, <2>2
<1>6. Steadily(u, id, b)
  BY <1>4, <1>5 DEF Steadily
<1> QED
  BY <1>3, <1>6 DEF u

\* Reading a first line that is about something else changes nothing.
LEMMA TailOther ==
    ASSUME NEW s \in Seq(Lines), s # << >>, NEW id, NEW b, NEW st,
           ~ About(Head(s), id), Brings(s, id, b, st), Steadily(s, id, b)
    PROVE  Brings(Tail(s), id, b, st) /\ Steadily(Tail(s), id, b)
<1> DEFINE u == Tail(s)
<1>1. /\ Len(s) \in Nat /\ Len(s) > 0 /\ DOMAIN s = 1 .. Len(s) /\ Head(s) = s[1]
      /\ DOMAIN u = 1 .. Len(s) - 1
      /\ \A i \in DOMAIN u : u[i] = s[i + 1]
  BY HeadTailProperties, LenProperties, EmptySeq
<1> HIDE DEF u
<1>2. \A k \in DOMAIN s : About(s[k], id) =>
          k - 1 \in DOMAIN u /\ u[k - 1] = s[k]
  BY <1>1
<1>3. Brings(u, id, b, st)
  <2>1. CASE \A k \in DOMAIN s : ~ About(s[k], id)
    BY <1>1, <2>1 DEF Brings
  <2>2. CASE \E k \in DOMAIN s : /\ About(s[k], id) /\ s[k].status = st
                                 /\ \A j \in DOMAIN s : j > k => ~ About(s[j], id)
    <3>1. PICK k \in DOMAIN s : /\ About(s[k], id) /\ s[k].status = st
                                /\ \A j \in DOMAIN s : j > k => ~ About(s[j], id)
      BY <2>2
    <3>2. k - 1 \in DOMAIN u /\ About(u[k - 1], id) /\ u[k - 1].status = st
      BY <1>2, <3>1
    <3>3. \A j \in DOMAIN u : j > k - 1 => ~ About(u[j], id)
      BY <1>1, <3>1
    <3> QED BY <3>2, <3>3 DEF Brings
  <2> QED BY <2>1, <2>2 DEF Brings
<1>4. ASSUME NEW k \in DOMAIN u, About(u[k], id), \A j \in DOMAIN u : j < k => ~ About(u[j], id)
      PROVE  Follows(b, u[k].status)
  <2>1. k + 1 \in DOMAIN s /\ About(s[k + 1], id) /\ s[k + 1] = u[k]
    BY <1>1, <1>4
  <2>2. \A j \in DOMAIN s : j < k + 1 => ~ About(s[j], id)
    BY <1>1, <1>2, <1>4
  <2> QED BY <2>1, <2>2 DEF Steadily
<1>5. ASSUME NEW j \in DOMAIN u, NEW k \in DOMAIN u, j < k, About(u[j], id), About(u[k], id),
             \A i \in DOMAIN u : j < i /\ i < k => ~ About(u[i], id)
      PROVE  Follows(u[j].status, u[k].status)
  <2>1. /\ k + 1 \in DOMAIN s /\ About(s[k + 1], id) /\ s[k + 1] = u[k]
        /\ j + 1 \in DOMAIN s /\ About(s[j + 1], id) /\ s[j + 1] = u[j]
        /\ j + 1 < k + 1
    BY <1>1, <1>5
  <2>2. \A i \in DOMAIN s : j + 1 < i /\ i < k + 1 => ~ About(s[i], id)
    BY <1>1, <1>2, <1>5
  <2> QED BY <2>1, <2>2 DEF Steadily
<1> QED
  BY <1>3, <1>4, <1>5 DEF Steadily, u

\* Reading a first line about the order shows its status, a legal move.
LEMMA TailAbout ==
    ASSUME NEW s \in Seq(Lines), s # << >>, NEW id, NEW b, NEW st,
           About(Head(s), id), Brings(s, id, b, st), Steadily(s, id, b)
    PROVE  /\ Brings(Tail(s), id, Head(s).status, st)
           /\ Steadily(Tail(s), id, Head(s).status)
           /\ Follows(b, Head(s).status)
<1> DEFINE u == Tail(s)
<1>1. /\ Len(s) \in Nat /\ Len(s) > 0 /\ DOMAIN s = 1 .. Len(s) /\ Head(s) = s[1]
      /\ DOMAIN u = 1 .. Len(s) - 1
      /\ \A i \in DOMAIN u : u[i] = s[i + 1]
  BY HeadTailProperties, LenProperties, EmptySeq
<1> HIDE DEF u
<1>2. \A k \in DOMAIN s : k > 1 => k - 1 \in DOMAIN u /\ u[k - 1] = s[k]
  BY <1>1
<1>3. PICK k \in DOMAIN s : /\ About(s[k], id) /\ s[k].status = st
                            /\ \A j \in DOMAIN s : j > k => ~ About(s[j], id)
  BY <1>1 DEF Brings
<1>4. Brings(u, id, s[1].status, st)
  <2>1. CASE k = 1
    <3>1. \A j \in DOMAIN u : ~ About(u[j], id)
      BY <1>1, <1>3, <2>1
    <3> QED BY <1>3, <2>1, <3>1 DEF Brings
  <2>2. CASE k # 1
    <3>1. k - 1 \in DOMAIN u /\ About(u[k - 1], id) /\ u[k - 1].status = st
      BY <1>1, <1>2, <1>3, <2>2
    <3>2. \A j \in DOMAIN u : j > k - 1 => ~ About(u[j], id)
      BY <1>1, <1>3
    <3> QED BY <3>1, <3>2 DEF Brings
  <2> QED BY <2>1, <2>2
<1>5. ASSUME NEW l \in DOMAIN u, About(u[l], id), \A j \in DOMAIN u : j < l => ~ About(u[j], id)
      PROVE  Follows(s[1].status, u[l].status)
  <2>1. l + 1 \in DOMAIN s /\ About(s[l + 1], id) /\ s[l + 1] = u[l] /\ 1 < l + 1
    BY <1>1, <1>5
  <2>2. \A i \in DOMAIN s : 1 < i /\ i < l + 1 => ~ About(s[i], id)
    BY <1>1, <1>2, <1>5
  <2> QED BY <1>1, <2>1, <2>2 DEF Steadily
<1>6. ASSUME NEW j \in DOMAIN u, NEW l \in DOMAIN u, j < l, About(u[j], id), About(u[l], id),
             \A i \in DOMAIN u : j < i /\ i < l => ~ About(u[i], id)
      PROVE  Follows(u[j].status, u[l].status)
  <2>1. /\ l + 1 \in DOMAIN s /\ About(s[l + 1], id) /\ s[l + 1] = u[l]
        /\ j + 1 \in DOMAIN s /\ About(s[j + 1], id) /\ s[j + 1] = u[j]
        /\ j + 1 < l + 1
    BY <1>1, <1>6
  <2>2. ASSUME NEW i \in DOMAIN s, j + 1 < i, i < l + 1 PROVE ~ About(s[i], id)
    <3>1. i > 1 /\ j < i - 1 /\ i - 1 < l
      BY <1>1, <1>6, <2>2
    <3> QED BY <1>2, <1>6, <3>1
  <2> QED BY <2>1, <2>2 DEF Steadily
<1>7. Follows(b, s[1].status)
  BY <1>1 DEF Steadily
<1> QED
  BY <1>1, <1>4, <1>5, <1>6, <1>7 DEF Steadily, u

-----------------------------------------------------------------------------
(* The invariant of the clients *)

Requests == [kind : {"ORDER_CREATE", "ORDER_CANCEL", "ORDER_UPDATE"}, id : Ids,
             status : Status \cup {"none"}]

SyncTypes ==
    /\ wire \in [Peers -> Seq(Lines)]
    /\ \A c \in Peers : Len(wire[c]) <= WCAP
    /\ unsent \in [Peers -> Seq(Lines)]
    /\ refused \subseteq TableClients
    /\ queue \in [Peers -> Seq(Lines)]
    /\ \A c \in Peers : Len(queue[c]) <= QCAP
    /\ mirror \in [Peers -> [Ids -> Status \cup {"none"}]]
    /\ screen \in [Peers -> {"off", "handshake", "running"}]
    /\ requests \in [Peers -> Seq(Requests)]
    /\ \A c \in Peers : Len(requests[c]) <= RCAP
    /\ lost \in [Peers -> BOOLEAN]

\* A program that does not run holds nothing.
OffInv == \A c \in Peers : screen[c] = "off" =>
    /\ wire[c] = << >> /\ unsent[c] = << >>
    /\ queue[c] = << >>
    /\ mirror[c] = Untold
    /\ ~ lost[c]

\* A snapshot is written while nobody else holds the lock, to a connection
\* that has nothing else coming.
SnapInv == \A c \in Peers :
    /\ unsent[c] # << >> => session[c] = "serving" /\ Unlocked /\ c \notin refused
    /\ c \in refused => session[c] \notin {"off", "hello", "greeted"}

\* What the server has written to c and c has not read, then what it still has
\* to write of its snapshot.
Coming(c) == wire[c] \o unsent[c]

\* What the queue and then the socket bring the screen of c is what the
\* connection has been told of the order.
OnTheWay(c, id) == \E st \in Status \cup {"none"} :
    /\ Brings(queue[c], id, mirror[c][id], st)
    /\ Steadily(queue[c], id, mirror[c][id])
    /\ Brings(Coming(c), id, st, told[c][id])
    /\ Steadily(Coming(c), id, st)

MirrorInv == \A c \in Peers, id \in Ids :
    screen[c] # "off" /\ ~ lost[c] => OnTheWay(c, id)

-----------------------------------------------------------------------------
\* What the server writes are lines.
LEMMA LineTypes ==
    ASSUME Base
    PROVE  /\ Hello \in Lines /\ Reply \in Lines
           /\ \A id \in Ids : Event(id, StatusOf(id)) \in Lines
           /\ \A i \in DOMAIN orders :
                  Event(orders[i].order_id, orders[i].status) \in Lines
<1>1. FirstId \in Ids
  BY ConstantsAssumption DEF Ids
<1>2. \A i \in DOMAIN orders : orders[i].order_id \in Ids /\ orders[i].status \in Status
  BY EntryTypes DEF Order
<1>3. \A id \in Ids : StatusOf(id) \in Status \cup {"none"}
  <2> TAKE id \in Ids
  <2>1. CASE Created(id)
    <3>1. PICK i \in DOMAIN orders : orders[i].order_id = id
      BY <2>1 DEF Created
    <3> QED BY <1>2, <3>1, Lookup DEF LookupFacts
  <2>2. CASE ~ Created(id)
    BY <2>2 DEF StatusOf
  <2> QED BY <2>1, <2>2
<1> QED
  BY <1>1, <1>2, <1>3 DEF Lines, Hello, Reply, Plain, Event

\* A snapshot is a sequence of lines; each order it shows is in it, once.
LEMMA SnapshotLines ==
    ASSUME Base, NEW c \in Peers,
           NEW at \in [1 .. Cardinality(Shown(c)) -> Shown(c)],
           \A m, n \in DOMAIN at : m < n => at[m] < at[n]
    PROVE  LET t == [n \in DOMAIN at |->
                        Event(orders[at[n]].order_id, orders[at[n]].status)]
           IN  /\ t \in Seq(Lines)
               /\ DOMAIN t = DOMAIN at
               /\ \A m, n \in DOMAIN at : at[m] = at[n] => m = n
               /\ \A i \in Shown(c) : \E n \in DOMAIN at : at[n] = i
               /\ \A n \in DOMAIN at :
                      /\ at[n] \in DOMAIN orders
                      /\ t[n] = Event(orders[at[n]].order_id, orders[at[n]].status)
<1> DEFINE t == [n \in DOMAIN at |-> Event(orders[at[n]].order_id, orders[at[n]].status)]
<1>1. DOMAIN orders = 1 .. Len(orders) /\ Len(orders) \in Nat
  BY DEF Base, TypeOK
<1>2. IsFiniteSet(Shown(c)) /\ Cardinality(Shown(c)) \in Nat
  <2>1. IsFiniteSet(DOMAIN orders)
    BY <1>1, FS_Interval
  <2>2. Shown(c) \in SUBSET DOMAIN orders
    BY DEF Shown
  <2> QED
    BY <2>1, <2>2, FS_Subset, FS_CardinalityType
<1>3. \A n \in DOMAIN at : at[n] \in Shown(c) /\ at[n] \in DOMAIN orders /\ at[n] \in Int
  BY <1>1 DEF Shown
<1>4. \A m, n \in DOMAIN at : at[m] = at[n] => m = n
  <2> TAKE m, n \in DOMAIN at
  <2>1. m \in Int /\ n \in Int
    BY <1>2
  <2>2. m < n => at[m] # at[n]
    BY <1>3
  <2>3. n < m => at[m] # at[n]
    BY <1>3
  <2> QED BY <2>1, <2>2, <2>3
<1>5. \A i \in Shown(c) : \E n \in DOMAIN at : at[n] = i
  <2> DEFINE K == 1 .. Cardinality(Shown(c))
  <2>1. at \in Injection(K, Shown(c))
    BY <1>4 DEF Injection, IsInjective
  <2>2. Cardinality(K) = Cardinality(Shown(c))
    BY <1>2, FS_Interval
  <2>3. at \in Surjection(K, Shown(c))
    <3> HIDE DEF K
    <3> QED BY <2>1, <2>2, <1>2, FS_Injection
  <2> QED BY <2>3 DEF Surjection
<1>6. t \in Seq(Lines)
  <2>1. \A n \in DOMAIN at : Event(orders[at[n]].order_id, orders[at[n]].status) \in Lines
    BY <1>3, LineTypes
  <2>2. DOMAIN at = 1 .. Cardinality(Shown(c))
    OBVIOUS
  <2> QED BY <2>1, <2>2, <1>2
<1> QED
  BY <1>3, <1>4, <1>5, <1>6

\* write_all adds a line to the socket of one client, if that client runs and
\* the socket has room.
LEMMA SendTypes ==
    ASSUME SyncTypes, NEW c \in Peers, NEW line \in Lines, SendLine(c, line)
    PROVE  /\ <<line>> \in Seq(Lines)
           /\ wire' \in [Peers -> Seq(Lines)]
           /\ \A d \in Peers : Len(wire'[d]) <= WCAP
           /\ \A d \in Peers : d # c => wire'[d] = wire[d]
           /\ screen[c] = "off" => wire' = wire
           /\ screen[c] # "off" => wire'[c] = wire[c] \o <<line>>
<1>1. /\ <<line>> \in Seq(Lines) /\ wire[c] \in Seq(Lines)
      /\ Append(wire[c], line) = wire[c] \o <<line>>
      /\ Append(wire[c], line) \in Seq(Lines)
      /\ Len(Append(wire[c], line)) = Len(wire[c]) + 1 /\ Len(wire[c]) \in Nat
  BY AppendIsConcat, AppendProperties, LenProperties DEF SyncTypes
<1>2. CASE screen[c] = "off"
  BY <1>1, <1>2 DEF SendLine, Write, SyncTypes
<1>3. CASE screen[c] # "off"
  <2>1. wire' = [wire EXCEPT ![c] = Append(wire[c], line)] /\ Len(wire[c]) < WCAP
    BY <1>3 DEF SendLine, Write, CanWrite
  <2>2. Len(Append(wire[c], line)) <= WCAP
    BY <1>1, <2>1, SyncAssumption
  <2> QED BY <1>1, <1>3, <2>1, <2>2 DEF SyncTypes
<1> QED
  BY <1>2, <1>3

\* The invariants hold at first.
LEMMA SyncInitTypes == SyncInit => SyncTypes /\ OffInv /\ SnapInv /\ MirrorInv
<1> SUFFICES ASSUME SyncInit PROVE SyncTypes /\ OffInv /\ SnapInv /\ MirrorInv
  OBVIOUS
<1>1. SyncTypes
  BY SyncAssumption, EmptySeq DEF SyncInit, SyncTypes, Untold
<1>2. OffInv
  BY DEF SyncInit, OffInv
<1>3. MirrorInv
  BY DEF SyncInit, MirrorInv
<1>4. SnapInv
  BY DEF SyncInit, SnapInv
<1> QED BY <1>1, <1>2, <1>3, <1>4

\* Every step keeps the types.
LEMMA SyncNextTypes == Base /\ SyncTypes /\ [SyncNext]_syncVars => SyncTypes'
<1> SUFFICES ASSUME Base, SyncTypes, [SyncNext]_syncVars PROVE SyncTypes'
  OBVIOUS
<1>1. ASSUME NEW c \in Peers, Connect(c) PROVE SyncTypes'
  BY <1>1 DEF Connect, serverVars, SyncTypes
<1>2. ASSUME NEW c \in Peers, Greet(c) PROVE SyncTypes'
  BY <1>2, SendTypes, LineTypes DEF Greet, serverVars, SyncTypes
<1>3. ASSUME NEW c \in Peers, Register(c) PROVE SyncTypes'
  <2>1. PICK at \in [1 .. Cardinality(Shown(c)) -> Shown(c)] :
            /\ \A m, n \in DOMAIN at : m < n => at[m] < at[n]
            /\ unsent' = [unsent EXCEPT ![c] =
                   IF screen[c] = "off" THEN << >>
                   ELSE [n \in DOMAIN at |->
                            Event(orders[at[n]].order_id, orders[at[n]].status)]]
    BY <1>3 DEF Register
  <2> DEFINE t == [n \in DOMAIN at |-> Event(orders[at[n]].order_id, orders[at[n]].status)]
  <2>2. t \in Seq(Lines) /\ << >> \in Seq(Lines)
    BY <2>1, SnapshotLines, EmptySeq
  <2>3. unsent' = [unsent EXCEPT ![c] = IF screen[c] = "off" THEN << >> ELSE t]
    BY <2>1
  <2> HIDE DEF t
  <2>4. unsent' \in [Peers -> Seq(Lines)]
    BY <2>2, <2>3 DEF SyncTypes
  <2> QED BY <1>3, <2>4 DEF Register, clientVars, SyncTypes
<1>15. ASSUME NEW c \in Peers, WriteSnapshot(c) PROVE SyncTypes'
  <2>1. unsent[c] \in Seq(Lines) /\ unsent[c] # << >>
    BY <1>15 DEF WriteSnapshot, SyncTypes
  <2>2. Head(unsent[c]) \in Lines /\ Tail(unsent[c]) \in Seq(Lines)
    BY <2>1, HeadTailProperties
  <2>3. wire' \in [Peers -> Seq(Lines)] /\ \A d \in Peers : Len(wire'[d]) <= WCAP
    BY <1>15, <2>2, SendTypes DEF WriteSnapshot
  <2> QED BY <1>15, <2>2, <2>3 DEF WriteSnapshot, SyncTypes
<1>4. ASSUME NEW c \in Peers, Leave(c) PROVE SyncTypes'
  BY <1>4 DEF Leave, serverVars, clientVars, SyncTypes
<1>5. ASSUME NEW c \in Peers, NEW kind, NextRequest(c, kind)
      PROVE  /\ requests' \in [Peers -> Seq(Requests)]
             /\ \A d \in Peers : Len(requests'[d]) <= RCAP
  <2>1. /\ requests[c] \in Seq(Requests) /\ requests[c] # << >>
        /\ requests' = [requests EXCEPT ![c] = Tail(requests[c])]
    BY <1>5 DEF NextRequest, SyncTypes
  <2>2. Tail(requests[c]) \in Seq(Requests) /\ Len(Tail(requests[c])) <= Len(requests[c])
        /\ Len(requests[c]) \in Nat /\ Len(Tail(requests[c])) \in Nat
    BY <2>1, HeadTailProperties, LenProperties, EmptySeq
  <2>3. Len(Tail(requests[c])) <= RCAP
    BY <2>2, SyncAssumption DEF SyncTypes
  <2> QED BY <2>1, <2>2, <2>3 DEF SyncTypes
<1>6. ASSUME NEW c \in Peers, Serve(c) PROVE SyncTypes'
  <2>1. \E kind : NextRequest(c, kind)
    BY <1>6 DEF Serve
  <2> QED BY <1>5, <1>6, <2>1 DEF Serve, serverVars, SyncTypes
<1>7. ASSUME NEW c \in Peers, Refuse(c) PROVE SyncTypes'
  <2>1. \E kind : NextRequest(c, kind)
    BY <1>7 DEF Refuse
  <2>2. refused' \subseteq TableClients
    BY <1>7 DEF Refuse, SyncTypes
  <2> QED BY <1>5, <1>7, <2>1, <2>2 DEF Refuse, SyncTypes
<1>16. ASSUME NEW c \in Peers, WriteRefusal(c) PROVE SyncTypes'
  BY <1>16, SendTypes, LineTypes DEF WriteRefusal, SyncTypes
<1>8. ASSUME NEW c \in Peers, AnswerRequest(c) PROVE SyncTypes'
  BY <1>8, SendTypes, LineTypes DEF AnswerRequest, serverVars, SyncTypes
<1>9. ASSUME NEW c \in Peers, ReadLine(c) PROVE SyncTypes'
  <2>1. wire[c] \in Seq(Lines) /\ wire[c] # << >> /\ queue[c] \in Seq(Lines)
    BY <1>9 DEF ReadLine, serverVars, SyncTypes
  <2>2. Head(wire[c]) \in Lines /\ Tail(wire[c]) \in Seq(Lines)
    BY <2>1, HeadTailProperties
  <2>3. wire' \in [Peers -> Seq(Lines)] /\ \A d \in Peers : Len(wire'[d]) <= WCAP
    <3>1. Len(Tail(wire[c])) = Len(wire[c]) - 1 /\ Len(wire[c]) \in Nat /\ Len(wire[c]) <= WCAP
      BY <2>1, HeadTailProperties, LenProperties DEF SyncTypes
    <3>2. Len(Tail(wire[c])) <= WCAP
      BY <3>1, SyncAssumption
    <3> QED BY <1>9, <2>2, <3>2 DEF ReadLine, serverVars, SyncTypes
  <2>4. CASE /\ ~ NoRoom(c)
             /\ queue' = [queue EXCEPT ![c] = Append(@, Head(wire[c]))]
             /\ UNCHANGED lost
    <3>1. Append(queue[c], Head(wire[c])) \in Seq(Lines)
          /\ Len(Append(queue[c], Head(wire[c]))) = Len(queue[c]) + 1
      BY <2>1, <2>2, AppendProperties
    <3>2. Len(queue[c]) + 1 <= QCAP
      BY <2>1, <2>4, LenProperties, SyncAssumption DEF NoRoom
    <3> QED BY <1>9, <2>3, <2>4, <3>1, <3>2 DEF ReadLine, serverVars, SyncTypes
  <2>5. CASE /\ lost' = [lost EXCEPT ![c] = @ \/ Head(wire[c]).kind # "REPLY"]
             /\ UNCHANGED queue
    <3>1. (lost[c] \/ Head(wire[c]).kind # "REPLY") \in BOOLEAN
      BY DEF SyncTypes
    <3>2. lost' \in [Peers -> BOOLEAN]
      BY <2>5, <3>1 DEF SyncTypes
    <3> QED BY <1>9, <2>3, <2>5, <3>2 DEF ReadLine, serverVars, SyncTypes
  <2> QED BY <1>9, <2>4, <2>5 DEF ReadLine
<1>10. ASSUME NEW c \in Peers, PopLine(c) PROVE SyncTypes'
  <2>1. queue[c] \in Seq(Lines) /\ queue[c] # << >>
    BY <1>10 DEF PopLine, SyncTypes
  <2>2. /\ Head(queue[c]) \in Lines /\ Tail(queue[c]) \in Seq(Lines)
        /\ Len(Tail(queue[c])) \in Nat /\ Len(queue[c]) \in Nat
        /\ Len(Tail(queue[c])) <= Len(queue[c])
    BY <2>1, HeadTailProperties, LenProperties, EmptySeq
  <2>3. Len(Tail(queue[c])) <= QCAP
    BY <2>2, SyncAssumption DEF SyncTypes
  <2>4. Merged(mirror[c], Head(queue[c])) \in [Ids -> Status \cup {"none"}]
    BY <2>2 DEF Merged, Lines, SyncTypes
  <2> QED BY <1>10, <2>2, <2>3, <2>4 DEF PopLine, serverVars, SyncTypes
<1>11. ASSUME NEW c \in Peers, PressKey(c) PROVE SyncTypes'
  <2>1. PICK rq \in Asks(c) : requests' = [requests EXCEPT ![c] = Append(@, rq)]
    BY <1>11 DEF PressKey
  <2>2. rq \in Requests
    <3>1. FirstId \in Ids
      BY ConstantsAssumption DEF Ids
    <3>2. \A st : KitchenAsks(st) \subseteq Status
      BY DEF KitchenAsks, Status
    <3> QED BY <2>1, <3>1, <3>2 DEF Asks, Requests, Request
  <2>3. /\ Append(requests[c], rq) \in Seq(Requests)
        /\ Len(Append(requests[c], rq)) = Len(requests[c]) + 1
        /\ Len(requests[c]) \in Nat
    BY <2>2, AppendProperties, LenProperties DEF SyncTypes
  <2>4. Len(requests[c]) + 1 <= RCAP
    BY <1>11, <2>3, SyncAssumption DEF PressKey
  <2> QED BY <1>11, <2>1, <2>3, <2>4 DEF PressKey, serverVars, SyncTypes
<1>12. ASSUME NEW c \in Peers, Quit(c) PROVE SyncTypes'
  BY <1>12, EmptySeq, SyncAssumption DEF Quit, SyncTypes, Untold
<1>13. CASE PosStep \/ LockStep \/ UNCHANGED syncVars
  BY <1>13 DEF PosStep, LockStep, serverVars, clientVars, syncVars, SyncTypes
<1>14. CASE Broadcast
  <2>1. wire' \in [Peers -> Seq(Lines)] /\ \A d \in Peers : Len(wire'[d]) <= WCAP
    <3>1. lock.id \in Ids
      BY DEF Base, TypeOK, Locks
    <3> QED BY <1>14, <3>1, SendTypes, LineTypes DEF Broadcast, SyncTypes
  <2> QED BY <1>14, <2>1 DEF Broadcast, serverVars, SyncTypes
<1> QED
  BY <1>1, <1>2, <1>3, <1>4, <1>6, <1>7, <1>8, <1>9, <1>10, <1>11, <1>12, <1>13, <1>14, <1>15, <1>16
     DEF SyncNext

-----------------------------------------------------------------------------
\* A program that has ended stays empty: what it is sent is gone.
LEMMA NextOff == Base /\ SyncTypes /\ OffInv /\ [SyncNext]_syncVars => OffInv'
<1> SUFFICES ASSUME Base, SyncTypes, OffInv, [SyncNext]_syncVars,
                    NEW d \in Peers, screen'[d] = "off"
             PROVE  /\ wire'[d] = << >> /\ unsent'[d] = << >>
                    /\ queue'[d] = << >> /\ mirror'[d] = Untold /\ ~ lost'[d]
  BY DEF OffInv
<1> DEFINE Goal == /\ wire'[d] = << >> /\ unsent'[d] = << >>
                   /\ queue'[d] = << >> /\ mirror'[d] = Untold /\ ~ lost'[d]
<1>0. ASSUME screen[d] = "off", wire'[d] = wire[d], unsent'[d] = unsent[d], queue'[d] = queue[d], mirror'[d] = mirror[d],
             lost'[d] = lost[d]
      PROVE  Goal
  BY <1>0 DEF OffInv
<1>1. ASSUME NEW c \in Peers, Connect(c) PROVE Goal
  BY <1>0, <1>1 DEF Connect, serverVars, SyncTypes
<1>2. ASSUME NEW c \in Peers, Greet(c) \/ AnswerRequest(c) PROVE Goal
  <2>1. wire'[d] = wire[d]
    BY <1>2, SendTypes, LineTypes DEF Greet, AnswerRequest
  <2> QED BY <1>0, <1>2, <2>1 DEF Greet, AnswerRequest, serverVars
<1>3. ASSUME NEW c \in Peers, Register(c) PROVE Goal
  <2>1. screen[d] = "off" /\ wire'[d] = wire[d] /\ queue'[d] = queue[d]
        /\ mirror'[d] = mirror[d] /\ lost'[d] = lost[d]
    BY <1>3 DEF Register, clientVars
  <2>2. \E x : unsent' = [unsent EXCEPT ![c] = IF screen[c] = "off" THEN << >> ELSE x]
    BY <1>3 DEF Register
  <2>3. unsent[d] = << >>
    BY <2>1 DEF OffInv
  <2>4. unsent'[d] = unsent[d]
    BY <2>1, <2>2, <2>3 DEF SyncTypes
  <2> QED BY <1>0, <2>1, <2>4
<1>11. ASSUME NEW c \in Peers, WriteSnapshot(c) PROVE Goal
  <2>1. screen[d] = "off" /\ queue'[d] = queue[d] /\ mirror'[d] = mirror[d] /\ lost'[d] = lost[d]
    BY <1>11 DEF WriteSnapshot
  <2>2. d # c
    BY <1>11, <2>1 DEF WriteSnapshot, OffInv
  <2>3. Head(unsent[c]) \in Lines
    <3>1. unsent[c] \in Seq(Lines) /\ unsent[c] # << >>
      BY <1>11 DEF WriteSnapshot, SyncTypes
    <3> QED BY <3>1, HeadTailProperties
  <2>4. wire'[d] = wire[d]
    BY <1>11, <2>2, <2>3, SendTypes DEF WriteSnapshot
  <2>5. unsent'[d] = unsent[d]
    BY <1>11, <2>2 DEF WriteSnapshot, SyncTypes
  <2> QED BY <1>0, <2>1, <2>4, <2>5
<1>4. ASSUME NEW c \in Peers, Leave(c) \/ Serve(c) \/ PressKey(c) PROVE Goal
  BY <1>0, <1>4 DEF Leave, Serve, PressKey, serverVars, clientVars
<1>5. ASSUME NEW c \in Peers, Refuse(c) PROVE Goal
  BY <1>0, <1>5 DEF Refuse
<1>12. ASSUME NEW c \in Peers, WriteRefusal(c) PROVE Goal
  <2>1. wire'[d] = wire[d]
    BY <1>12, SendTypes, LineTypes DEF WriteRefusal
  <2> QED BY <1>0, <1>12, <2>1 DEF WriteRefusal
<1>6. ASSUME NEW c \in Peers, ReadLine(c) PROVE Goal
  <2>1. d # c /\ wire'[d] = wire[d] /\ queue'[d] = queue[d] /\ lost'[d] = lost[d]
    BY <1>6 DEF ReadLine, SyncTypes
  <2> QED BY <1>0, <1>6, <2>1 DEF ReadLine, serverVars
<1>7. ASSUME NEW c \in Peers, PopLine(c) PROVE Goal
  <2>1. d # c
    BY <1>7 DEF PopLine, SyncTypes
  <2> QED BY <1>0, <1>7, <2>1 DEF PopLine, serverVars, SyncTypes
<1>8. ASSUME NEW c \in Peers, Quit(c) PROVE Goal
  <2>1. CASE d = c
    BY <1>8, <2>1 DEF Quit, SyncTypes
  <2>2. CASE d # c
    BY <1>0, <1>8, <2>2 DEF Quit, SyncTypes
  <2> QED BY <2>1, <2>2
<1>9. CASE PosStep \/ LockStep \/ UNCHANGED syncVars
  BY <1>0, <1>9 DEF PosStep, LockStep, serverVars, clientVars, syncVars
<1>10. CASE Broadcast
  <2>0. lock.id \in Ids
    BY DEF Base, TypeOK, Locks
  <2>1. wire'[d] = wire[d]
    BY <1>10, <2>0, SendTypes, LineTypes DEF Broadcast
  <2> QED BY <1>0, <1>10, <2>1 DEF Broadcast, serverVars
<1> QED
  BY <1>1, <1>2, <1>3, <1>4, <1>5, <1>6, <1>7, <1>8, <1>9, <1>10, <1>11, <1>12
     DEF SyncNext

-----------------------------------------------------------------------------
\* While a snapshot is being written nobody else holds the lock, and its
\* connection has nothing else coming.
LEMMA NextSnap == Base /\ SyncTypes /\ SnapInv /\ [SyncNext]_syncVars => SnapInv'
<1> SUFFICES ASSUME Base, SyncTypes, SnapInv, [SyncNext]_syncVars, NEW d \in Peers
             PROVE  /\ unsent'[d] # << >> => session'[d] = "serving" /\ Unlocked' /\ d \notin refused'
                    /\ d \in refused' => session'[d] \notin {"off", "hello", "greeted"}
  BY DEF SnapInv
<1> DEFINE Goal == /\ unsent'[d] # << >> => session'[d] = "serving" /\ Unlocked' /\ d \notin refused'
                   /\ d \in refused' => session'[d] \notin {"off", "hello", "greeted"}
<1>0. /\ session \in [Peers -> SessionState]
      /\ unsent[d] # << >> => session[d] = "serving" /\ Unlocked /\ d \notin refused
      /\ d \in refused => session[d] \notin {"off", "hello", "greeted"}
  BY DEF Base, TypeOK, SnapInv
<1>1. ASSUME UNCHANGED <<unsent, refused, lock>>, session'[d] = session[d] PROVE Goal
  BY <1>0, <1>1 DEF Unlocked
<1>2. ASSUME NEW c \in Peers, Connect(c) \/ Greet(c) \/ AnswerRequest(c) PROVE Goal
  <2>1. UNCHANGED <<unsent, refused, lock>> /\ session[c] \in {"off", "hello", "replying"}
        /\ \E st \in SessionState : /\ session' = [session EXCEPT ![c] = st]
                                    /\ session[c] = "replying" => st = "serving"
    BY <1>2 DEF Connect, Greet, AnswerRequest, serverVars, server_accept_loop,
                client_thread_hello, write_reply, SessionState
  <2>2. CASE d # c
    BY <1>0, <1>1, <2>1, <2>2
  <2>3. CASE d = c
    BY <1>0, <2>1, <2>3
  <2> QED BY <2>2, <2>3
<1>3. ASSUME NEW c \in Peers, Register(c) PROVE Goal
  <2>1. /\ Unlocked /\ unsent[d] = << >> /\ session[c] = "greeted" /\ UNCHANGED <<refused, lock>>
        /\ session' = [session EXCEPT ![c] = "serving"]
        /\ \E x : unsent' = [unsent EXCEPT ![c] = x]
    BY <1>3 DEF Register, LockFree, client_thread_register
  <2>2. CASE d # c
    BY <1>0, <2>1, <2>2 DEF SyncTypes
  <2>3. CASE d = c
    BY <1>0, <2>1, <2>3 DEF Unlocked
  <2> QED BY <2>2, <2>3
<1>4. ASSUME NEW c \in Peers, WriteSnapshot(c) PROVE Goal
  <2>1. /\ UNCHANGED <<refused, lock, session>> /\ unsent[c] # << >>
        /\ \E x : unsent' = [unsent EXCEPT ![c] = x]
    BY <1>4 DEF WriteSnapshot, vars
  <2>2. unsent'[d] # << >> => unsent[d] # << >>
    BY <2>1 DEF SyncTypes
  <2> QED BY <1>0, <2>1, <2>2 DEF Unlocked
<1>5. ASSUME NEW c \in Peers, Leave(c) PROVE Goal
  <2>1. /\ unsent[d] = << >> /\ c \notin refused /\ UNCHANGED <<unsent, refused, lock>>
        /\ session' = [session EXCEPT ![c] = "off"]
    BY <1>5 DEF Leave, LockFree, serverVars, client_thread_leave
  <2> QED BY <1>0, <2>1
<1>6. ASSUME NEW c \in Peers, Serve(c) PROVE Goal
  <2>1. /\ unsent[d] = << >> /\ c \notin refused /\ UNCHANGED <<unsent, refused>>
        /\ session' = [session EXCEPT ![c] = "busy"]
    BY <1>6 DEF Serve, NextRequest, LockFree, serverVars, handle_order_create_client,
                server_cancel_order, server_update_order_status
  <2> QED BY <1>0, <2>1
<1>7. ASSUME NEW c \in Peers, Refuse(c) PROVE Goal
  <2>1. /\ unsent[d] = << >> /\ session[c] = "serving" /\ UNCHANGED <<unsent, session>>
        /\ refused' = refused \cup {c} \/ refused' = refused
    BY <1>7 DEF Refuse, NextRequest, LockFree, vars
  <2> QED BY <1>0, <2>1
<1>8. ASSUME NEW c \in Peers, WriteRefusal(c) PROVE Goal
  <2>1. UNCHANGED <<unsent, session, lock>> /\ refused' = refused \ {c}
    BY <1>8 DEF WriteRefusal, vars
  <2> QED BY <1>0, <2>1 DEF Unlocked
<1>9. ASSUME NEW c \in Peers, ReadLine(c) \/ PopLine(c) \/ PressKey(c) PROVE Goal
  BY <1>1, <1>9 DEF ReadLine, PopLine, PressKey, serverVars, vars
<1>10. ASSUME NEW c \in Peers, Quit(c) PROVE Goal
  <2>1. /\ UNCHANGED <<refused, lock, session>>
        /\ unsent' = [unsent EXCEPT ![c] = << >>]
    BY <1>10 DEF Quit, vars
  <2>2. unsent'[d] # << >> => unsent[d] # << >>
    BY <2>1 DEF SyncTypes
  <2> QED BY <1>0, <2>1, <2>2 DEF Unlocked
<1>11. CASE PosStep
  <2>1. unsent[d] = << >> /\ UNCHANGED <<unsent, refused, session>>
    BY <1>11 DEF PosStep, LockFree, serverVars, server_pay_order, Pay
  <2> QED BY <1>0, <2>1
<1>12. CASE LockStep
  <2>1. ~ Unlocked /\ UNCHANGED <<unsent, refused>>
        /\ \/ UNCHANGED session
           \/ session' = [x \in Peers |->
                  IF x # lock.by THEN session[x]
                  ELSE IF x \in TableClients THEN "replying" ELSE "serving"]
    BY <1>12 DEF LockStep, serverVars, append_sales_meta, server_unlock, Unlocked
  <2>2. unsent'[d] = << >>
    BY <1>0, <2>1
  <2>3. session'[d] \in {session[d], "replying", "serving"}
    BY <2>1
  <2> QED BY <1>0, <2>1, <2>2, <2>3
<1>13. CASE Broadcast
  <2>1. ~ Unlocked /\ UNCHANGED <<unsent, refused, session>>
    BY <1>13 DEF Broadcast, serverVars, broadcast_raw, Unlocked
  <2> QED BY <1>0, <2>1
<1>14. CASE UNCHANGED syncVars
  BY <1>1, <1>14 DEF syncVars, serverVars, vars
<1> QED
  BY <1>2, <1>3, <1>4, <1>5, <1>6, <1>7, <1>8, <1>9, <1>10, <1>11, <1>12, <1>13, <1>14
     DEF SyncNext

-----------------------------------------------------------------------------
\* A sequence that is not empty lends its head to what is put behind it.
LEMMA HeadFirst ==
    ASSUME NEW S, NEW s \in Seq(S), NEW t \in Seq(S), s # << >>
    PROVE  /\ s \o t # << >> /\ s \o t \in Seq(S)
           /\ Head(s \o t) = Head(s) /\ Tail(s \o t) = Tail(s) \o t
<1> DEFINE h == <<Head(s)>>
           u == Tail(s)
<1>1. Head(s) \in S /\ u \in Seq(S) /\ h \in Seq(S)
  BY HeadTailProperties
<1>2. s = h \o u
  BY <1>1, HeadTailProperties
<1> QED BY <1>1, <1>2

\* What is coming is lines.
LEMMA ComingTypes ==
    ASSUME SyncTypes, NEW c \in Peers
    PROVE  /\ wire[c] \in Seq(Lines) /\ unsent[c] \in Seq(Lines) /\ Coming(c) \in Seq(Lines)
           /\ unsent[c] = << >> => Coming(c) = wire[c]
<1>1. wire[c] \in Seq(Lines) /\ unsent[c] \in Seq(Lines)
  BY DEF SyncTypes
<1> QED BY <1>1, ConcatProperties, ConcatEmptySeq DEF Coming

\* The reader takes the first line of what is coming.
LEMMA FirstIsRead ==
    ASSUME SyncTypes, NEW c \in Peers, wire[c] # << >>,
           wire'[c] = Tail(wire[c]), unsent'[c] = unsent[c]
    PROVE  /\ Coming(c) \in Seq(Lines) /\ Coming(c) # << >>
           /\ Head(Coming(c)) = Head(wire[c]) /\ Coming(c)' = Tail(Coming(c))
<1> DEFINE w == wire[c]
           u == unsent[c]
<1>1. w \in Seq(Lines) /\ u \in Seq(Lines)
  BY ComingTypes
<1>2. /\ w \o u # << >> /\ w \o u \in Seq(Lines)
      /\ Head(w \o u) = Head(w) /\ Tail(w \o u) = Tail(w) \o u
  <2> HIDE DEF w, u
  <2>1. w # << >>
    BY DEF w
  <2> QED BY <1>1, <2>1, HeadFirst
<1>3. Coming(c) = w \o u /\ Coming(c)' = Tail(w) \o u
  BY DEF Coming
<1> HIDE DEF w, u
<1> QED BY <1>2, <1>3 DEF w

\* Lines are added at the end of what is coming; those about the order say what
\* the connection is told.
LEMMA Sent ==
    ASSUME SyncTypes, NEW c \in Peers, NEW id \in Ids, OnTheWay(c, id),
           told \in [Peers -> [Ids -> Status \cup {"none"}]],
           NEW t \in Seq(Lines), Coming(c)' = Coming(c) \o t,
           queue'[c] = queue[c], mirror'[c] = mirror[c],
           \/ /\ \A k \in DOMAIN t : ~ About(t[k], id)
              /\ told'[c][id] = told[c][id]
           \/ \E n \in DOMAIN t :
                  /\ About(t[n], id)
                  /\ \A k \in DOMAIN t : About(t[k], id) => k = n
                  /\ t[n].status = told'[c][id]
                  /\ Follows(told[c][id], t[n].status)
    PROVE  OnTheWay(c, id)'
<1>1. PICK st \in Status \cup {"none"} :
          /\ Brings(queue[c], id, mirror[c][id], st)
          /\ Steadily(queue[c], id, mirror[c][id])
          /\ Brings(Coming(c), id, st, told[c][id])
          /\ Steadily(Coming(c), id, st)
  BY DEF OnTheWay
<1>2. Coming(c) \in Seq(Lines)
  BY ComingTypes
<1>3. Brings(Coming(c) \o t, id, st, told'[c][id]) /\ Steadily(Coming(c) \o t, id, st)
  <2>1. CASE /\ \A k \in DOMAIN t : ~ About(t[k], id)
             /\ told'[c][id] = told[c][id]
    BY <1>1, <1>2, <2>1, ConcatOther
  <2>2. CASE \E n \in DOMAIN t :
                  /\ About(t[n], id)
                  /\ \A k \in DOMAIN t : About(t[k], id) => k = n
                  /\ t[n].status = told'[c][id]
                  /\ Follows(told[c][id], t[n].status)
    BY <1>1, <1>2, <2>2, ConcatOnce
  <2> QED BY <2>1, <2>2
<1> QED
  BY <1>1, <1>3 DEF OnTheWay

\* The same when the lines go into the socket, and no snapshot is being written.
LEMMA SentToWire ==
    ASSUME SyncTypes, NEW c \in Peers, NEW t \in Seq(Lines),
           wire'[c] = wire[c] \o t, unsent[c] = << >>, unsent'[c] = << >>
    PROVE  Coming(c)' = Coming(c) \o t
<1>1. wire[c] \o t \in Seq(Lines) /\ Coming(c) = wire[c]
  BY ComingTypes, ConcatProperties
<1>2. (wire[c] \o t) \o << >> = wire[c] \o t
  BY <1>1, ConcatEmptySeq
<1> QED BY <1>1, <1>2 DEF Coming

\* One line that is not about an order.
LEMMA SentPlain ==
    ASSUME SyncTypes, NEW c \in Peers, NEW id \in Ids, OnTheWay(c, id),
           told \in [Peers -> [Ids -> Status \cup {"none"}]],
           NEW line \in Lines, line.kind # "ORDER_EVENT",
           wire'[c] = wire[c] \o <<line>>, unsent[c] = << >>, unsent'[c] = << >>,
           queue'[c] = queue[c], mirror'[c] = mirror[c], told'[c][id] = told[c][id]
    PROVE  OnTheWay(c, id)'
<1>1. \A k \in DOMAIN <<line>> : ~ About(<<line>>[k], id)
  BY DEF About
<1>2. <<line>> \in Seq(Lines)
  OBVIOUS
<1>3. Coming(c)' = Coming(c) \o <<line>>
  BY <1>2, SentToWire
<1> QED BY <1>1, <1>2, <1>3, Sent

\* The reader moves the first line of the wire to the end of the queue.
LEMMA Queued ==
    ASSUME SyncTypes, NEW c \in Peers, NEW id \in Ids, OnTheWay(c, id),
           wire[c] # << >>, wire'[c] = Tail(wire[c]), unsent'[c] = unsent[c],
           queue'[c] = Append(queue[c], Head(wire[c])),
           mirror'[c] = mirror[c], told'[c] = told[c]
    PROVE  OnTheWay(c, id)'
<1> DEFINE line == Head(wire[c])
           t == <<line>>
<1>0. /\ wire[c] \in Seq(Lines) /\ queue[c] \in Seq(Lines)
      /\ Coming(c) \in Seq(Lines) /\ Coming(c) # << >> /\ Head(Coming(c)) = line
      /\ Coming(c)' = Tail(Coming(c))
  BY ComingTypes, FirstIsRead DEF SyncTypes
<1>1. line \in Lines
  BY <1>0, HeadTailProperties
<1>2. t \in Seq(Lines) /\ DOMAIN t = {1} /\ t[1] = line /\ queue'[c] = queue[c] \o t
  BY SMTT(20), <1>0, <1>1, AppendIsConcat
<1>3. PICK st \in Status \cup {"none"} :
          /\ Brings(queue[c], id, mirror[c][id], st)
          /\ Steadily(queue[c], id, mirror[c][id])
          /\ Brings(Coming(c), id, st, told[c][id])
          /\ Steadily(Coming(c), id, st)
  BY DEF OnTheWay
<1>4. CASE About(line, id)
  <2>1. /\ Brings(Tail(Coming(c)), id, line.status, told[c][id])
        /\ Steadily(Tail(Coming(c)), id, line.status)
        /\ Follows(st, line.status)
    BY <1>0, <1>3, <1>4, TailAbout
  <2>2. /\ Brings(queue[c] \o t, id, mirror[c][id], line.status)
        /\ Steadily(queue[c] \o t, id, mirror[c][id])
    <3> HIDE DEF t, line
    <3>1. /\ 1 \in DOMAIN t /\ About(t[1], id) /\ t[1].status = line.status
          /\ \A k \in DOMAIN t : About(t[k], id) => k = 1
      BY <1>2, <1>4
    <3>2. Follows(st, t[1].status)
      BY <2>1, <3>1
    <3> QED BY <1>0, <1>2, <1>3, <3>1, <3>2, ConcatOnce
  <2>3. line.status \in Status \cup {"none"}
    BY <1>1 DEF Lines
  <2> HIDE DEF t, line
  <2> QED BY <1>0, <1>2, <2>1, <2>2, <2>3 DEF OnTheWay
<1>5. CASE ~ About(line, id)
  <2>1. /\ Brings(Tail(Coming(c)), id, st, told[c][id])
        /\ Steadily(Tail(Coming(c)), id, st)
    BY <1>0, <1>3, <1>5, TailOther
  <2>2. /\ Brings(queue[c] \o t, id, mirror[c][id], st)
        /\ Steadily(queue[c] \o t, id, mirror[c][id])
    <3> HIDE DEF t, line
    <3> QED BY <1>0, <1>2, <1>3, <1>5, ConcatOther
  <2> HIDE DEF t, line
  <2> QED BY <1>0, <1>2, <2>1, <2>2 DEF OnTheWay
<1> QED BY <1>4, <1>5

\* A reply for which the queue has no room is of no account.
LEMMA Dropped ==
    ASSUME SyncTypes, NEW c \in Peers, NEW id \in Ids, OnTheWay(c, id),
           wire[c] # << >>, wire'[c] = Tail(wire[c]), Head(wire[c]).kind = "REPLY",
           unsent'[c] = unsent[c],
           queue'[c] = queue[c], mirror'[c] = mirror[c], told'[c] = told[c]
    PROVE  OnTheWay(c, id)'
<1>0. /\ Coming(c) \in Seq(Lines) /\ Coming(c) # << >> /\ Coming(c)' = Tail(Coming(c))
      /\ ~ About(Head(Coming(c)), id)
  BY FirstIsRead DEF About
<1>1. PICK st \in Status \cup {"none"} :
          /\ Brings(queue[c], id, mirror[c][id], st)
          /\ Steadily(queue[c], id, mirror[c][id])
          /\ Brings(Coming(c), id, st, told[c][id])
          /\ Steadily(Coming(c), id, st)
  BY DEF OnTheWay
<1>2. Brings(Tail(Coming(c)), id, st, told[c][id]) /\ Steadily(Tail(Coming(c)), id, st)
  BY <1>0, <1>1, TailOther
<1> QED
  BY <1>0, <1>1, <1>2 DEF OnTheWay

\* The screen takes the first line of its queue, and moves legally.
LEMMA Popped ==
    ASSUME SyncTypes, NEW c \in Peers, NEW id \in Ids, OnTheWay(c, id),
           queue[c] # << >>, queue'[c] = Tail(queue[c]), wire'[c] = wire[c],
           unsent'[c] = unsent[c],
           mirror'[c] = Merged(mirror[c], Head(queue[c])), told'[c] = told[c]
    PROVE  /\ OnTheWay(c, id)'
           /\ Follows(mirror[c][id], mirror'[c][id])
<1> DEFINE line == Head(queue[c])
<1>0. queue[c] \in Seq(Lines) /\ mirror[c] \in [Ids -> Status \cup {"none"}]
  BY DEF SyncTypes
<1>1. PICK st \in Status \cup {"none"} :
          /\ Brings(queue[c], id, mirror[c][id], st)
          /\ Steadily(queue[c], id, mirror[c][id])
          /\ Brings(Coming(c), id, st, told[c][id])
          /\ Steadily(Coming(c), id, st)
  BY DEF OnTheWay
<1>4. Coming(c)' = Coming(c)
  BY DEF Coming
<1>2. CASE About(line, id)
  <2>1. mirror'[c][id] = line.status
    BY <1>0, <1>2 DEF Merged, About
  <2>2. /\ Brings(Tail(queue[c]), id, line.status, st)
        /\ Steadily(Tail(queue[c]), id, line.status)
        /\ Follows(mirror[c][id], line.status)
    BY <1>0, <1>1, <1>2, TailAbout
  <2> QED BY <1>1, <1>4, <2>1, <2>2 DEF OnTheWay
<1>3. CASE ~ About(line, id)
  <2>1. mirror'[c][id] = mirror[c][id]
    BY <1>0, <1>3 DEF Merged, About
  <2>2. /\ Brings(Tail(queue[c]), id, mirror[c][id], st)
        /\ Steadily(Tail(queue[c]), id, mirror[c][id])
    BY <1>0, <1>1, <1>3, TailOther
  <2> QED BY <1>1, <1>4, <2>1, <2>2 DEF OnTheWay, Follows
<1> QED BY <1>2, <1>3

\* One more order of a snapshot goes into the socket: what is coming stays.
LEMMA SnapshotGoesOn ==
    ASSUME SyncTypes, NEW c \in Peers, WriteSnapshot(c), screen[c] # "off"
    PROVE  Coming(c)' = Coming(c)
<1> DEFINE w == wire[c]
           h == Head(unsent[c])
           u == Tail(unsent[c])
<1>1. w \in Seq(Lines) /\ unsent[c] \in Seq(Lines) /\ unsent[c] # << >>
  BY DEF SyncTypes, WriteSnapshot
<1>2. h \in Lines /\ u \in Seq(Lines) /\ unsent[c] = <<h>> \o u /\ <<h>> \in Seq(Lines)
  BY <1>1, HeadTailProperties
<1>3. wire'[c] = w \o <<h>> /\ unsent'[c] = u
  BY <1>2, SendTypes DEF WriteSnapshot, SyncTypes
<1> HIDE DEF w, h, u
<1>4. (w \o <<h>>) \o u = w \o (<<h>> \o u)
  BY <1>1, <1>2, ConcatAssociative
<1> QED BY <1>2, <1>3, <1>4 DEF Coming, w

\* The snapshot of a new registration brings the screen what it tells.
LEMMA SnapshotArrives ==
    ASSUME Base, SlotsInv, SyncTypes, NEW c \in Peers, NEW id \in Ids,
           OnTheWay(c, id), screen[c] # "off", Register(c)
    PROVE  OnTheWay(c, id)'
<1>1. PICK at \in [1 .. Cardinality(Shown(c)) -> Shown(c)] :
          /\ \A m, n \in DOMAIN at : m < n => at[m] < at[n]
          /\ unsent' = [unsent EXCEPT ![c] = [n \in DOMAIN at |->
                          Event(orders[at[n]].order_id, orders[at[n]].status)]]
  BY DEF Register
<1> DEFINE t == [n \in DOMAIN at |->
                    Event(orders[at[n]].order_id, orders[at[n]].status)]
<1>2. /\ t \in Seq(Lines)
      /\ DOMAIN t = DOMAIN at
      /\ \A m, n \in DOMAIN at : at[m] = at[n] => m = n
      /\ \A i \in Shown(c) : \E n \in DOMAIN at : at[n] = i
      /\ \A n \in DOMAIN at :
             /\ at[n] \in DOMAIN orders
             /\ t[n] = Event(orders[at[n]].order_id, orders[at[n]].status)
  BY <1>1, SnapshotLines
<1>3. unsent'[c] = t
  BY <1>1 DEF SyncTypes
<1> HIDE DEF t
<1>5. client_thread_register(c) /\ unsent[c] = << >> /\ UNCHANGED <<wire, queue, mirror>>
  BY DEF Register, LockFree, clientVars
<1>4. Coming(c)' = Coming(c) \o t
  BY <1>3, <1>5, ComingTypes DEF Coming
<1>6. told[c][id] = "none" /\ told \in [Peers -> [Ids -> Status \cup {"none"}]]
  BY <1>5 DEF client_thread_register, SlotsInv, Untold, Base, TypeOK
<1>7. /\ \A i \in DOMAIN orders :
             told'[c][orders[i].order_id] =
                 IF InSnapshot(c, orders[i]) THEN orders[i].status ELSE "none"
      /\ told'[c][id] # "none" => Created(id)
  BY <1>5, SnapshotFacts
<1>8. \A n \in DOMAIN t : About(t[n], id) <=> orders[at[n]].order_id = id
  BY <1>2 DEF About, Event
<1>9. CASE \E n \in DOMAIN t : About(t[n], id)
  <2>1. PICK n \in DOMAIN t : About(t[n], id)
    BY <1>9
  <2>2. /\ at[n] \in DOMAIN orders /\ orders[at[n]].order_id = id
        /\ InSnapshot(c, orders[at[n]])
    BY <1>2, <1>8, <2>1 DEF Shown
  <2>3. t[n].status = told'[c][id]
    BY <1>2, <1>7, <2>1, <2>2 DEF Event
  <2>4. \A k \in DOMAIN t : About(t[k], id) => k = n
    BY <1>2, <1>8, <2>1, <2>2, Lookup DEF LookupFacts
  <2>5. Follows(told[c][id], t[n].status)
    BY <1>6 DEF Follows
  <2> QED BY <1>2, <1>4, <1>5, <1>6, <2>1, <2>3, <2>4, <2>5, Sent
<1>10. CASE \A n \in DOMAIN t : ~ About(t[n], id)
  <2>1. told'[c][id] = "none"
    <3>1. SUFFICES ASSUME told'[c][id] # "none" PROVE FALSE
      OBVIOUS
    <3>2. PICK i \in DOMAIN orders : orders[i].order_id = id
      BY <1>7, <3>1 DEF Created
    <3>3. InSnapshot(c, orders[i])
      BY <1>7, <3>1, <3>2
    <3>4. PICK n \in DOMAIN at : at[n] = i
      BY <1>2, <3>3 DEF Shown
    <3> QED BY <1>2, <1>8, <1>10, <3>2, <3>4
  <2>2. told'[c][id] = told[c][id] /\ queue'[c] = queue[c] /\ mirror'[c] = mirror[c]
    BY <1>5, <1>6, <2>1
  <2>3. \A k \in DOMAIN t : ~ About(t[k], id)
    BY <1>10
  <2> QED BY <1>2, <1>4, <1>6, <2>2, <2>3, Sent
<1> QED BY <1>9, <1>10

\* A broadcast brings the screen what the connection is told.
LEMMA BroadcastArrives ==
    ASSUME Base, ToldInv, SyncTypes, SnapInv, NEW c \in Peers, NEW id \in Ids,
           OnTheWay(c, id), screen[c] # "off", Broadcast
    PROVE  OnTheWay(c, id)'
<1> DEFINE line == Event(lock.id, StatusOf(lock.id))
           t == <<line>>
<1>0. /\ lock.id \in Ids
      /\ told \in [Peers -> [Ids -> Status \cup {"none"}]]
      /\ UNCHANGED <<unsent, queue, mirror, screen>> /\ broadcast_raw
  BY DEF Base, TypeOK, Locks, Broadcast, serverVars
<1>6. unsent[c] = << >> /\ unsent'[c] = << >>
  BY <1>0 DEF SnapInv, broadcast_raw, Unlocked
<1>1. /\ lock.at \in Slots /\ ~ Reached(lock.at, lock.id)
      /\ told' = [d \in Peers |->
                   IF clients[lock.at] = d
                   THEN [x \in Ids |-> IF x = lock.id THEN StatusOf(x) ELSE told[d][x]]
                   ELSE told[d]]
  BY <1>0, BroadcastSlot, ConstantsAssumption
     DEF broadcast_raw, Reached, Unlocked, Slots
<1>2. t \in Seq(Lines) /\ DOMAIN t = {1} /\ t[1] = line
  BY <1>0, LineTypes
<1>3. line.kind = "ORDER_EVENT" /\ line.id = lock.id /\ line.status = StatusOf(lock.id)
  BY DEF Event
<1>4. CASE clients[lock.at] = c
  <2>1. SendLine(c, line)
    BY <1>4 DEF Broadcast
  <2>2. Coming(c)' = Coming(c) \o t
    <3>1. wire'[c] = wire[c] \o t
      BY <1>0, <2>1, SendTypes, LineTypes
    <3> QED BY <1>2, <1>6, <3>1, SentToWire
  <2> HIDE DEF t, line
  <2>3. CASE id = lock.id
    <3>1. told'[c][id] = StatusOf(id)
      BY <1>1, <1>4, <2>3
    <3>2. Follows(told[c][id], StatusOf(id))
      BY <1>1, <1>4, <2>3 DEF ToldInv, Pending, Follows
    <3>3. 1 \in DOMAIN t /\ About(t[1], id) /\ \A k \in DOMAIN t : About(t[k], id) => k = 1
      BY <1>2, <1>3, <2>3 DEF About
    <3>4. t[1].status = told'[c][id] /\ Follows(told[c][id], t[1].status)
      BY <1>2, <1>3, <2>3, <3>1, <3>2
    <3> QED BY <1>0, <1>2, <2>2, <3>3, <3>4, Sent
  <2>4. CASE id # lock.id
    <3>1. told'[c][id] = told[c][id]
      BY <1>1, <1>4, <2>4
    <3>2. \A k \in DOMAIN t : ~ About(t[k], id)
      BY <1>2, <1>3, <2>4 DEF About
    <3> QED BY <1>0, <1>2, <2>2, <3>1, <3>2, Sent
  <2> QED BY <2>3, <2>4
<1>5. CASE clients[lock.at] # c
  <2>1. wire'[c] = wire[c]
    <3>1. CASE UNCHANGED wire
      BY <3>1
    <3>2. CASE clients[lock.at] \in Peers /\ SendLine(clients[lock.at], line)
      BY <1>0, <1>5, <3>2, SendTypes, LineTypes
    <3> QED BY <3>1, <3>2 DEF Broadcast
  <2>2. told'[c] = told[c]
    BY <1>1, <1>5
  <2> QED BY <1>0, <2>1, <2>2 DEF OnTheWay, Coming
<1> QED BY <1>4, <1>5

\* Every step keeps all that was told on its way to the screens.
LEMMA NextMirror ==
    Base /\ SlotsInv /\ ToldInv /\ SyncTypes /\ OffInv /\ SnapInv /\ MirrorInv
    /\ [SyncNext]_syncVars => MirrorInv'
<1> SUFFICES ASSUME Base, SlotsInv, ToldInv, SyncTypes, OffInv, SnapInv,
                    MirrorInv,
                    [SyncNext]_syncVars,
                    NEW d \in Peers, NEW id \in Ids, screen'[d] # "off", ~ lost'[d]
             PROVE  OnTheWay(d, id)'
  BY DEF MirrorInv
<1>0. /\ told \in [Peers -> [Ids -> Status \cup {"none"}]]
      /\ Hello \in Lines /\ Reply \in Lines
      /\ Hello.kind # "ORDER_EVENT" /\ Reply.kind # "ORDER_EVENT"
  BY LineTypes DEF Base, TypeOK, Hello, Reply, Plain
<1>1. ASSUME wire'[d] = wire[d], unsent'[d] = unsent[d], queue'[d] = queue[d],
             mirror'[d] = mirror[d], told'[d] = told[d], OnTheWay(d, id)
      PROVE  OnTheWay(d, id)'
  <2>1. Coming(d)' = Coming(d)
    BY <1>1 DEF Coming
  <2> QED BY <1>1, <2>1 DEF OnTheWay
<1>2. screen[d] # "off" /\ ~ lost[d] => OnTheWay(d, id)
  BY DEF MirrorInv
<1>3. ASSUME NEW c \in Peers, Connect(c) PROVE OnTheWay(d, id)'
  <2>1. UNCHANGED <<unsent, wire, queue, mirror, told, lost>> /\ screen[c] = "off"
        /\ session[c] = "off" /\ screen' = [screen EXCEPT ![c] = "handshake"]
    BY <1>3 DEF Connect, serverVars, server_accept_loop
  <2>2. CASE d # c
    BY <1>1, <1>2, <2>1, <2>2 DEF SyncTypes
  <2>3. CASE d = c
    <3>1. /\ wire'[d] = << >> /\ unsent'[d] = << >> /\ queue'[d] = << >>
          /\ mirror'[d][id] = "none" /\ told'[d][id] = "none"
      BY <2>1, <2>3 DEF OffInv, SlotsInv, Untold
    <3>3. << >> \o << >> = << >>
      OBVIOUS
    <3>2. \A s : s = << >> => Brings(s, id, "none", "none") /\ Steadily(s, id, "none")
      BY DEF Brings, Steadily
    <3> QED BY <3>1, <3>2, <3>3 DEF OnTheWay, Coming
  <2> QED BY <2>2, <2>3
<1>4. ASSUME NEW c \in Peers, NEW line \in {Hello, Reply}, SendLine(c, line),
             unsent[c] = << >>, UNCHANGED <<unsent, queue, mirror, screen, lost, told>>
      PROVE  OnTheWay(d, id)'
  <2>1. CASE c = d
    <3>1. wire'[d] = wire[d] \o <<line>>
      BY <1>0, <1>4, <2>1, SendTypes
    <3>2. /\ unsent[d] = << >> /\ unsent'[d] = << >> /\ queue'[d] = queue[d]
          /\ mirror'[d] = mirror[d] /\ told'[d][id] = told[d][id]
          /\ line \in Lines /\ line.kind # "ORDER_EVENT" /\ OnTheWay(d, id)
      BY <1>0, <1>2, <1>4, <2>1
    <3> QED BY <1>0, <3>1, <3>2, SentPlain
  <2>2. CASE c # d
    <3>1. wire'[d] = wire[d]
      BY <1>0, <1>4, <2>2, SendTypes
    <3> QED BY <1>1, <1>2, <1>4, <3>1
  <2> QED BY <2>1, <2>2
<1>5. ASSUME NEW c \in Peers, Greet(c) \/ AnswerRequest(c) PROVE OnTheWay(d, id)'
  <2>1. session[c] \in {"hello", "replying"}
        /\ UNCHANGED <<unsent, queue, mirror, screen, lost, told>>
    BY <1>5 DEF Greet, AnswerRequest, serverVars, client_thread_hello, write_reply
  <2>2. unsent[c] = << >>
    BY <2>1 DEF SnapInv
  <2> QED BY <1>4, <1>5, <2>1, <2>2 DEF Greet, AnswerRequest
<1>6. ASSUME NEW c \in Peers, Register(c) PROVE OnTheWay(d, id)'
  <2>1. UNCHANGED <<wire, queue, mirror, screen, lost>>
    BY <1>6 DEF Register, clientVars
  <2>2. CASE c = d
    BY <1>2, <1>6, <2>1, <2>2, SnapshotArrives
  <2>3. CASE c # d
    <3>1. unsent'[d] = unsent[d]
      BY <1>6, <2>3 DEF Register, SyncTypes
    <3>2. told'[d] = told[d]
      BY <1>6, <2>3, SnapshotFacts DEF Register
    <3> QED BY <1>1, <1>2, <2>1, <3>1, <3>2
  <2> QED BY <2>2, <2>3
<1>16. ASSUME NEW c \in Peers, WriteSnapshot(c) PROVE OnTheWay(d, id)'
  <2>1. UNCHANGED <<queue, mirror, screen, lost, told>>
    BY <1>16 DEF WriteSnapshot, vars
  <2>2. CASE c = d
    <3>1. Coming(d)' = Coming(d)
      BY <1>16, <2>1, <2>2, SnapshotGoesOn
    <3> QED BY <1>2, <2>1, <3>1 DEF OnTheWay
  <2>3. CASE c # d
    <3>1. Head(unsent[c]) \in Lines
      <4>1. unsent[c] \in Seq(Lines) /\ unsent[c] # << >>
        BY <1>16 DEF WriteSnapshot, SyncTypes
      <4> QED BY <4>1, HeadTailProperties
    <3>2. wire'[d] = wire[d] /\ unsent'[d] = unsent[d]
      BY <1>16, <2>3, <3>1, SendTypes DEF WriteSnapshot, SyncTypes
    <3> QED BY <1>1, <1>2, <2>1, <3>2
  <2> QED BY <2>2, <2>3
<1>7. ASSUME NEW c \in Peers, Leave(c) PROVE OnTheWay(d, id)'
  <2>1. UNCHANGED <<serverVars, clientVars>> /\ screen[c] = "off" /\ d # c
    BY <1>7 DEF Leave, clientVars
  <2>2. told'[d] = told[d]
    BY <1>0, <1>7, <2>1 DEF Leave, client_thread_leave
  <2> QED BY <1>1, <1>2, <2>1, <2>2 DEF serverVars, clientVars
<1>8. ASSUME NEW c \in Peers, Serve(c) PROVE OnTheWay(d, id)'
  BY <1>1, <1>2, <1>8
     DEF Serve, serverVars, handle_order_create_client, server_cancel_order, server_update_order_status
<1>9. ASSUME NEW c \in Peers, Refuse(c) PROVE OnTheWay(d, id)'
  BY <1>1, <1>2, <1>9 DEF Refuse, vars
<1>17. ASSUME NEW c \in Peers, WriteRefusal(c) PROVE OnTheWay(d, id)'
  <2>1. unsent[c] = << >>
    BY <1>17 DEF WriteRefusal, SnapInv
  <2> QED BY <1>4, <1>17, <2>1 DEF WriteRefusal, vars
<1>10. ASSUME NEW c \in Peers, ReadLine(c) PROVE OnTheWay(d, id)'
  <2>0. /\ UNCHANGED <<unsent, mirror, screen, told>> /\ wire[c] # << >>
        /\ wire' = [wire EXCEPT ![c] = Tail(@)]
    BY <1>10 DEF ReadLine, serverVars, vars
  <2>1. CASE d # c
    BY <1>1, <1>2, <1>10, <2>0, <2>1 DEF ReadLine, SyncTypes
  <2>2. CASE d = c
    <3>1. wire'[c] = Tail(wire[c])
      BY <2>0 DEF SyncTypes
    <3>2. CASE /\ queue' = [queue EXCEPT ![c] = Append(@, Head(wire[c]))]
               /\ UNCHANGED lost
      <4>1. queue'[c] = Append(queue[c], Head(wire[c]))
        BY <3>2 DEF SyncTypes
      <4>2. OnTheWay(c, id)
        BY <1>2, <2>0, <2>2, <3>2
      <4> QED BY <2>0, <2>2, <3>1, <4>1, <4>2, Queued
    <3>3. CASE /\ lost' = [lost EXCEPT ![c] = @ \/ Head(wire[c]).kind # "REPLY"]
               /\ UNCHANGED queue
      <4>1. lost'[c] = (lost[c] \/ Head(wire[c]).kind # "REPLY")
        BY <3>3 DEF SyncTypes
      <4>2. ~ lost[c] /\ Head(wire[c]).kind = "REPLY"
        BY <2>2, <4>1
      <4>3. OnTheWay(c, id)
        BY <1>2, <2>0, <2>2, <4>2
      <4> QED BY <2>0, <2>2, <3>1, <3>3, <4>2, <4>3, Dropped
    <3> QED BY <1>10, <3>2, <3>3 DEF ReadLine
  <2> QED BY <2>1, <2>2
<1>11. ASSUME NEW c \in Peers, PopLine(c) PROVE OnTheWay(d, id)'
  <2>1. CASE d # c
    BY <1>1, <1>2, <1>11, <2>1 DEF PopLine, SyncTypes, serverVars, vars
  <2>2. CASE d = c
    <3>1. /\ UNCHANGED <<told, wire, unsent, lost>> /\ screen[c] # "off" /\ queue[c] # << >>
          /\ queue'[c] = Tail(queue[c])
          /\ mirror'[c] = Merged(mirror[c], Head(queue[c]))
      BY <1>11 DEF PopLine, SyncTypes, serverVars, vars
    <3> QED BY <1>2, <2>2, <3>1, Popped
  <2> QED BY <2>1, <2>2
<1>12. ASSUME NEW c \in Peers, PressKey(c) PROVE OnTheWay(d, id)'
  BY <1>1, <1>2, <1>12 DEF PressKey, serverVars, vars
<1>13. ASSUME NEW c \in Peers, Quit(c) PROVE OnTheWay(d, id)'
  <2>1. d # c
    BY <1>13 DEF Quit, SyncTypes
  <2> QED BY <1>1, <1>2, <1>13, <2>1 DEF Quit, SyncTypes, vars
<1>14. CASE PosStep \/ LockStep \/ UNCHANGED syncVars
  BY <1>1, <1>2, <1>14
     DEF PosStep, LockStep, server_pay_order, Pay, append_sales_meta, server_unlock,
         EndOfSlots, serverVars, clientVars, syncVars, vars
<1>15. CASE Broadcast
  <2>1. UNCHANGED <<screen, lost>>
    BY <1>15 DEF Broadcast
  <2> QED BY <1>2, <1>15, <2>1, BroadcastArrives
<1> QED
  BY <1>3, <1>5, <1>6, <1>7, <1>8, <1>9, <1>10, <1>11, <1>12, <1>13, <1>14, <1>15,
     <1>16, <1>17
     DEF SyncNext

\* The invariant of the server among its clients.
LEMMA SyncInvariant == SyncSpec => [](IInv /\ SyncTypes /\ OffInv /\ SnapInv /\ MirrorInv)
<1>1. SyncSpec => []IInv
  BY SyncImplementsServer, InductiveInvariant, PTL
<1>2. SyncInit => SyncTypes /\ OffInv /\ SnapInv /\ MirrorInv
  BY SyncInitTypes
<1>3. IInv /\ SyncTypes /\ OffInv /\ SnapInv /\ MirrorInv /\ [SyncNext]_syncVars
          => SyncTypes' /\ OffInv' /\ SnapInv' /\ MirrorInv'
  BY SyncNextTypes, NextOff, NextSnap, NextMirror DEF IInv
<1> QED
  BY <1>1, <1>2, <1>3, PTL DEF SyncSpec

\* Sockets and queues hold lines, a queue never more than QCAP of them, and
\* mirrors and requests are of known orders, whatever server and clients do.
THEOREM SyncTypeCorrect == SyncSpec => []SyncTypeOK
<1>1. IInv /\ SyncTypes => SyncTypeOK
  BY DEF IInv, Base, SyncTypes, SyncTypeOK
<1> QED
  BY <1>1, SyncInvariant, PTL

\* A running screen that has read its socket and its queue empty, and lost no
\* event to a full queue, shows the status the server has for every order it
\* has to know (broadcast_raw, ui_net_enqueue and ui_merge_order_mirror).
THEOREM MirrorsAgree == SyncSpec => []CaughtUpMirrorAgrees
<1>1. IInv /\ SyncTypes /\ MirrorInv => CaughtUpMirrorAgrees
  <2> SUFFICES ASSUME IInv, SyncTypes, MirrorInv, NEW c \in Registered, NEW i \in DOMAIN orders,
                      LockFree, Caught(c), ~ lost[c]
               PROVE  \/ mirror[c][orders[i].order_id] = orders[i].status
                      \/ /\ mirror[c][orders[i].order_id] = "none"
                         /\ MayBeUnknown(c, orders[i])
    BY DEF CaughtUpMirrorAgrees
  <2> DEFINE id == orders[i].order_id
  <2>1. PICK s \in Slots : clients[s] = c
    BY DEF Registered
  <2>2. c \in Peers /\ id \in Ids
    BY EntryTypes DEF Registered, IInv, Order
  <2>3. told[c][id] = orders[i].status
        \/ (told[c][id] = "none" /\ MayBeUnknown(c, orders[i]))
    BY <2>1, <2>2 DEF IInv, ToldInv, ToldIsCurrent, Reached, LockFree
  <2>4. OnTheWay(c, id)
    BY <2>2 DEF MirrorInv, Caught
  <2>5. \A q, b, st : q = << >> /\ Brings(q, id, b, st) => b = st
    BY DEF Brings
  <2>7. Coming(c) = << >>
    BY <2>2, ComingTypes DEF LockFree, Caught
  <2>6. mirror[c][id] = told[c][id]
    <3> HIDE DEF id
    <3> QED BY <2>4, <2>5, <2>7 DEF OnTheWay, Caught
  <2> QED BY <2>3, <2>6
<1> QED
  BY <1>1, SyncInvariant, PTL

\* As long as no event was lost, each change of a screen is a legal move of
\* the order: socket and queue keep the order of the snapshot and the events,
\* and none is skipped or repeated.
THEOREM ScreensMoveLegally == SyncSpec => ScreenMovesLegally
<1> DEFINE Moves == \A c \in Peers, id \in Ids :
          mirror'[c][id] # mirror[c][id] =>
              \/ mirror[c][id] = "none"
              \/ screen'[c] = "off"
              \/ lost[c]
              \/ LegalMove(mirror[c][id], mirror'[c][id])
<1>1. IInv /\ SyncTypes /\ OffInv /\ SnapInv /\ MirrorInv /\ [SyncNext]_syncVars => [Moves]_syncVars
  <2> SUFFICES ASSUME SyncTypes, MirrorInv, SyncNext PROVE Moves
    BY DEF syncVars
  <2>1. CASE UNCHANGED mirror
    BY <2>1
  <2>2. ASSUME NEW c \in Peers, PopLine(c) PROVE Moves
    <3>1. /\ UNCHANGED <<told, wire, unsent, lost>> /\ screen[c] # "off" /\ queue[c] # << >>
          /\ queue'[c] = Tail(queue[c])
          /\ mirror'[c] = Merged(mirror[c], Head(queue[c]))
          /\ \A d \in Peers : d # c => mirror'[d] = mirror[d]
      BY <2>2 DEF PopLine, SyncTypes, serverVars, vars
    <3>2. \A id \in Ids : ~ lost[c] => Follows(mirror[c][id], mirror'[c][id])
      BY <3>1, Popped DEF MirrorInv
    <3> QED BY <3>1, <3>2 DEF Follows
  <2>3. ASSUME NEW c \in Peers, Quit(c) PROVE Moves
    <3>1. screen'[c] = "off" /\ \A d \in Peers : d # c => mirror'[d] = mirror[d]
      BY <2>3 DEF Quit, SyncTypes
    <3> QED BY <3>1
  <2>4. CASE \E c \in Peers : Connect(c) \/ Greet(c) \/ Register(c) \/ WriteSnapshot(c)
                              \/ Leave(c) \/ Serve(c) \/ Refuse(c) \/ WriteRefusal(c)
                              \/ AnswerRequest(c)
                              \/ ReadLine(c) \/ PressKey(c)
    BY <2>1, <2>4 DEF Connect, Greet, Register, WriteSnapshot, Leave, Serve, Refuse,
                      WriteRefusal, AnswerRequest,
                      ReadLine, PressKey, clientVars
  <2>5. CASE PosStep \/ LockStep \/ Broadcast
    BY <2>1, <2>5 DEF PosStep, LockStep, Broadcast, clientVars
  <2> QED BY <2>2, <2>3, <2>4, <2>5 DEF SyncNext
<1> QED
  BY <1>1, SyncInvariant, PTL DEF SyncSpec, ScreenMovesLegally

=============================================================================
