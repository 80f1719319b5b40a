--------------------------- MODULE MenuSyncProofs ---------------------------
(***************************************************************************)
(* Proofs about MenuSync for any number of tables, any room in sockets,    *)
(* queues and lines, and any menus: types, that a table with nothing under *)
(* way shows the server's menu, and that a restart brings it back.         *)
(***************************************************************************)
EXTENDS MenuSync, TLAPS, SequenceTheorems, WellFoundedInduction

\* TypeOK, with the functions spelled out and the bound of the catalogue.
Types ==
    /\ menu \in Seq(Items) /\ Len(menu) <= MAX_ITEMS /\ file \in Seq(Items)
    /\ up \in BOOLEAN /\ doubt \in BOOLEAN
    /\ pos \in [pc : {"keys", "unsaved", "due", "broadcast", "late"},
                late : BOOLEAN, left : SUBSET Tables]
    /\ edits \in 0 .. MAX_EDITS
    /\ session \in [Tables -> {"none", "connected", "greeted", "serving", "answering"}]
    /\ answer \in [Tables -> Lines]
    /\ asked \in [Tables -> Nat]
    /\ wire \in [Tables -> Seq(Lines)]
    /\ queue \in [Tables -> Seq(Lines)]
    /\ \A t \in Tables : Len(wire[t]) <= WCAP /\ Len(queue[t]) <= QCAP
    /\ screen \in [Tables -> {"off", "loading", "handshake", "running"}]
    /\ cat \in [Tables -> Seq(Items)]
    /\ deaf \in [Tables -> BOOLEAN] /\ lost \in [Tables -> BOOLEAN]

-----------------------------------------------------------------------------
(* What the operations on catalogues return *)

\* What the assumption on the constants gives: the capacities are at least 1.
LEMMA Parameters ==
    /\ MAX_ITEMS \in Nat \ {0} /\ LINE_CAP \in Nat \ {0} /\ READ_CAP \in Nat \ {0}
    /\ QCAP \in Nat \ {0} /\ WCAP \in Nat \ {0} /\ MAX_ID \in Nat \ {0}
    /\ MAX_EDITS \in Nat
    /\ InitFiles \subseteq Seq(Items) /\ Default \in Seq(Items)
    /\ Default # << >> /\ Len(Default) <= MAX_ITEMS
  BY MenuAssumption

\* Each item that is read back is an item.
LEMMA ItemTypes ==
    ASSUME NEW m \in Items
    PROVE  /\ WithoutEmpty(m) \in Items /\ LoadedItem(m) \in Items
           /\ Sanitized(m) \in Items
           /\ m.text \notin {Comma, Empty} => LoadedItem(m) = m
  BY DEF WithoutEmpty, LoadedItem, Sanitized, Items, Comma, Empty, Shifted, Underscore

\* The first n items, or all there are.
LEMMA FirstsFacts ==
    ASSUME NEW S, NEW s \in Seq(S), NEW n \in Nat
    PROVE  /\ Firsts(s, n) \in Seq(S) /\ Len(Firsts(s, n)) <= n
           /\ Len(s) <= n => Firsts(s, n) = s
<1>0. Len(s) \in Nat
  BY LenProperties
<1>1. \A i \in 1 .. Len(s) : s[i] \in S
  BY LenProperties
<1>2. PICK k \in Nat : /\ k = IF Len(s) < n THEN Len(s) ELSE n
                      /\ k <= Len(s) /\ k <= n /\ (Len(s) <= n => k = Len(s))
  <2>1. CASE Len(s) < n
    BY <1>0, <2>1
  <2>2. CASE ~ (Len(s) < n)
    BY <1>0, <2>2
  <2> QED BY <2>1, <2>2
<1>3. Firsts(s, n) = SubSeq(s, 1, k)
  BY <1>2 DEF Firsts
<1>4. ASSUME NEW i \in 1 .. k PROVE s[i] \in S
  <2>1. i \in 1 .. Len(s)
    BY <1>0, <1>2
  <2> QED BY <1>1, <2>1
<1>5. SubSeq(s, 1, k) \in Seq(S) /\ Len(SubSeq(s, 1, k)) = IF 1 <= k THEN k - 1 + 1 ELSE 0
  BY <1>2, <1>4, SubSeqProperties
<1>6. Len(SubSeq(s, 1, k)) <= n
  BY <1>2, <1>5
<1>7. Len(s) <= n => SubSeq(s, 1, k) = s
  BY <1>2, SubSeqFull
<1> QED
  BY <1>3, <1>5, <1>6, <1>7

\* load_menu returns a list of items, within the room of the server's array.
LEMMA LoadTypes ==
    ASSUME NEW f \in Seq(Items)
    PROVE  /\ FileAfterLoad(f) \in Seq(Items)
           /\ menu_load_file(f) \in Seq(Items) /\ Len(menu_load_file(f)) <= MAX_ITEMS
           /\ menu_load_file(FileAfterLoad(f)) = menu_load_file(f)
<1>1. FileAfterLoad(f) \in Seq(Items)
  BY Parameters DEF FileAfterLoad
<1> DEFINE rows == Firsts(FileAfterLoad(f), MAX_ITEMS)
<1>2. rows \in Seq(Items) /\ Len(rows) <= MAX_ITEMS
  BY <1>1, FirstsFacts, Parameters
<1>3. menu_load_file(f) = [i \in DOMAIN rows |-> LoadedItem(rows[i])]
  BY DEF menu_load_file
<1>4. FileAfterLoad(FileAfterLoad(f)) = FileAfterLoad(f)
  BY Parameters DEF FileAfterLoad
<1>5. menu_load_file(FileAfterLoad(f)) = menu_load_file(f)
  BY <1>4 DEF menu_load_file
<1> HIDE DEF rows
<1>6. \A i \in DOMAIN rows : LoadedItem(rows[i]) \in Items
  BY <1>2, ItemTypes
<1>7. DOMAIN rows = 1 .. Len(rows) /\ Len(rows) \in Nat
  BY <1>2, LenProperties
<1>8. [i \in DOMAIN rows |-> LoadedItem(rows[i])] \in Seq(Items)
      /\ Len([i \in DOMAIN rows |-> LoadedItem(rows[i])]) = Len(rows)
  BY <1>6, <1>7
<1> QED
  BY <1>1, <1>2, <1>3, <1>5, <1>8

\* A menu that was saved is read back, except for names that do not survive.
LEMMA LoadKeeps ==
    ASSUME NEW m \in Seq(Items), m # << >>, Len(m) <= MAX_ITEMS
    PROVE  /\ Len(menu_load_file(m)) = Len(m)
           /\ \A i \in DOMAIN m :
                  menu_load_file(m)[i] = m[i] \/ m[i].text \in {Comma, Empty}
<1>1. Firsts(FileAfterLoad(m), MAX_ITEMS) = m
  BY FirstsFacts, Parameters DEF FileAfterLoad
<1>2. menu_load_file(m) = [i \in DOMAIN m |-> LoadedItem(m[i])]
  BY <1>1 DEF menu_load_file
<1>3. \A i \in DOMAIN m : m[i] \in Items
  BY LenProperties
<1>4. DOMAIN m = 1 .. Len(m) /\ Len(m) \in Nat
  BY LenProperties
<1>5. Len([i \in DOMAIN m |-> LoadedItem(m[i])]) = Len(m)
  BY <1>4
<1> QED
  BY <1>2, <1>3, <1>5, ItemTypes

\* The items of a MENU_RESPONSE are items, and no more than the menu holds.
LEMMA SentTypes ==
    ASSUME NEW m \in Seq(Items)
    PROVE  /\ Sent(m) \in Seq(Items) /\ Len(Sent(m)) = Len(m)
           /\ proto_build_menu_response(m) \in Lines
           /\ Encodes(m) => proto_build_menu_response(m) = Line("MENU_RESPONSE", Sent(m))
<1>1. DOMAIN m = 1 .. Len(m) /\ Len(m) \in Nat /\ \A i \in DOMAIN m : m[i] \in Items
  BY LenProperties
<1>2. \A i \in DOMAIN m : WithoutEmpty(Sanitized(m[i])) \in Items
  BY <1>1, ItemTypes
<1>3. Sent(m) \in Seq(Items) /\ Len(Sent(m)) = Len(m)
  BY <1>1, <1>2 DEF Sent
<1> QED
  BY <1>3, EmptySeq DEF proto_build_menu_response, Lines, Line

\* A place in the catalogue, or 0.
LEMMA IndexTypes ==
    ASSUME NEW m \in Seq(Items), NEW id
    PROVE  menu_index_by_id(m, id) \in DOMAIN m \cup {0}
<1> DEFINE I == {i \in 1 .. Len(m) : m[i].id = id}
<1>1. menu_index_by_id(m, id) = IF I # {} THEN Min(I) ELSE 0
  BY DEF menu_index_by_id, SelectInSeq
<1>2. DOMAIN m = 1 .. Len(m) /\ Len(m) \in Nat
  BY LenProperties
<1>3. ASSUME I # {} PROVE Min(I) \in I
  <2>1. I \in SUBSET Nat
    BY <1>2
  <2>2. \E n \in I : \A k \in I : n <= k
    <3> DEFINE R == OpToRel(<, Nat)
    <3>1. IsWellFoundedOn(R, Nat)
      BY NatLessThanWellFounded
    <3>2. PICK n \in I : \A k \in I : ~ (<<k, n>> \in R)
      <4> HIDE DEF R, I
      <4> QED BY <1>3, <2>1, <3>1, WFMin
    <3>3. \A k \in I : ~ (k < n)
      BY <2>1, <3>2 DEF OpToRel
    <3> HIDE DEF I
    <3> QED BY <2>1, <3>3
  <2> HIDE DEF I
  <2> QED BY <2>2 DEF Min
<1> HIDE DEF I
<1>4. I \subseteq DOMAIN m
  BY <1>2 DEF I
<1> QED
  BY <1>1, <1>3, <1>4

\* The next id is above all ids.
LEMMA NextId ==
    ASSUME NEW m \in Seq(Items)
    PROVE  /\ next_menu_id(m) \in Nat /\ next_menu_id(m) >= 1
           /\ \A i \in DOMAIN m : m[i].id < next_menu_id(m)
<1> DEFINE ids == {0} \cup {m[i].id : i \in DOMAIN m}
           T == {n \in Nat : MAX_ID - n \in ids}
<1>1. ids \subseteq 0 .. MAX_ID
  <2>0. \A i \in DOMAIN m : m[i] \in Items
    BY LenProperties
  <2>1. \A i \in DOMAIN m : m[i].id \in 1 .. MAX_ID
    BY <2>0 DEF Items
  <2> QED BY <2>1, Parameters
<1>2. T \in SUBSET Nat /\ MAX_ID \in T
  BY Parameters
<1>3. PICK n \in T : \A k \in T : ~ (k < n)
  <2> DEFINE R == OpToRel(<, Nat)
  <2>1. IsWellFoundedOn(R, Nat)
    BY NatLessThanWellFounded
  <2>2. PICK n \in T : \A k \in T : ~ (<<k, n>> \in R)
    <3> HIDE DEF R, T
    <3> QED BY <1>2, <2>1, WFMin
  <2> QED BY <1>2, <2>2 DEF OpToRel
<1>4. MAX_ID - n \in ids /\ n \in Nat
  BY <1>3
<1>5. \A x \in ids : MAX_ID - n >= x
  <2> TAKE x \in ids
  <2>1. x \in 0 .. MAX_ID
    BY <1>1
  <2>2. MAX_ID - x \in Nat /\ MAX_ID - (MAX_ID - x) = x
    BY <2>1, Parameters
  <2>3. MAX_ID - x \in T
    BY <2>2
  <2>4. ~ (MAX_ID - x < n)
    BY <1>3, <2>3
  <2> QED BY <1>4, <2>1, <2>2, <2>4, Parameters
<1> HIDE DEF ids, T
<1>6. Max(ids) \in ids /\ \A x \in ids : Max(ids) >= x
  BY <1>4, <1>5 DEF Max
<1>7. next_menu_id(m) = 1 + Max(ids)
  BY DEF next_menu_id, ids
<1>8. Max(ids) \in 0 .. MAX_ID
  BY <1>1, <1>6
<1>9. \A i \in DOMAIN m : m[i].id \in ids
  BY DEF ids
<1>10. \A i \in DOMAIN m : m[i].id < 1 + Max(ids)
  <2> TAKE i \in DOMAIN m
  <2>1. m[i].id \in 0 .. MAX_ID /\ Max(ids) >= m[i].id
    BY <1>1, <1>6, <1>9
  <2> QED BY <1>8, <2>1, Parameters
<1> QED
  BY <1>7, <1>8, <1>10, Parameters

\* What a key may leave in the catalogue.
Menus == {m \in Seq(Items) : Len(m) <= MAX_ITEMS}

\* Changing or removing one item leaves a list of items within its room.
LEMMA EditTypes ==
    ASSUME NEW m \in Menus, NEW id
    PROVE  /\ \A sold \in BOOLEAN : menu_set_soldout(m, id, sold) \in Menus
           /\ \A text \in Texts \cup {Comma, Empty} : menu_update_item(m, id, text) \in Menus
           /\ menu_delete_item(m, id) \in Menus
<1> DEFINE k == menu_index_by_id(m, id)
<1>1. /\ m \in Seq(Items) /\ Len(m) \in Nat /\ DOMAIN m = 1 .. Len(m)
      /\ \A i \in DOMAIN m : m[i] \in Items
  BY LenProperties DEF Menus
<1>2. k \in DOMAIN m \/ k = 0
  BY <1>1, IndexTypes
<1> HIDE DEF k
<1>3. CASE k = 0
  BY <1>3 DEF menu_set_soldout, menu_update_item, menu_delete_item, k
<1>4. CASE k # 0
  <2>0. k \in DOMAIN m /\ k \in Int /\ 1 <= k /\ k <= Len(m)
    BY <1>1, <1>2, <1>4
  <2>1. ASSUME NEW x \in Items PROVE [m EXCEPT ![k] = x] \in Menus
    <3>1. [m EXCEPT ![k] = x] \in Seq(Items) /\ Len([m EXCEPT ![k] = x]) = Len(m)
      BY <1>1, <2>0
    <3> QED BY <3>1 DEF Menus
  <2>2. ASSUME NEW sold \in BOOLEAN PROVE menu_set_soldout(m, id, sold) \in Menus
    <3>1. [m[k] EXCEPT !.sold_out = sold] \in Items
      BY <1>1, <2>0 DEF Items
    <3>2. menu_set_soldout(m, id, sold) = [m EXCEPT ![k] = [m[k] EXCEPT !.sold_out = sold]]
      BY <1>4 DEF menu_set_soldout, k
    <3> QED BY <2>1, <3>1, <3>2
  <2>3. ASSUME NEW text \in Texts \cup {Comma, Empty}
        PROVE  menu_update_item(m, id, text) \in Menus
    <3>1. [m[k] EXCEPT !.text = text] \in Items
      BY <1>1, <2>0 DEF Items
    <3>2. menu_update_item(m, id, text) = [m EXCEPT ![k] = [m[k] EXCEPT !.text = text]]
      BY <1>4 DEF menu_update_item, k
    <3> QED BY <2>1, <3>1, <3>2
  <2>4. menu_delete_item(m, id) \in Menus
    <3> DEFINE a == SubSeq(m, 1, k - 1)
               b == SubSeq(m, k + 1, Len(m))
    <3>1. \A i \in 1 .. k - 1 : m[i] \in Items
      BY <1>1, <2>0
    <3>2. \A i \in k + 1 .. Len(m) : m[i] \in Items
      BY <1>1, <2>0
    <3>3. a \in Seq(Items) /\ Len(a) = k - 1
      BY <2>0, <3>1, SubSeqProperties
    <3>4. b \in Seq(Items) /\ Len(b) = Len(m) - k
      BY <1>1, <2>0, <3>2, SubSeqProperties
    <3>5. menu_delete_item(m, id) = a \o b
      BY <1>4 DEF menu_delete_item, RemoveAt, k
    <3> HIDE DEF a, b
    <3>6. a \o b \in Seq(Items) /\ Len(a \o b) = Len(a) + Len(b)
      BY <3>3, <3>4, ConcatProperties
    <3>7. Len(a \o b) <= MAX_ITEMS
      BY <1>1, <2>0, <3>3, <3>4, <3>6, Parameters DEF Menus
    <3> QED BY <3>5, <3>6, <3>7 DEF Menus
  <2> QED BY <2>2, <2>3, <2>4
<1> QED
  BY <1>3, <1>4

\* Adding an item leaves a list of items within its room.
LEMMA AddTypes ==
    ASSUME NEW m \in Menus, NEW text \in Texts \cup {Comma}, next_menu_id(m) <= MAX_ID
    PROVE  menu_add_item(m, text) \in Menus
<1>1. m \in Seq(Items) /\ Len(m) \in Nat /\ next_menu_id(m) \in 1 .. MAX_ID
  BY NextId, LenProperties, Parameters DEF Menus
<1> DEFINE x == [id |-> next_menu_id(m), text |-> text, sold_out |-> FALSE]
<1>2. x \in Items
  BY <1>1 DEF Items
<1> HIDE DEF x
<1>3. Append(m, x) \in Seq(Items) /\ Len(Append(m, x)) = Len(m) + 1
  BY <1>1, <1>2, AppendProperties
<1>4. menu_add_item(m, text) = IF Len(m) >= MAX_ITEMS THEN m ELSE Append(m, x)
  BY DEF menu_add_item, x
<1>5. CASE Len(m) >= MAX_ITEMS
  BY <1>4, <1>5
<1>6. CASE ~ (Len(m) >= MAX_ITEMS)
  <2>1. Len(m) + 1 <= MAX_ITEMS
    BY <1>1, <1>6, Parameters
  <2> QED BY <1>3, <1>4, <1>6, <2>1 DEF Menus
<1> QED
  BY <1>5, <1>6

-----------------------------------------------------------------------------
(* Types *)

\* The server and the tables start with every part in its type.
LEMMA InitTypes == Init => Types
<1> SUFFICES ASSUME Init PROVE Types
  OBVIOUS
<1>1. Ok \in Lines /\ << >> \in Seq(Items) /\ << >> \in Seq(Lines) /\ Len(<< >>) = 0
  BY EmptySeq DEF Ok, Line, Lines
<1>2. /\ menu \in Seq(Items) /\ Len(menu) <= MAX_ITEMS /\ file \in Seq(Items)
      /\ edits \in 0 .. MAX_EDITS /\ up \in BOOLEAN /\ doubt \in BOOLEAN
  <2>1. file \in Seq(Items)
    BY Parameters DEF Init
  <2>2. menu \in Seq(Items) /\ Len(menu) <= MAX_ITEMS
    BY <1>1, Parameters DEF Init
  <2>3. edits \in 0 .. MAX_EDITS
    BY Parameters DEF Init
  <2> QED BY <2>1, <2>2, <2>3 DEF Init
<1>3. pos \in [pc : {"keys", "unsaved", "due", "broadcast", "late"},
               late : BOOLEAN, left : SUBSET Tables]
  BY DEF Init, Keys
<1>4. /\ wire \in [Tables -> Seq(Lines)] /\ queue \in [Tables -> Seq(Lines)]
      /\ \A t \in Tables : Len(wire[t]) <= WCAP /\ Len(queue[t]) <= QCAP
  BY <1>1, Parameters DEF Init
<1> QED
  BY <1>1, <1>2, <1>3, <1>4 DEF Init, Types

\* The two lines that carry no menu are lines of the protocol.
LEMMA PlainLines == Ok \in Lines /\ Sync \in Lines
  BY EmptySeq DEF Ok, Sync, Line, Lines

\* write_all adds a line to the socket of a client that runs.
LEMMA WriteFacts ==
    ASSUME Types, NEW t \in Tables, NEW line \in Lines, Write(t, line)
    PROVE  /\ wire' \in [Tables -> Seq(Lines)]
           /\ \A d \in Tables : Len(wire'[d]) <= WCAP
           /\ \A d \in Tables : d # t => wire'[d] = wire[d]
           /\ screen[t] # "off" => wire'[t] = Append(wire[t], line)
           /\ screen[t] = "off" => wire' = wire
<1>1. /\ Append(wire[t], line) \in Seq(Lines)
      /\ Len(Append(wire[t], line)) = Len(wire[t]) + 1 /\ Len(wire[t]) \in Nat
  BY AppendProperties, LenProperties DEF Types
<1>2. CASE screen[t] = "off"
  BY <1>2 DEF Write, Types
<1>3. CASE screen[t] # "off"
  <2>1. Len(wire[t]) + 1 <= WCAP
    BY <1>1, <1>3, Parameters DEF Write
  <2> QED BY <1>1, <1>3, <2>1 DEF Write, Types
<1> QED
  BY <1>2, <1>3

\* The POS thread is at one of its places after each of its steps.
LEMMA PosTypes ==
    ASSUME NEW pc \in {"keys", "unsaved", "due", "broadcast", "late"}, NEW late \in BOOLEAN,
           AtPos(pc, late)
    PROVE  pos' \in [pc : {"keys", "unsaved", "due", "broadcast", "late"},
                     late : BOOLEAN, left : SUBSET Tables]
  BY DEF AtPos

\* Every step of the server, the POS and the tables keeps the types.
LEMMA NextTypes == Types /\ [Next]_vars => Types'
<1> SUFFICES ASSUME Types, [Next]_vars PROVE Types'
  OBVIOUS
<1>0. /\ menu \in Seq(Items) /\ Len(menu) <= MAX_ITEMS /\ menu \in Menus
      /\ Ok \in Lines /\ << >> \in Seq(Items) /\ << >> \in Seq(Lines) /\ Len(<< >>) = 0
      /\ 0 <= QCAP /\ 0 <= WCAP
  BY PlainLines, EmptySeq, Parameters DEF Types, Menus
<1>1. CASE Start
  BY <1>1, LoadTypes DEF Start, Types, netVars, tableVars
<1>2. CASE StartFails
  BY <1>0, <1>2 DEF StartFails, Types, netVars, tableVars
<1>3. ASSUME End, file' \in Seq(Items), doubt' \in BOOLEAN PROVE Types'
  BY <1>0, <1>3 DEF End, Keys, Types, tableVars
<1>4. ASSUME NEW m \in Seq(Items), menu_save_file(m)
      PROVE  file' \in Seq(Items) /\ doubt' \in BOOLEAN
  BY <1>4 DEF menu_save_file, Types
<1>5. CASE Shutdown
  BY <1>0, <1>3, <1>4, <1>5 DEF Shutdown
<1>6. CASE Kill
  BY <1>3, <1>6 DEF Kill, Types
<1>7. ASSUME NEW m \in Menus, Edit(m)
      PROVE  menu' \in Seq(Items) /\ Len(menu') <= MAX_ITEMS /\ edits' \in 0 .. MAX_EDITS
  BY <1>7, Parameters DEF Edit, Menus, Types
<1>8. CASE KeySoldOut
  <2>1. PICK i \in DOMAIN menu :
            Edit(menu_set_soldout(menu, menu[i].id, ~ menu[i].sold_out))
    BY <1>8 DEF KeySoldOut
  <2>2. (~ menu[i].sold_out) \in BOOLEAN
    OBVIOUS
  <2>3. menu_set_soldout(menu, menu[i].id, ~ menu[i].sold_out) \in Menus
    BY <1>0, <2>2, EditTypes
  <2>4. menu' \in Seq(Items) /\ Len(menu') <= MAX_ITEMS /\ edits' \in 0 .. MAX_EDITS
    BY <1>7, <2>1, <2>3
  <2> QED BY <1>8, <2>4, PosTypes DEF KeySoldOut, Types, netVars, tableVars
<1>9. CASE KeyDelete
  <2>1. PICK i \in DOMAIN menu : Edit(menu_delete_item(menu, menu[i].id))
    BY <1>9 DEF KeyDelete
  <2>2. menu' \in Seq(Items) /\ Len(menu') <= MAX_ITEMS /\ edits' \in 0 .. MAX_EDITS
    BY <1>0, <1>7, <2>1, EditTypes
  <2> QED BY <1>9, <2>2, PosTypes DEF KeyDelete, Types, netVars, tableVars
<1>10. CASE KeyAddOrChange
  <2>1. \E m \in Menus : Edit(m)
    <3>1. CASE \E text \in Texts \cup {Comma} :
                   next_menu_id(menu) <= MAX_ID /\ Edit(menu_add_item(menu, text))
      BY <1>0, <3>1, AddTypes
    <3>2. CASE \E text \in Texts \cup {Comma, Empty}, i \in DOMAIN menu :
                   Edit(menu_update_item(menu, menu[i].id, text))
      BY <1>0, <3>2, EditTypes
    <3> QED BY <1>10, <3>1, <3>2 DEF KeyAddOrChange
  <2>2. menu' \in Seq(Items) /\ Len(menu') <= MAX_ITEMS /\ edits' \in 0 .. MAX_EDITS
    BY <1>7, <2>1
  <2>3. file' \in Seq(Items) /\ doubt' \in BOOLEAN
    BY <1>10, <2>2 DEF KeyAddOrChange, menu_save_file, Types
  <2> QED BY <1>10, <2>2, <2>3, PosTypes DEF KeyAddOrChange, Types, netVars, tableVars
<1>11. CASE SaveMenu
  <2>1. file' \in Seq(Items) /\ doubt' \in BOOLEAN
    BY <1>0, <1>4, <1>11 DEF SaveMenu
  <2> QED BY <1>11, <2>1, PosTypes DEF SaveMenu, Types, netVars, tableVars
<1>12. CASE LockToBroadcast
  BY <1>12 DEF LockToBroadcast, Types, netVars, tableVars
<1>13. ASSUME NEW t \in Tables, BroadcastTo(t) PROVE Types'
  <2>1. wire' \in [Tables -> Seq(Lines)] /\ \A d \in Tables : Len(wire'[d]) <= WCAP
    BY <1>13, WriteFacts, PlainLines DEF BroadcastTo
  <2> QED BY <1>13, <2>1 DEF BroadcastTo, Types, tableVars
<1>14. CASE EndBroadcast
  <2>1. pos' \in [pc : {"keys", "unsaved", "due", "broadcast", "late"},
                  late : BOOLEAN, left : SUBSET Tables]
    BY <1>14, PosTypes DEF EndBroadcast
  <2> QED BY <1>14, <2>1 DEF EndBroadcast, Types, netVars, tableVars
<1>15. ASSUME NEW t \in Tables, Greet(t) PROVE Types'
  <2>1. wire' \in [Tables -> Seq(Lines)] /\ \A d \in Tables : Len(wire'[d]) <= WCAP
    BY <1>15, WriteFacts, PlainLines DEF Greet
  <2> QED BY <1>15, <2>1 DEF Greet, Types, storeVars, tableVars
<1>16. ASSUME NEW t \in Tables, Register(t) \/ Leave(t) PROVE Types'
  BY <1>16 DEF Register, Leave, Types, storeVars, tableVars
<1>17. ASSUME NEW t \in Tables, handle_menu_request(t) PROVE Types'
  BY <1>0, <1>17, SentTypes DEF handle_menu_request, Types, storeVars, tableVars
<1>18. ASSUME NEW t \in Tables, Answer(t) PROVE Types'
  <2>1. answer[t] \in Lines
    BY DEF Types
  <2>2. wire' \in [Tables -> Seq(Lines)] /\ \A d \in Tables : Len(wire'[d]) <= WCAP
    BY <1>18, <2>1, WriteFacts DEF Answer
  <2> QED BY <1>0, <1>18, <2>2 DEF Answer, Types, storeVars, tableVars
<1>19. ASSUME NEW t \in Tables, Connect(t) PROVE Types'
  <2>1. menu_load_file(file) \in Seq(Items)
    BY LoadTypes DEF Types
  <2> QED BY <1>19, <2>1 DEF Connect, Types, storeVars
<1>20. ASSUME NEW t \in Tables, WriteDefault(t) PROVE Types'
  <2>1. Default \in Seq(Items) /\ menu_load_file(Default) \in Seq(Items)
    BY LoadTypes, Parameters
  <2> QED BY <1>20, <2>1 DEF WriteDefault, Types, netVars
<1>21. ASSUME NEW t \in Tables, ReadLine(t) PROVE Types'
  <2> DEFINE line == Head(wire[t])
             long == Len(line.items) > READ_CAP
  <2>1. /\ line \in Lines /\ Tail(wire[t]) \in Seq(Lines) /\ long \in BOOLEAN
        /\ Len(Tail(wire[t])) = Len(wire[t]) - 1 /\ Len(wire[t]) \in Nat
        /\ Len(queue[t]) \in Nat
    BY <1>21, HeadTailProperties, LenProperties DEF ReadLine, Types
  <2>2. /\ Append(queue[t], line) \in Seq(Lines)
        /\ Len(Append(queue[t], line)) = Len(queue[t]) + 1
    BY <2>1, AppendProperties DEF Types
  <2>3. /\ deaf' = [deaf EXCEPT ![t] = long]
        /\ wire' = IF long THEN wire ELSE [wire EXCEPT ![t] = Tail(wire[t])]
        /\ queue' = IF long \/ Full(t) THEN queue
                    ELSE [queue EXCEPT ![t] = Append(queue[t], line)]
        /\ lost' = [lost EXCEPT ![t] = lost[t] \/ (Full(t) /\ ~ long)]
        /\ UNCHANGED <<storeVars, session, answer, asked, screen, cat>>
    BY <1>21 DEF ReadLine
  <2> HIDE DEF long, line
  <2>4. wire' \in [Tables -> Seq(Lines)] /\ \A d \in Tables : Len(wire'[d]) <= WCAP
    <3>1. Len(Tail(wire[t])) <= WCAP
      BY <2>1, Parameters DEF Types
    <3> QED BY <2>1, <2>3, <3>1 DEF Types
  <2>5. queue' \in [Tables -> Seq(Lines)] /\ \A d \in Tables : Len(queue'[d]) <= QCAP
    <3>1. ~ Full(t) => Len(Append(queue[t], line)) <= QCAP
      BY <2>1, <2>2, Parameters DEF Full
    <3> QED BY <2>2, <2>3, <3>1 DEF Types
  <2>6. deaf' \in [Tables -> BOOLEAN] /\ lost' \in [Tables -> BOOLEAN]
    <3>1. (lost[t] \/ (Full(t) /\ ~ long)) \in BOOLEAN
      BY DEF Types
    <3> QED BY <2>1, <2>3, <3>1 DEF Types
  <2> QED BY <2>3, <2>4, <2>5, <2>6 DEF Types, storeVars
<1>22. ASSUME NEW t \in Tables, PopLine(t) PROVE Types'
  <2> DEFINE line == Head(queue[t])
  <2>1. /\ line \in Lines /\ Tail(queue[t]) \in Seq(Lines)
        /\ Len(Tail(queue[t])) = Len(queue[t]) - 1 /\ Len(queue[t]) \in Nat
    BY <1>22, HeadTailProperties, LenProperties DEF PopLine, Types
  <2>2. Applied(cat[t], line) \in Seq(Items)
    <3>1. line.items \in Seq(Items)
      BY <2>1 DEF Lines
    <3>2. Firsts(line.items, MAX_ITEMS) \in Seq(Items)
      BY <3>1, FirstsFacts, Parameters
    <3> QED BY <3>2 DEF Applied, Types
  <2>3. Len(Tail(queue[t])) <= QCAP
    BY <2>1, Parameters DEF Types
  <2>4. /\ queue' = [queue EXCEPT ![t] = Tail(queue[t])]
        /\ cat' = [cat EXCEPT ![t] = Applied(cat[t], line)]
        /\ screen' = [screen EXCEPT ![t] = IF line = Ok THEN "running" ELSE screen[t]]
        /\ asked' = [asked EXCEPT ![t] =
               IF AsksForMenu(t, line) /\ session[t] # "none" THEN asked[t] + 1 ELSE asked[t]]
        /\ UNCHANGED <<storeVars, session, answer, wire, deaf, lost>>
    BY <1>22 DEF PopLine
  <2> HIDE DEF line
  <2> QED BY <2>1, <2>2, <2>3, <2>4 DEF Types, storeVars
<1>23. ASSUME NEW t \in Tables, Quit(t) PROVE Types'
  BY <1>0, <1>23 DEF Quit, Types, storeVars
<1>24. CASE UNCHANGED vars
  BY <1>24 DEF Types, vars, storeVars, netVars, tableVars
<1> QED
  BY <1>1, <1>2, <1>5, <1>6, <1>8, <1>9, <1>10, <1>11, <1>12, <1>13, <1>14, <1>15, <1>16,
     <1>17, <1>18, <1>19, <1>20, <1>21, <1>22, <1>23, <1>24
     DEF Next, Key, PosGoesOn, SessionGoesOn

\* Catalogues, files and lines are what they should be, and sockets and queues
\* hold no more than their room, for any number of tables and any capacities.
THEOREM MenuTypeCorrect == Spec => []TypeOK
<1>1. Spec => []Types
  BY InitTypes, NextTypes, PTL DEF Spec
<1>2. Types => TypeOK
  BY DEF Types, TypeOK
<1> QED
  BY <1>1, <1>2, PTL

-----------------------------------------------------------------------------
(* The restart *)

\* The POS thread has edited the menu and not saved it yet.
Unsaved == pos.pc \in {"unsaved", "late"} \/ pos.late

\* The file is the menu, or was read to become it.
FileHolds == file = menu \/ menu = menu_load_file(file)

\* No session outlives the server; a broadcast goes to tables in a slot; the
\* file holds the menu but for the time between an edit and its save.
StoreInv ==
    /\ ~ up => pos = Keys /\ \A t \in Tables : session[t] = "none"
    /\ pos.pc = "broadcast" =>
           \A t \in pos.left : session[t] \in {"serving", "answering"}
    /\ ~ doubt /\ ~ Unsaved => FileHolds

\* At the start no session runs and the file is the menu that is read from it.
LEMMA InitStore == Init => StoreInv
  BY DEF Init, StoreInv, Keys

\* Only the steps between an edit and its save leave the file behind.
LEMMA NextStore == Types /\ StoreInv /\ [Next]_vars => StoreInv'
<1> SUFFICES ASSUME Types, StoreInv, [Next]_vars PROVE StoreInv'
  OBVIOUS
<1>0. ASSUME UNCHANGED <<menu, file, up, doubt, pos>>,
             \A t \in Tables : session'[t] = session[t]
                  \/ (session[t] \in {"serving", "answering"}
                         /\ session'[t] \in {"serving", "answering"})
                  \/ (up /\ session[t] \notin {"serving", "answering"})
                  \/ (up /\ Unlocked)
      PROVE  StoreInv'
  <2>1. pos \in [pc : {"keys", "unsaved", "due", "broadcast", "late"},
                 late : BOOLEAN, left : SUBSET Tables]
    BY DEF Types
  <2> QED BY <1>0, <2>1 DEF StoreInv, Unsaved, FileHolds, Unlocked
<1>1. CASE Start
  <2>1. FileHolds'
    BY <1>1, LoadTypes DEF Start, FileHolds, Types
  <2> QED BY <1>1, <2>1 DEF Start, StoreInv, netVars, tableVars, Keys
<1>2. CASE StartFails
  BY <1>2 DEF StartFails, StoreInv, netVars, tableVars
<1>3. CASE Shutdown
  <2>1. ~ doubt' => FileHolds'
    BY <1>3 DEF Shutdown, End, menu_save_file, FileHolds
  <2> QED BY <1>3, <2>1 DEF Shutdown, End, StoreInv, Keys
<1>4. CASE Kill
  <2>1. ~ doubt' => FileHolds'
    BY <1>4 DEF Kill, End, StoreInv, Unsaved, FileHolds
  <2> QED BY <1>4, <2>1 DEF Kill, End, StoreInv, Keys
<1>5. CASE KeySoldOut \/ KeyDelete
  <2>1. /\ up /\ UNCHANGED up /\ pos'.pc \in {"due", "unsaved"} /\ Unsaved'
    BY <1>5 DEF KeySoldOut, KeyDelete, Edit, AtPos, Unsaved
  <2> QED BY <2>1 DEF StoreInv
<1>6. CASE KeyAddOrChange
  <2>1. up /\ UNCHANGED up /\ pos'.pc = "due" /\ menu_save_file(menu')
    BY <1>6 DEF KeyAddOrChange, Edit, AtPos
  <2>2. ~ doubt' => FileHolds'
    BY <2>1 DEF menu_save_file, FileHolds
  <2> QED BY <2>1, <2>2 DEF StoreInv
<1>7. CASE SaveMenu
  <2>1. up /\ UNCHANGED <<up, menu>> /\ pos'.pc \in {"due", "keys"} /\ menu_save_file(menu)
    BY <1>7 DEF SaveMenu, AtPos, StoreInv, Keys
  <2>2. ~ doubt' => FileHolds'
    BY <2>1 DEF menu_save_file, FileHolds
  <2> QED BY <2>1, <2>2 DEF StoreInv
<1>8. CASE LockToBroadcast
  <2>1. /\ up /\ UNCHANGED <<menu, file, up, doubt, session>>
        /\ pos' = [pos EXCEPT !.pc = "broadcast", !.left = {t \in Tables : Registered(t)}]
        /\ pos.pc = "due"
    BY <1>8 DEF LockToBroadcast, StoreInv, Keys, netVars
  <2>2. pos'.pc = "broadcast" /\ pos'.left = {t \in Tables : Registered(t)}
        /\ pos'.late = pos.late
    BY <2>1 DEF Types
  <2>3. ~ doubt' /\ ~ Unsaved' => FileHolds'
    BY <2>1, <2>2 DEF StoreInv, Unsaved, FileHolds
  <2> QED BY <2>1, <2>2, <2>3 DEF StoreInv, Registered
<1>9. ASSUME NEW t \in Tables, BroadcastTo(t) PROVE StoreInv'
  <2>1. /\ up /\ UNCHANGED <<menu, file, up, doubt, session>>
        /\ pos' = [pos EXCEPT !.left = pos.left \ {t}]
        /\ pos.pc = "broadcast"
    BY <1>9 DEF BroadcastTo, StoreInv, Keys
  <2>2. pos'.pc = "broadcast" /\ pos'.left \subseteq pos.left /\ pos'.late = pos.late
    BY <2>1 DEF Types
  <2>3. ~ doubt' /\ ~ Unsaved' => FileHolds'
    BY <2>1, <2>2 DEF StoreInv, Unsaved, FileHolds
  <2> QED BY <2>1, <2>2, <2>3 DEF StoreInv
<1>10. CASE EndBroadcast
  <2>1. /\ up /\ UNCHANGED <<menu, file, up, doubt>> /\ pos.pc = "broadcast"
        /\ pos'.pc = (IF pos.late THEN "late" ELSE "keys")
    BY <1>10 DEF EndBroadcast, AtPos, StoreInv, Keys
  <2>2. ~ doubt' /\ ~ Unsaved' => FileHolds'
    BY <2>1 DEF StoreInv, Unsaved, FileHolds
  <2> QED BY <2>1, <2>2 DEF StoreInv
<1>11. ASSUME NEW t \in Tables,
              Greet(t) \/ Register(t) \/ handle_menu_request(t) \/ Answer(t) \/ Leave(t)
       PROVE  StoreInv'
  <2>1. up
    BY <1>11 DEF Greet, Register, handle_menu_request, Answer, Leave, StoreInv
  <2>2. \A d \in Tables : d # t => session'[d] = session[d]
    BY <1>11 DEF Greet, Register, handle_menu_request, Answer, Leave, Types
  <2>3. \/ session[t] \in {"serving", "answering"} /\ session'[t] \in {"serving", "answering"}
        \/ session[t] \notin {"serving", "answering"}
        \/ Unlocked
    BY <1>11 DEF Greet, Register, handle_menu_request, Answer, Leave, Types
  <2> QED BY <1>0, <1>11, <2>1, <2>2, <2>3
          DEF Greet, Register, handle_menu_request, Answer, Leave, storeVars
<1>12. ASSUME NEW t \in Tables, Connect(t) PROVE StoreInv'
  <2>1. /\ up /\ session[t] = "none"
        /\ \A d \in Tables : d # t => session'[d] = session[d]
    BY <1>12 DEF Connect
  <2> QED BY <1>0, <1>12, <2>1 DEF Connect, storeVars
<1>13. ASSUME NEW t \in Tables, WriteDefault(t) PROVE StoreInv'
  BY <1>13 DEF WriteDefault, StoreInv, netVars
<1>14. ASSUME NEW t \in Tables, ReadLine(t) \/ PopLine(t) \/ Quit(t) PROVE StoreInv'
  BY <1>0, <1>14 DEF ReadLine, PopLine, Quit, storeVars
<1>15. CASE UNCHANGED vars
  BY <1>0, <1>15 DEF vars, storeVars, netVars
<1> QED
  BY <1>1, <1>2, <1>3, <1>4, <1>5, <1>6, <1>7, <1>8, <1>9, <1>10, <1>11, <1>12, <1>13, <1>14,
     <1>15 DEF Next, Key, PosGoesOn, SessionGoesOn

\* Whenever the server starts on a file that is not in doubt, it has the menu
\* it had: menu_load_file reads back what menu_save_file or an earlier load left,
\* but for a name that does not survive a line of menu.csv.
THEOREM RestartsKeepMenu == Spec => RestartKeepsMenu
<1> DEFINE Keeps == ~ up /\ up' /\ ~ doubt /\ menu # << >> =>
           /\ Len(menu') = Len(menu)
           /\ \A i \in DOMAIN menu :
                  menu'[i] = menu[i] \/ menu[i].text \in {Comma, Empty}
<1>1. Types /\ StoreInv /\ [Next]_vars => [Keeps]_vars
  <2> SUFFICES ASSUME Types, StoreInv, Next, ~ up, up', ~ doubt, menu # << >>
               PROVE  /\ Len(menu') = Len(menu)
                      /\ \A i \in DOMAIN menu :
                             menu'[i] = menu[i] \/ menu[i].text \in {Comma, Empty}
    OBVIOUS
  <2>1. Start
    BY DEF Next, Key, KeySoldOut, KeyDelete, KeyAddOrChange, Edit, PosGoesOn, SaveMenu,
           LockToBroadcast, BroadcastTo, EndBroadcast, SessionGoesOn, Greet, Register,
           handle_menu_request, Answer, Leave, Connect, WriteDefault, Quit, ReadLine, PopLine,
           StartFails, Shutdown, Kill, End, storeVars
  <2>2. menu' = menu_load_file(file)
    BY <2>1 DEF Start
  <2>3. FileHolds
    BY DEF StoreInv, Unsaved, Keys
  <2>4. CASE menu = menu_load_file(file)
    BY <2>2, <2>4
  <2>5. CASE file = menu
    BY <2>2, <2>5, LoadKeeps DEF Types
  <2> QED BY <2>3, <2>4, <2>5 DEF FileHolds
<1>2. Spec => [](Types /\ StoreInv)
  BY InitTypes, NextTypes, InitStore, NextStore, PTL DEF Spec
<1> QED
  BY <1>1, <1>2, PTL DEF Spec, RestartKeepsMenu

-----------------------------------------------------------------------------
(* The menu on its way to a table *)

\* What the server wrote to t and t has not taken yet, oldest first.
Under(t) == queue[t] \o wire[t]

\* A table that shows c shows m once it has taken the lines u.
Shows(u, c, m) ==
    \/ /\ \A k \in DOMAIN u : u[k].kind # "MENU_RESPONSE"
       /\ c = m
    \/ \E k \in DOMAIN u :
           /\ u[k].kind = "MENU_RESPONSE" /\ u[k].items = m
           /\ \A j \in DOMAIN u : j > k => u[j].kind # "MENU_RESPONSE"

\* One of the lines makes the table ask for the menu.
Prompts(u) == \E k \in DOMAIN u : u[k] \in {Ok, Sync}

\* t is still to be asked to ask, to ask, or to be answered.
Pending(t) ==
    \/ pos.pc \in {"due", "unsaved"}
    \/ pos.pc = "broadcast" /\ t \in pos.left
    \/ asked[t] > 0
    \/ Prompts(Under(t))

\* The last answer under way to t, or t itself, has the server's menu.
Current(t) ==
    IF session[t] = "answering"
    THEN answer[t] = Line("MENU_RESPONSE", Sent(menu))
    ELSE Shows(Under(t), cat[t], Sent(menu))

\* A client holds no line before it is greeted, or after it ended; it runs
\* once it has taken OK|hello, and with that it has asked.
RunInv == \A t \in Tables :
    /\ screen[t] = "off" => queue[t] = << >> /\ wire[t] = << >>
    /\ session[t] = "connected" /\ screen[t] # "off" =>
           queue[t] = << >> /\ wire[t] = << >> /\ screen[t] # "running"
    /\ session[t] = "greeted" /\ screen[t] = "running" => asked[t] > 0

\* Of every table that is connected: news of the menu is due to it, or the last
\* answer under way (its catalogue when there is none) is the menu.
MenuInv == \A t \in Tables :
    /\ screen[t] = "running" /\ session[t] \in {"serving", "answering"}
    /\ ~ lost[t] /\ ~ deaf[t] /\ Encodes(menu)
    => Pending(t) \/ Current(t)

\* A sequence is its head and its tail.
LEMMA HeadAndTail ==
    ASSUME NEW w \in Seq(Lines), w # << >>
    PROVE  Head(w) \in Lines /\ Tail(w) \in Seq(Lines) /\ w = <<Head(w)>> \o Tail(w)
<1>1. /\ Head(w) \in Lines /\ Tail(w) \in Seq(Lines) /\ Head(w) = w[1]
      /\ Len(w) \in Nat /\ Len(w) >= 1 /\ Tail(w) = SubSeq(w, 2, Len(w))
  BY HeadTailProperties, TailIsSubSeq, LenProperties, EmptySeq
<1>2. SubSeq(w, 1, Len(w)) = <<w[1]>> \o SubSeq(w, 1 + 1, Len(w))
  BY <1>1, SubSeqRecursiveFirst
<1> QED
  BY <1>1, <1>2, SubSeqFull

\* The reader thread moves a line on and changes nothing of what is under way.
LEMMA MovedOn ==
    ASSUME NEW q \in Seq(Lines), NEW w \in Seq(Lines), w # << >>
    PROVE  Append(q, Head(w)) \o Tail(w) = q \o w
<1>1. /\ Head(w) \in Lines /\ Tail(w) \in Seq(Lines) /\ w = <<Head(w)>> \o Tail(w)
  BY HeadAndTail
<1>2. <<Head(w)>> \in Seq(Lines) /\ Append(q, Head(w)) = q \o <<Head(w)>>
  BY <1>1, AppendIsConcat
<1>3. (q \o <<Head(w)>>) \o Tail(w) = q \o (<<Head(w)>> \o Tail(w))
  BY <1>1, <1>2, ConcatAssociative
<1> QED
  BY <1>1, <1>2, <1>3

\* A line at the end: it decides if it is an answer.
LEMMA AddedLast ==
    ASSUME NEW q \in Seq(Lines), NEW w \in Seq(Lines), NEW line \in Lines
    PROVE  LET u == q \o w
               v == q \o Append(w, line)
           IN  /\ Prompts(u) => Prompts(v)
               /\ line \in {Ok, Sync} => Prompts(v)
               /\ line.kind = "MENU_RESPONSE" => \A c : Shows(v, c, line.items)
<1> DEFINE u == q \o w
           v == q \o Append(w, line)
<1>1. u \in Seq(Lines)
  BY ConcatProperties
<1>2. v = Append(u, line)
  <2>1. <<line>> \in Seq(Lines) /\ Append(w, line) = w \o <<line>>
        /\ Append(u, line) = u \o <<line>>
    BY <1>1, AppendIsConcat
  <2>2. (q \o w) \o <<line>> = q \o (w \o <<line>>)
    BY <2>1, ConcatAssociative
  <2> QED BY <2>1, <2>2
<1> HIDE DEF u, v
<1>3. /\ Len(u) \in Nat /\ DOMAIN u = 1 .. Len(u) /\ DOMAIN v = 1 .. Len(u) + 1
      /\ \A i \in DOMAIN u : v[i] = u[i]
      /\ v[Len(u) + 1] = line
  BY <1>1, <1>2, AppendProperties, LenProperties
<1>4. DOMAIN u \subseteq DOMAIN v /\ Len(u) + 1 \in DOMAIN v
      /\ \A j \in DOMAIN v : ~ (j > Len(u) + 1)
  BY <1>3
<1>5. Prompts(u) => Prompts(v)
  BY <1>3, <1>4 DEF Prompts
<1>6. line \in {Ok, Sync} => Prompts(v)
  BY <1>3, <1>4 DEF Prompts
<1>7. line.kind = "MENU_RESPONSE" => \A c : Shows(v, c, line.items)
  BY <1>3, <1>4 DEF Shows
<1> QED
  BY <1>5, <1>6, <1>7 DEF u, v

\* A line at the front is taken.
LEMMA TakenFirst ==
    ASSUME NEW q \in Seq(Lines), q # << >>, NEW w \in Seq(Lines)
    PROVE  LET u == q \o w
               v == Tail(q) \o w
               h == Head(q)
           IN  /\ Prompts(u) /\ h \notin {Ok, Sync} => Prompts(v)
               /\ \A c, m : Shows(u, c, m) =>
                      Shows(v, IF h.kind = "MENU_RESPONSE" THEN h.items ELSE c, m)
<1> DEFINE u == q \o w
           v == Tail(q) \o w
           h == Head(q)
<1>1. h \in Lines /\ Tail(q) \in Seq(Lines) /\ q = <<h>> \o Tail(q) /\ <<h>> \in Seq(Lines)
  BY HeadAndTail
<1>2. v \in Seq(Lines) /\ u = <<h>> \o v
  BY <1>1, ConcatProperties, ConcatAssociative
<1> HIDE DEF u, v, h
<1>3. /\ Len(v) \in Nat /\ DOMAIN v = 1 .. Len(v) /\ DOMAIN u = 1 .. Len(v) + 1
      /\ u[1] = h
      /\ \A i \in DOMAIN v : i + 1 \in DOMAIN u /\ u[i + 1] = v[i]
      /\ \A i \in DOMAIN u : i # 1 => i - 1 \in DOMAIN v /\ u[i] = v[i - 1]
  <2>1. Len(<<h>>) = 1 /\ <<h>>[1] = h
    OBVIOUS
  <2>2. Len(v) \in Nat /\ DOMAIN v = 1 .. Len(v) /\ u \in Seq(Lines) /\ Len(u) = 1 + Len(v)
        /\ DOMAIN u = 1 .. Len(u)
        /\ \A i \in 1 .. 1 + Len(v) : u[i] = IF i <= 1 THEN <<h>>[i] ELSE v[i - 1]
    BY <1>1, <1>2, <2>1, ConcatProperties, LenProperties
  <2> QED BY <2>1, <2>2
<1>4. Prompts(u) /\ h \notin {Ok, Sync} => Prompts(v)
  BY <1>3 DEF Prompts
<1>5. ASSUME NEW c, NEW m, Shows(u, c, m)
      PROVE  Shows(v, IF h.kind = "MENU_RESPONSE" THEN h.items ELSE c, m)
  <2>1. CASE (\A k \in DOMAIN u : u[k].kind # "MENU_RESPONSE") /\ c = m
    <3>1. h.kind # "MENU_RESPONSE"
      BY <1>3, <2>1
    <3>2. \A k \in DOMAIN v : v[k].kind # "MENU_RESPONSE"
      BY <1>3, <2>1
    <3> QED BY <2>1, <3>1, <3>2 DEF Shows
  <2>2. CASE \E k \in DOMAIN u :
                 /\ u[k].kind = "MENU_RESPONSE" /\ u[k].items = m
                 /\ \A j \in DOMAIN u : j > k => u[j].kind # "MENU_RESPONSE"
    <3>1. PICK k \in DOMAIN u :
                 /\ u[k].kind = "MENU_RESPONSE" /\ u[k].items = m
                 /\ \A j \in DOMAIN u : j > k => u[j].kind # "MENU_RESPONSE"
      BY <2>2
    <3>2. \A j \in DOMAIN v : j + 1 > k => v[j].kind # "MENU_RESPONSE"
      BY <1>3, <3>1
    <3>3. CASE k = 1
      <4>1. \A j \in DOMAIN v : v[j].kind # "MENU_RESPONSE"
        BY <1>3, <3>2, <3>3
      <4>2. h.kind = "MENU_RESPONSE" /\ h.items = m
        BY <1>3, <3>1, <3>3
      <4> QED BY <4>1, <4>2 DEF Shows
    <3>4. CASE k # 1
      <4>1. k - 1 \in DOMAIN v /\ v[k - 1].kind = "MENU_RESPONSE" /\ v[k - 1].items = m
        BY <1>3, <3>1, <3>4
      <4>2. \A j \in DOMAIN v : j > k - 1 => v[j].kind # "MENU_RESPONSE"
        BY <1>3, <3>2, <3>1
      <4>3. \A d : Shows(v, d, m)
        BY <4>1, <4>2 DEF Shows
      <4> QED BY <4>3
    <3> QED BY <3>3, <3>4
  <2> QED BY <1>5, <2>1, <2>2 DEF Shows
<1> QED
  BY <1>4, <1>5 DEF u, v, h

\* All of a table that the invariants speak of is as it was.
Untouched(t) ==
    /\ session'[t] = session[t] /\ answer'[t] = answer[t] /\ asked'[t] = asked[t]
    /\ wire'[t] = wire[t] /\ queue'[t] = queue[t] /\ screen'[t] = screen[t]
    /\ cat'[t] = cat[t] /\ deaf'[t] = deaf[t] /\ lost'[t] = lost[t]

\* The actions of a table and its session leave the others alone.
LEMMA OneTable ==
    ASSUME Types, NEW t \in Tables, NEW d \in Tables, d # t,
           \/ SessionGoesOn(t) \/ Leave(t) \/ Connect(t) \/ WriteDefault(t) \/ Quit(t)
           \/ ReadLine(t) \/ PopLine(t) \/ BroadcastTo(t)
    PROVE  Untouched(d)
<1>1. CASE Greet(t)
  BY <1>1, WriteFacts, PlainLines DEF Greet, Untouched, Types, tableVars
<1>2. CASE Register(t) \/ Leave(t)
  BY <1>2 DEF Register, Leave, Untouched, Types, tableVars
<1>3. CASE handle_menu_request(t)
  BY <1>3 DEF handle_menu_request, Untouched, Types, tableVars
<1>4. CASE Answer(t)
  <2>1. answer[t] \in Lines
    BY DEF Types
  <2> QED BY <1>4, <2>1, WriteFacts DEF Answer, Untouched, Types, tableVars
<1>5. CASE Connect(t)
  BY <1>5 DEF Connect, Untouched, Types
<1>6. CASE WriteDefault(t)
  BY <1>6 DEF WriteDefault, Untouched, Types, netVars
<1>7. CASE Quit(t)
  BY <1>7 DEF Quit, Untouched, Types
<1>8. CASE ReadLine(t)
  BY <1>8 DEF ReadLine, Untouched, Types
<1>9. CASE PopLine(t)
  BY <1>9 DEF PopLine, Untouched, Types
<1>10. CASE BroadcastTo(t)
  BY <1>10, WriteFacts, PlainLines DEF BroadcastTo, Untouched, Types, tableVars
<1> QED
  BY <1>1, <1>2, <1>3, <1>4, <1>5, <1>6, <1>7, <1>8, <1>9, <1>10 DEF SessionGoesOn

\* Connecting, being greeted and reading OK|hello keep to that order.
LEMMA NextRun == Types /\ StoreInv /\ RunInv /\ [Next]_vars => RunInv'
<1> DEFINE Runs(t) ==
        /\ screen[t] = "off" => queue[t] = << >> /\ wire[t] = << >>
        /\ session[t] = "connected" /\ screen[t] # "off" =>
               queue[t] = << >> /\ wire[t] = << >> /\ screen[t] # "running"
        /\ session[t] = "greeted" /\ screen[t] = "running" => asked[t] > 0
<1> SUFFICES ASSUME Types, StoreInv, RunInv, [Next]_vars, NEW d \in Tables
             PROVE  Runs(d)'
  BY DEF RunInv
<1>0. Runs(d)
  BY DEF RunInv
<1>1. ASSUME Untouched(d) PROVE Runs(d)'
  BY <1>0, <1>1 DEF Untouched
<1>2. CASE UNCHANGED <<netVars, tableVars>>
  BY <1>1, <1>2 DEF Untouched, netVars, tableVars
<1>3. CASE Start \/ StartFails \/ Key \/ SaveMenu \/ LockToBroadcast \/ EndBroadcast
           \/ UNCHANGED vars
  BY <1>2, <1>3 DEF Start, StartFails, Key, KeySoldOut, KeyDelete, KeyAddOrChange, SaveMenu,
                    LockToBroadcast, EndBroadcast, vars
<1>4. CASE Shutdown \/ Kill
  BY <1>0, <1>4 DEF Shutdown, Kill, End, tableVars
<1>5. ASSUME NEW t \in Tables, t # d,
             \/ SessionGoesOn(t) \/ Leave(t) \/ Connect(t) \/ WriteDefault(t) \/ Quit(t)
             \/ ReadLine(t) \/ PopLine(t) \/ BroadcastTo(t)
      PROVE  Runs(d)'
  BY <1>1, <1>5, OneTable
<1>6. CASE Greet(d)
  <2>1. /\ session' = [session EXCEPT ![d] = "greeted"] /\ session[d] = "connected"
        /\ UNCHANGED <<asked, tableVars>>
        /\ screen[d] = "off" => wire' = wire
    BY <1>6, WriteFacts, PlainLines DEF Greet
  <2> QED BY <1>0, <2>1 DEF Types, tableVars
<1>7. CASE Register(d) \/ Leave(d)
  BY <1>0, <1>7 DEF Register, Leave, Types, tableVars
<1>8. CASE handle_menu_request(d)
  BY <1>0, <1>8 DEF handle_menu_request, Types, tableVars
<1>9. CASE Answer(d)
  <2>0. answer[d] \in Lines
    BY DEF Types
  <2>1. /\ session' = [session EXCEPT ![d] = "serving"]
        /\ UNCHANGED <<asked, tableVars>>
        /\ screen[d] = "off" => wire' = wire
    BY <1>9, <2>0, WriteFacts DEF Answer
  <2> QED BY <1>0, <2>1 DEF Types, tableVars
<1>10. CASE Connect(d)
  BY <1>0, <1>10 DEF Connect, Types
<1>11. CASE WriteDefault(d)
  BY <1>0, <1>11 DEF WriteDefault, Types, netVars
<1>12. CASE Quit(d)
  BY <1>12 DEF Quit, Types
<1>13. CASE ReadLine(d)
  BY <1>0, <1>13 DEF ReadLine, Types
<1>14. CASE PopLine(d)
  <2>1. /\ UNCHANGED <<session, wire>> /\ queue[d] # << >>
        /\ screen[d] \in {"handshake", "running"}
        /\ screen'[d] = IF Head(queue[d]) = Ok THEN "running" ELSE screen[d]
        /\ asked'[d] = IF AsksForMenu(d, Head(queue[d])) /\ session[d] # "none"
                       THEN asked[d] + 1 ELSE asked[d]
    BY <1>14 DEF PopLine, Types
  <2>2. asked[d] \in Nat
    BY DEF Types
  <2>3. session[d] # "connected"
    BY <1>0, <2>1
  <2> QED BY <1>0, <2>1, <2>2, <2>3 DEF AsksForMenu
<1>15. CASE BroadcastTo(d)
  <2>1. /\ session[d] \in {"serving", "answering"} /\ UNCHANGED <<session, asked, tableVars>>
        /\ screen[d] = "off" => wire' = wire
    BY <1>15, WriteFacts, PlainLines DEF BroadcastTo, StoreInv
  <2> QED BY <1>0, <2>1 DEF tableVars
<1> QED
  BY <1>3, <1>4, <1>5, <1>6, <1>7, <1>8, <1>9, <1>10, <1>11, <1>12, <1>13, <1>14, <1>15
     DEF Next, PosGoesOn, SessionGoesOn

\* Every edit makes every table pending; only an answer with the menu as it is
\* now ends that.
LEMMA NextMenu == Types /\ StoreInv /\ RunInv /\ MenuInv /\ [Next]_vars => MenuInv'
<1> SUFFICES ASSUME Types, StoreInv, RunInv, MenuInv, [Next]_vars, NEW d \in Tables,
                    screen'[d] = "running", session'[d] \in {"serving", "answering"},
                    ~ lost'[d], ~ deaf'[d], Encodes(menu')
             PROVE  Pending(d)' \/ Current(d)'
  BY DEF MenuInv, Encodes
<1>0. /\ screen[d] = "running" /\ session[d] \in {"serving", "answering"}
      /\ ~ lost[d] /\ ~ deaf[d] /\ Encodes(menu)
      => Pending(d) \/ Current(d)
  BY DEF MenuInv
<1>1. ASSUME Untouched(d), menu' = menu,
             pos.pc \in {"due", "unsaved"} => pos'.pc \in {"due", "unsaved"}
                 \/ (pos'.pc = "broadcast" /\ d \in pos'.left),
             pos.pc = "broadcast" /\ d \in pos.left
                 => pos'.pc = "broadcast" /\ d \in pos'.left
      PROVE  Pending(d)' \/ Current(d)'
  BY <1>0, <1>1 DEF Untouched, Pending, Current, Under
<1>2. CASE Start \/ StartFails
  BY <1>2 DEF Start, StartFails, StoreInv, netVars
<1>3. CASE Shutdown \/ Kill
  BY <1>3 DEF Shutdown, Kill, End
<1>4. CASE Key
  <2>1. pos'.pc \in {"due", "unsaved"}
    BY <1>4 DEF Key, KeySoldOut, KeyDelete, KeyAddOrChange, AtPos
  <2> QED BY <2>1 DEF Pending
<1>5. CASE SaveMenu
  <2>1. /\ Untouched(d) /\ menu' = menu /\ pos.pc \in {"unsaved", "late"}
        /\ pos.pc = "unsaved" => pos'.pc = "due"
    BY <1>5 DEF SaveMenu, AtPos, Untouched, netVars, tableVars
  <2> QED BY <1>1, <2>1
<1>6. CASE LockToBroadcast
  <2>1. Untouched(d) /\ menu' = menu /\ pos.pc = "due"
    BY <1>6 DEF LockToBroadcast, Untouched, netVars, tableVars
  <2>2. pos'.pc = "broadcast" /\ d \in pos'.left
    BY <1>6, <2>1 DEF LockToBroadcast, Types, Registered, Untouched
  <2> QED BY <1>1, <2>1, <2>2
<1>7. CASE EndBroadcast
  <2>1. Untouched(d) /\ menu' = menu /\ pos.pc = "broadcast" /\ pos.left = {}
    BY <1>7 DEF EndBroadcast, Untouched, netVars, tableVars
  <2> QED BY <1>1, <2>1
<1>8. ASSUME NEW t \in Tables, t # d,
             \/ SessionGoesOn(t) \/ Leave(t) \/ Connect(t) \/ WriteDefault(t) \/ Quit(t)
             \/ ReadLine(t) \/ PopLine(t)
      PROVE  Pending(d)' \/ Current(d)'
  <2>1. Untouched(d)
    BY <1>8, OneTable
  <2>2. UNCHANGED <<menu, pos>>
    BY <1>8 DEF SessionGoesOn, Greet, Register, handle_menu_request, Answer, Leave, Connect,
                WriteDefault, Quit, ReadLine, PopLine, storeVars
  <2> QED BY <1>1, <2>1, <2>2
<1>9. ASSUME NEW t \in Tables, BroadcastTo(t) PROVE Pending(d)' \/ Current(d)'
  <2>1. /\ pos.pc = "broadcast" /\ pos'.pc = "broadcast" /\ pos'.left = pos.left \ {t}
        /\ UNCHANGED <<menu, session, answer, asked, tableVars>>
    BY <1>9 DEF BroadcastTo, Types
  <2>2. CASE t # d
    BY <1>1, <1>9, <2>1, <2>2, OneTable
  <2>3. CASE t = d
    <3>1. wire'[d] = Append(wire[d], Sync) /\ queue'[d] = queue[d]
      BY <1>9, <2>1, <2>3, WriteFacts, PlainLines DEF BroadcastTo, tableVars
    <3>2. Prompts(queue[d] \o Append(wire[d], Sync))
      BY AddedLast, PlainLines DEF Types
    <3> QED BY <3>1, <3>2 DEF Pending, Under
  <2> QED BY <2>2, <2>3
<1>10. CASE Greet(d) \/ Leave(d)
  BY <1>10 DEF Greet, Leave, Types
<1>11. CASE Register(d)
  BY <1>11 DEF Register, RunInv, Pending, Types, tableVars
<1>12. CASE handle_menu_request(d)
  <2>1. menu' = menu /\ session'[d] = "answering"
        /\ answer'[d] = proto_build_menu_response(menu)
    BY <1>12 DEF handle_menu_request, Types, storeVars
  <2>2. answer'[d] = Line("MENU_RESPONSE", Sent(menu'))
    BY <2>1, SentTypes DEF Types
  <2> QED BY <2>1, <2>2 DEF Current
<1>13. CASE Answer(d)
  <2>1. /\ UNCHANGED <<menu, pos, asked, tableVars>> /\ session[d] = "answering"
        /\ session'[d] = "serving" /\ answer[d] \in Lines /\ Write(d, answer[d])
    BY <1>13 DEF Answer, storeVars, Types
  <2>2. wire'[d] = Append(wire[d], answer[d]) /\ queue'[d] = queue[d]
    BY <2>1, WriteFacts DEF tableVars
  <2>3. Pending(d) \/ Current(d)
    BY <1>0, <2>1 DEF tableVars
  <2>4. CASE Pending(d)
    <3>1. Prompts(Under(d)) => Prompts(Under(d))'
      BY <2>1, <2>2, AddedLast DEF Under, Types
    <3> QED BY <2>1, <2>4, <3>1 DEF Pending
  <2>5. CASE Current(d)
    <3>1. answer[d].kind = "MENU_RESPONSE" /\ answer[d].items = Sent(menu)
      BY <2>1, <2>5 DEF Current, Line
    <3>2. Shows(queue[d] \o Append(wire[d], answer[d]), cat[d], Sent(menu))
      <4>1. queue[d] \in Seq(Lines) /\ wire[d] \in Seq(Lines)
        BY DEF Types
      <4>2. \A c : Shows(queue[d] \o Append(wire[d], answer[d]), c, answer[d].items)
        BY <2>1, <3>1, <4>1, AddedLast
      <4> QED BY <3>1, <4>2
    <3> QED BY <2>1, <2>2, <3>2 DEF Current, Under, tableVars
  <2> QED BY <2>3, <2>4, <2>5
<1>14. CASE Connect(d) \/ WriteDefault(d) \/ Quit(d)
  BY <1>14 DEF Connect, WriteDefault, Quit, Types
<1>15. CASE ReadLine(d)
  <2>1. /\ UNCHANGED <<menu, pos, session, answer, asked, screen, cat>>
        /\ wire[d] # << >> /\ ~ deaf[d] /\ ~ lost[d]
        /\ wire'[d] = Tail(wire[d]) /\ queue'[d] = Append(queue[d], Head(wire[d]))
    <3> DEFINE long == Len(Head(wire[d]).items) > READ_CAP
    <3>1. /\ deaf' = [deaf EXCEPT ![d] = long]
          /\ wire' = IF long THEN wire ELSE [wire EXCEPT ![d] = Tail(wire[d])]
          /\ queue' = IF long \/ Full(d) THEN queue
                      ELSE [queue EXCEPT ![d] = Append(queue[d], Head(wire[d]))]
          /\ lost' = [lost EXCEPT ![d] = lost[d] \/ (Full(d) /\ ~ long)]
          /\ UNCHANGED <<storeVars, session, answer, asked, screen, cat>>
          /\ wire[d] # << >> /\ ~ deaf[d]
      BY <1>15 DEF ReadLine
    <3> HIDE DEF long
    <3>2. deaf'[d] = long /\ lost'[d] = (lost[d] \/ (Full(d) /\ ~ long))
      BY <3>1 DEF Types
    <3>3. ~ long /\ ~ Full(d) /\ ~ lost[d]
      BY <3>2
    <3> QED BY <3>1, <3>3 DEF Types, storeVars
  <2>2. Under(d)' = Under(d)
    BY SMTT(20), <2>1, MovedOn DEF Under, Types
  <2> QED BY <1>0, <2>1, <2>2 DEF Pending, Current
<1>16. CASE PopLine(d)
  <2> DEFINE h == Head(queue[d])
  <2>1. /\ UNCHANGED <<menu, pos, session, answer, wire, deaf, lost>>
        /\ queue[d] # << >> /\ queue'[d] = Tail(queue[d])
        /\ screen[d] \in {"handshake", "running"}
        /\ screen'[d] = IF h = Ok THEN "running" ELSE screen[d]
        /\ cat'[d] = Applied(cat[d], h)
        /\ asked'[d] = IF AsksForMenu(d, h) THEN asked[d] + 1 ELSE asked[d]
    BY <1>16 DEF PopLine, Types, storeVars
  <2>2. asked[d] \in Nat /\ queue[d] \in Seq(Lines) /\ wire[d] \in Seq(Lines)
        /\ Encodes(menu) /\ h \in Lines
    BY <2>1, HeadTailProperties DEF Types
  <2> HIDE DEF h
  <2>3. CASE h = Ok \/ (h = Sync /\ screen[d] = "running")
    BY <2>1, <2>2, <2>3 DEF AsksForMenu, Pending
  <2>4. CASE ~ (h = Ok \/ (h = Sync /\ screen[d] = "running"))
    <3>1. screen[d] = "running" /\ h \notin {Ok, Sync} /\ asked'[d] = asked[d]
      BY <2>1, <2>4 DEF AsksForMenu
    <3>2. Pending(d) \/ Current(d)
      BY <1>0, <2>1, <2>2, <3>1
    <3>3. /\ Prompts(Under(d)) => Prompts(Under(d)')
          /\ \A m : Shows(Under(d), cat[d], m) =>
                 Shows(Under(d)', IF h.kind = "MENU_RESPONSE" THEN h.items ELSE cat[d], m)
      BY <2>1, <2>2, <3>1, TakenFirst DEF Under, h
    <3>4. CASE Pending(d)
      BY <2>1, <3>1, <3>3, <3>4 DEF Pending
    <3>5. CASE Current(d)
      <4>1. CASE session[d] = "answering"
        BY <2>1, <3>5, <4>1 DEF Current
      <4>2. CASE session[d] # "answering"
        <5>1. Shows(Under(d)', IF h.kind = "MENU_RESPONSE" THEN h.items ELSE cat[d], Sent(menu))
          BY <3>3, <3>5, <4>2 DEF Current
        <5>2. Sent(menu) \in Seq(Items) /\ Len(Sent(menu)) <= MAX_ITEMS
          BY SentTypes DEF Types
        <5>3. Firsts(Sent(menu), MAX_ITEMS) = Sent(menu)
          BY <5>2, FirstsFacts, Parameters
        <5>4. (IF h.kind = "MENU_RESPONSE" THEN h.items ELSE cat[d]) = Sent(menu)
                  => cat'[d] = Sent(menu)
          BY <2>1, <5>3 DEF Applied
        <5>5. Shows(Under(d)', cat'[d], Sent(menu))
          BY <5>1, <5>4 DEF Shows
        <5> QED BY <2>1, <4>2, <5>5 DEF Current
      <4> QED BY <4>1, <4>2
    <3> QED BY <3>2, <3>4, <3>5
  <2> QED BY <2>3, <2>4
<1>17. CASE UNCHANGED vars
  BY <1>1, <1>17 DEF vars, storeVars, netVars, tableVars, Untouched
<1> QED
  BY <1>2, <1>3, <1>4, <1>5, <1>6, <1>7, <1>8, <1>9, <1>10, <1>11, <1>12, <1>13, <1>14, <1>15,
     <1>16, <1>17 DEF Next, PosGoesOn, SessionGoesOn

\* For any number of tables, edits, connections and capacities: a table that
\* has nothing of the menu under way shows the menu that the server has, unless
\* a line found its queue full, its reader thread ended, or the menu makes no
\* line (handle_menu_request, server_broadcast_line, ui_apply_menu_response).
THEOREM SettledTablesAgree == Spec => []SettledTableShowsTheMenu
<1> DEFINE Inv == Types /\ StoreInv /\ RunInv /\ MenuInv
<1>1. Init => Inv
  <2>1. Init => RunInv /\ MenuInv
    BY DEF Init, RunInv, MenuInv
  <2> QED BY <2>1, InitTypes, InitStore
<1>2. Inv /\ [Next]_vars => Inv'
  BY NextTypes, NextStore, NextRun, NextMenu
<1>3. Inv => SettledTableShowsTheMenu
  <2> SUFFICES ASSUME Inv, NEW t \in Tables,
                      Settled(t), ~ lost[t], ~ deaf[t], Encodes(menu)
               PROVE  cat[t] = Sent(menu)
    BY DEF SettledTableShowsTheMenu
  <2>1. Under(t) = << >>
    BY ConcatEmptySeq, EmptySeq DEF Settled, Under
  <2>2. Pending(t) \/ Current(t)
    BY DEF Settled, MenuInv
  <2>3. ~ Pending(t)
    BY <2>1 DEF Settled, Pending, Prompts
  <2> QED BY <2>1, <2>2, <2>3 DEF Current, Settled, Shows
<1> QED
  BY <1>1, <1>2, <1>3, PTL DEF Spec
=============================================================================
