------------------------------ MODULE MenuSync ------------------------------
(***************************************************************************)
(* The menu: edited by keys of the POS screen, kept in menu.csv, and asked *)
(* for by the tables.  An edit is announced with MENU_SYNC, on which a     *)
(* table sends MENU_REQUEST; its session formats the catalogue under       *)
(* ctx->lock and writes it after the unlock.  The server may be stopped,   *)
(* or die, and start again from the file, which a table that starts in the *)
(* same directory loads too.                                               *)
(*                                                                         *)
(* Only the POS thread edits the menu, so an edit is one step from the     *)
(* item it reads to the item it writes, prompts included.  The text of an  *)
(* item stands for its name, price, category and popular flag, its length  *)
(* in a line is one.  Lines about orders and calls only take up room, for  *)
(* which the queues here are short; the kitchen ignores MENU_SYNC.         *)
(***************************************************************************)
EXTENDS Naturals, Sequences, SequencesExt, FiniteSetsExt

CONSTANTS Tables,       \* one table terminal each
          Texts,        \* what is typed at a prompt, without a separator
          Default,      \* the catalogue write_default_menu_file writes
          InitFiles,    \* contents of menu.csv at the first start
          MAX_ITEMS,    \* MAX_MENU_ITEMS of common.h
          LINE_CAP,     \* items that fit in a line of MAX_PROTO_LINE bytes
          READ_CAP,     \* items that fit in the 8192 bytes of UiSockReader.buf
          QCAP,         \* room of UiNetQueue.q
          WCAP,         \* lines a socket holds before write_all blocks
          MAX_ID,       \* bound on ids
          MAX_EDITS     \* bound: keys that edit the menu

Comma      == "comma"           \* a name with a comma in it
Empty      == "empty"           \* no name, which key e takes and a does not
Underscore == "underscore"      \* what sanitize_field makes of a comma
Shifted    == "shifted"         \* every field is read as the one before it

Items == [id : 1 .. MAX_ID, text : Texts \cup {Comma, Empty, Underscore, Shifted},
          sold_out : BOOLEAN]

ASSUME MenuAssumption ==
    /\ {MAX_ITEMS, LINE_CAP, READ_CAP, QCAP, WCAP, MAX_ID} \subseteq Nat \ {0}
    /\ MAX_EDITS \in Nat
    /\ InitFiles \subseteq Seq(Items) /\ Default \in Seq(Items)
    /\ Default # << >> /\ Len(Default) <= MAX_ITEMS

VARIABLES
    menu,       \* ctx->menu; while the server is down, what it was last
    file,       \* menu.csv
    up,         \* the server process runs
    doubt,      \* history: menu.csv need not hold the menu
    pos,        \* where the POS thread is in the key it handles
    edits,      \* edits made so far
    session,    \* session[t]: where t's thread is in client_thread_main
    answer,     \* answer[t]: resp of handle_menu_request
    wire,       \* wire[t]: lines the server wrote and t has not read
    queue,      \* queue[t]: lines in t's UiNetQueue
    asked,      \* asked[t]: MENU_REQUESTs that t's session has not read
    screen,     \* screen[t]: "off", loading, in its handshake loop, running
    cat,        \* cat[t]: the catalogue t shows
    deaf,       \* deaf[t]: t's reader thread has ended
    lost        \* history: lost[t]: a line of t found the queue full

storeVars  == <<menu, file, up, doubt, pos, edits>>
netVars    == <<session, answer, wire, asked>>
tableVars  == <<queue, screen, cat, deaf, lost>>
vars       == <<storeVars, netVars, tableVars>>

Line(kind, items) == [kind |-> kind, items |-> items]
Ok   == Line("OK", << >>)
Sync == Line("MENU_SYNC", << >>)

-----------------------------------------------------------------------------
(* menu.c and protocol.c *)

\* strtok_r skips an empty name: the price is read as the name, the category
\* as the sold-out flag.
WithoutEmpty(m) ==
    IF m.text = Empty THEN [m EXCEPT !.text = Shifted, !.sold_out = FALSE] ELSE m

\* One row of menu.csv and back: strtok_r splits a name at its comma, and the
\* price is read as the sold-out flag.
LoadedItem(m) ==
    IF m.text = Comma THEN [m EXCEPT !.text = Shifted, !.sold_out = TRUE]
    ELSE WithoutEmpty(m)

Firsts(s, n) == SubSeq(s, 1, IF Len(s) < n THEN Len(s) ELSE n)

\* menu_load_file: a file without any item is replaced by the default one.
FileAfterLoad(f) == IF f = << >> THEN Default ELSE f

menu_load_file(f) ==
    LET rows == Firsts(FileAfterLoad(f), MAX_ITEMS)
    IN  [i \in DOMAIN rows |-> LoadedItem(rows[i])]

\* The first item with this id; 0 if there is none.
menu_index_by_id(m, id) == SelectInSeq(m, LAMBDA x : x.id = id)

next_menu_id(m) == 1 + Max({0} \cup {m[i].id : i \in DOMAIN m})

\* menu_set_soldout, which leaves the catalogue as it is without this id
menu_set_soldout(m, id, sold) ==
    LET i == menu_index_by_id(m, id)
    IN  IF i = 0 THEN m ELSE [m EXCEPT ![i].sold_out = sold]

\* menu_update_item, menu_set_category and menu_set_popular
menu_update_item(m, id, text) ==
    LET i == menu_index_by_id(m, id)
    IN  IF i = 0 THEN m ELSE [m EXCEPT ![i].text = text]

menu_delete_item(m, id) ==
    LET i == menu_index_by_id(m, id)
    IN  IF i = 0 THEN m ELSE RemoveAt(m, i)

\* menu_add_item of an item without an id: a full catalogue stays as it is.
menu_add_item(m, text) ==
    IF Len(m) >= MAX_ITEMS THEN m
    ELSE Append(m, [id |-> next_menu_id(m), text |-> text, sold_out |-> FALSE])

\* The line that a session sends, or an error, and what a table makes of it.
Sanitized(m) == [m EXCEPT !.text = IF @ = Comma THEN Underscore ELSE @]

Sent(m) == [i \in DOMAIN m |-> WithoutEmpty(Sanitized(m[i]))]

Encodes(m) == Len(m) <= LINE_CAP

proto_build_menu_response(m) ==
    IF Encodes(m) THEN Line("MENU_RESPONSE", Sent(m)) ELSE Line("ERROR", << >>)

-----------------------------------------------------------------------------
(* The server process *)

Keys == [pc |-> "keys", late |-> FALSE, left |-> {}]

RegisteredFault(t) == session[t] = "serving"

\* t has a slot in ctx->clients.
Registered(t) == session[t] \in {"serving", "answering"}

\* ctx->lock is held from one step to the next only by a broadcast.
Unlocked == pos.pc # "broadcast"

Init ==
    /\ file \in InitFiles
    /\ menu = << >> /\ up = FALSE /\ doubt = TRUE
    /\ pos = Keys /\ edits = 0
    /\ session = [t \in Tables |-> "none"]
    /\ answer = [t \in Tables |-> Ok]
    /\ wire = [t \in Tables |-> << >>]
    /\ asked = [t \in Tables |-> 0]
    /\ queue = [t \in Tables |-> << >>]
    /\ screen = [t \in Tables |-> "off"]
    /\ cat = [t \in Tables |-> << >>]
    /\ deaf = [t \in Tables |-> FALSE]
    /\ lost = [t \in Tables |-> FALSE]

\* menu_save_file writes menu.csv.tmp and renames it; no caller looks at its
\* result.
menu_save_file(m) ==
    \/ file' = m /\ doubt' = FALSE
    \/ UNCHANGED file /\ doubt' = TRUE

\* server_load_persistent.
Start ==
    /\ ~ up
    /\ up' = TRUE
    /\ menu' = menu_load_file(file)
    /\ file' = FileAfterLoad(file)
    /\ doubt' = FALSE
    /\ UNCHANGED <<pos, edits, netVars, tableVars>>

\* Loading fails: main calls server_shutdown, which saves the catalogue that
\* menu_load_file has emptied.
StartFails ==
    /\ ~ up
    /\ file' \in {file, << >>}
    /\ doubt' = TRUE
    /\ UNCHANGED <<menu, up, pos, edits, netVars, tableVars>>

\* Nothing is said of a table whose server is gone: what is under way to it,
\* or from it, is dropped here.
End ==
    /\ up /\ up' = FALSE
    /\ pos' = Keys
    /\ session' = [t \in Tables |-> "none"]
    /\ answer' = [t \in Tables |-> Ok]
    /\ wire' = [t \in Tables |-> << >>]
    /\ asked' = [t \in Tables |-> 0]
    /\ UNCHANGED <<menu, edits, tableVars>>

\* Key q and server_shutdown.
Shutdown == End /\ pos.pc = "keys" /\ menu_save_file(menu)

\* The process is killed (nothing ignores SIGPIPE, for one).
Kill ==
    /\ End
    /\ doubt' = (doubt \/ pos.pc \in {"unsaved", "late"} \/ pos.late)
    /\ UNCHANGED file

-----------------------------------------------------------------------------
(* The keys of the menu tab *)

Edit(m) ==
    /\ up /\ pos.pc = "keys"
    /\ edits < MAX_EDITS /\ edits' = edits + 1
    /\ menu' = m

AtPos(pc, late) == pos' = [pc |-> pc, late |-> late, left |-> {}]

\* s: the announcement comes before the save.
KeySoldOut ==
    /\ \E i \in DOMAIN menu :
           Edit(menu_set_soldout(menu, menu[i].id, ~ menu[i].sold_out))
    /\ AtPos("due", TRUE)
    /\ UNCHANGED <<file, up, doubt, netVars, tableVars>>

KeyDeleteFault ==
    /\ \E i \in DOMAIN menu : Edit(menu_delete_item(menu, menu[i].id))
    /\ AtPos("due", FALSE)
    /\ UNCHANGED <<file, up, doubt, netVars, tableVars>>

\* d: the lock is given up between the deletion and the save.
KeyDelete ==
    /\ \E i \in DOMAIN menu : Edit(menu_delete_item(menu, menu[i].id))
    /\ AtPos("unsaved", FALSE)
    /\ UNCHANGED <<file, up, doubt, netVars, tableVars>>

\* a, and e, c, p: edited and saved without giving up the lock.
KeyAddOrChange ==
    /\ \/ \E text \in Texts \cup {Comma} :
              next_menu_id(menu) <= MAX_ID /\ Edit(menu_add_item(menu, text))
       \/ \E text \in Texts \cup {Comma, Empty}, i \in DOMAIN menu :
              Edit(menu_update_item(menu, menu[i].id, text))
    /\ menu_save_file(menu')
    /\ AtPos("due", FALSE)
    /\ UNCHANGED <<up, netVars, tableVars>>

SaveMenu ==
    /\ pos.pc \in {"unsaved", "late"}
    /\ menu_save_file(menu)
    /\ AtPos(IF pos.pc = "unsaved" THEN "due" ELSE "keys", FALSE)
    /\ UNCHANGED <<menu, up, edits, netVars, tableVars>>

\* server_broadcast_line("MENU_SYNC\n") takes the lock,
LockToBroadcast ==
    /\ pos.pc = "due"
    /\ pos' = [pos EXCEPT !.pc = "broadcast",
                          !.left = {t \in Tables : Registered(t)}]
    /\ UNCHANGED <<menu, file, up, doubt, edits, netVars, tableVars>>

\* write_all blocks while the socket is full; what a client that has quit is
\* sent is gone.
Write(t, line) ==
    /\ screen[t] = "off" \/ Len(wire[t]) < WCAP
    /\ wire' = IF screen[t] = "off" THEN wire
               ELSE [wire EXCEPT ![t] = Append(@, line)]

\* writes to one slot after the other (here in any order),
BroadcastTo(t) ==
    /\ pos.pc = "broadcast" /\ t \in pos.left
    /\ Write(t, Sync)
    /\ pos' = [pos EXCEPT !.left = @ \ {t}]
    /\ UNCHANGED <<menu, file, up, doubt, edits, session, answer, asked, tableVars>>

\* and unlocks.
EndBroadcast ==
    /\ pos.pc = "broadcast" /\ pos.left = {}
    /\ AtPos(IF pos.late THEN "late" ELSE "keys", FALSE)
    /\ UNCHANGED <<menu, file, up, doubt, edits, netVars, tableVars>>

-----------------------------------------------------------------------------
(* A session *)

\* client_thread_main: HELLO read, OK|hello written,
Greet(t) ==
    /\ session[t] = "connected"
    /\ Write(t, Ok)
    /\ session' = [session EXCEPT ![t] = "greeted"]
    /\ UNCHANGED <<storeVars, answer, asked, tableVars>>

\* then registered under the lock: a slot is free for every table.
Register(t) ==
    /\ session[t] = "greeted" /\ Unlocked
    /\ session' = [session EXCEPT ![t] = "serving"]
    /\ UNCHANGED <<storeVars, answer, wire, asked, tableVars>>

\* handle_menu_request formats the catalogue under the lock,
handle_menu_request(t) ==
    /\ session[t] = "serving" /\ Unlocked
    /\ asked[t] > 0 /\ asked' = [asked EXCEPT ![t] = @ - 1]
    /\ answer' = [answer EXCEPT ![t] = proto_build_menu_response(menu)]
    /\ session' = [session EXCEPT ![t] = "answering"]
    /\ UNCHANGED <<storeVars, wire, tableVars>>

\* and writes the line without it.
Answer(t) ==
    /\ session[t] = "answering"
    /\ Write(t, answer[t])
    /\ session' = [session EXCEPT ![t] = "serving"]
    /\ answer' = [answer EXCEPT ![t] = Ok]
    /\ UNCHANGED <<storeVars, asked, tableVars>>

\* End of file after the last request.
Leave(t) ==
    /\ screen[t] = "off" /\ asked[t] = 0
    /\ session[t] = "serving" /\ Unlocked
    /\ session' = [session EXCEPT ![t] = "none"]
    /\ UNCHANGED <<storeVars, answer, wire, asked, tableVars>>

-----------------------------------------------------------------------------
(* A table *)

\* ui_run_table connects, says HELLO and loads menu.csv; if there is nothing
\* in it, menu_load_file is about to write the default file.
Connect(t) ==
    /\ up /\ screen[t] = "off" /\ session[t] = "none"
    /\ session' = [session EXCEPT ![t] = "connected"]
    /\ IF file = << >>
       THEN /\ screen' = [screen EXCEPT ![t] = "loading"]
            /\ UNCHANGED cat
       ELSE /\ screen' = [screen EXCEPT ![t] = "handshake"]
            /\ cat' = [cat EXCEPT ![t] = menu_load_file(file)]
    /\ UNCHANGED <<storeVars, answer, wire, asked, queue, deaf, lost>>

\* write_default_menu_file overwrites menu.csv in place, whatever is in it by
\* now, and the file is loaded again.
WriteDefault(t) ==
    /\ screen[t] = "loading"
    /\ file' = Default /\ doubt' = TRUE
    /\ cat' = [cat EXCEPT ![t] = menu_load_file(Default)]
    /\ screen' = [screen EXCEPT ![t] = "handshake"]
    /\ UNCHANGED <<menu, up, pos, edits, netVars, queue, deaf, lost>>

FullFault(t) == Len(queue[t]) > QCAP

\* ui_net_enqueue stores a line only while nq->qn < 128.
Full(t) == Len(queue[t]) >= QCAP

\* ui_net_reader_main: a line that finds the queue full is dropped, and one
\* longer than the buffer of ui_sock_read_line ends the thread.
ReadLine(t) ==
    /\ screen[t] # "off" /\ ~ deaf[t]
    /\ wire[t] # << >>
    /\ LET line == Head(wire[t])
           long == Len(line.items) > READ_CAP
       IN  /\ deaf' = [deaf EXCEPT ![t] = long]
           /\ wire' = IF long THEN wire ELSE [wire EXCEPT ![t] = Tail(@)]
           /\ queue' = IF long \/ Full(t) THEN queue
                       ELSE [queue EXCEPT ![t] = Append(@, line)]
           /\ lost' = [lost EXCEPT ![t] = @ \/ (Full(t) /\ ~ long)]
    /\ UNCHANGED <<storeVars, session, answer, asked, screen, cat>>

\* ui_apply_menu_response
Applied(c, line) ==
    IF line.kind = "MENU_RESPONSE" THEN Firsts(line.items, MAX_ITEMS) ELSE c

AsksForMenuFault(t, line) == line = Ok

\* The menu is asked for at the end of the handshake and on every MENU_SYNC
\* after it.
AsksForMenu(t, line) == line = Ok \/ (line = Sync /\ screen[t] = "running")

\* The next line in the UI loop.  ui_send_line to a server that is gone is
\* without effect.
PopLine(t) ==
    /\ screen[t] \in {"handshake", "running"}
    /\ queue[t] # << >> /\ queue' = [queue EXCEPT ![t] = Tail(@)]
    /\ LET line == Head(queue[t])
       IN  /\ cat' = [cat EXCEPT ![t] = Applied(@, line)]
           /\ screen' = [screen EXCEPT ![t] = IF line = Ok THEN "running" ELSE @]
           /\ asked' = [asked EXCEPT ![t] =
                  IF AsksForMenu(t, line) /\ session[t] # "none" THEN @ + 1 ELSE @]
    /\ UNCHANGED <<storeVars, session, answer, wire, deaf, lost>>

\* Key q, or the program is interrupted.
Quit(t) ==
    /\ screen[t] # "off"
    /\ screen' = [screen EXCEPT ![t] = "off"]
    /\ wire' = [wire EXCEPT ![t] = << >>]
    /\ queue' = [queue EXCEPT ![t] = << >>]
    /\ cat' = [cat EXCEPT ![t] = << >>]
    /\ deaf' = [deaf EXCEPT ![t] = FALSE]
    /\ lost' = [lost EXCEPT ![t] = FALSE]
    /\ UNCHANGED <<storeVars, session, answer, asked>>

-----------------------------------------------------------------------------
Key == KeySoldOut \/ KeyDelete \/ KeyAddOrChange

PosGoesOn == \/ SaveMenu
             \/ LockToBroadcast
             \/ \E t \in Tables : BroadcastTo(t)
             \/ EndBroadcast

SessionGoesOn(t) == Greet(t) \/ Register(t) \/ handle_menu_request(t) \/ Answer(t)

Next ==
    \/ Start \/ StartFails \/ Shutdown \/ Kill
    \/ Key \/ PosGoesOn
    \/ \E t \in Tables :
           \/ SessionGoesOn(t) \/ Leave(t)
           \/ Connect(t) \/ WriteDefault(t) \/ Quit(t)
           \/ ReadLine(t) \/ PopLine(t)

Spec == Init /\ [][Next]_vars

\* A key that was pressed is handled to its end, and every session, reader
\* thread and UI loop runs on.  Nobody is assumed to press a key.
FairSpec ==
    /\ Spec
    /\ WF_vars(PosGoesOn)
    /\ \A t \in Tables :
           WF_vars(SessionGoesOn(t)) /\ WF_vars(ReadLine(t)) /\ WF_vars(PopLine(t))

-----------------------------------------------------------------------------
(* Properties *)

Lines == [kind : {"OK", "MENU_SYNC", "MENU_RESPONSE", "ERROR"}, items : Seq(Items)]

TypeOK ==
    /\ menu \in Seq(Items) /\ file \in Seq(Items)
    /\ up \in BOOLEAN /\ doubt \in BOOLEAN
    /\ pos \in [pc : {"keys", "unsaved", "due", "broadcast", "late"},
                late : BOOLEAN, left : SUBSET Tables]
    /\ edits \in 0 .. MAX_EDITS
    /\ session \in [Tables -> {"none", "connected", "greeted", "serving", "answering"}]
    /\ \A t \in Tables :
           /\ answer[t] \in Lines /\ asked[t] \in Nat
           /\ wire[t] \in Seq(Lines) /\ Len(wire[t]) <= WCAP
           /\ queue[t] \in Seq(Lines) /\ Len(queue[t]) <= QCAP
           /\ screen[t] \in {"off", "loading", "handshake", "running"}
           /\ cat[t] \in Seq(Items)
           /\ deaf[t] \in BOOLEAN /\ lost[t] \in BOOLEAN

\* Nothing about the menu is under way to t, from t, or about to be.
Settled(t) ==
    /\ session[t] = "serving" /\ screen[t] = "running"
    /\ asked[t] = 0 /\ queue[t] = << >>
    /\ wire[t] = << >> \/ deaf[t]
    /\ pos.pc # "due" /\ ~ (pos.pc = "broadcast" /\ t \in pos.left)
    /\ pos.pc # "unsaved"

\* A table with nothing more under way shows the server's menu, whatever was
\* edited while it connected, asked, was answered from an older menu or had
\* several announcements waiting.  Exempt are a dropped line, a dead reader
\* thread and a menu that makes no line.
SettledTableShowsTheMenu ==
    \A t \in Tables :
        Settled(t) /\ ~ lost[t] /\ ~ deaf[t] /\ Encodes(menu) => cat[t] = Sent(menu)

\* However the server ended, the next one starts with the menu that the last
\* one had, unless a save or start failed, a key was cut short, a table wrote
\* the default file, or it was empty; an item with no name, or with a comma in
\* it, comes back as another.
RestartKeepsMenu ==
    [][~ up /\ up' /\ ~ doubt /\ menu # << >> =>
           /\ Len(menu') = Len(menu)
           /\ \A i \in DOMAIN menu :
                  menu'[i] = menu[i] \/ menu[i].text \in {Comma, Empty}]_vars

\* After the last edit every table that stays comes to show the menu.  One
\* deaf table is enough to stop the announcements to all.
MenuReachesTables ==
    \A t \in Tables :
        (edits = MAX_EDITS /\ Registered(t) /\ screen[t] = "running")
            ~> \/ cat[t] = Sent(menu)
               \/ screen[t] = "off" \/ session[t] = "none"
               \/ lost[t] \/ (\E u \in Tables : deaf[u]) \/ ~ Encodes(menu)
=============================================================================
