------------------------------ MODULE Shutdown ------------------------------
(***************************************************************************)
(* How the POS server ends: q or SIGINT, server_shutdown, and the session  *)
(* threads that nobody waits for.  The threads share one table of file     *)
(* descriptors: a number that one of them closes is the number that the    *)
(* next open gives to another, and a thread that still holds it writes to, *)
(* or closes, whatever it stands for by then.  A write to a socket whose   *)
(* peer has reset it, or that was shut down, raises SIGPIPE, which the     *)
(* program neither ignores nor handles: the process is gone.               *)
(*                                                                         *)
(* Of a request only this is kept: when it takes ctx->lock, which files it *)
(* opens, and when it writes to its client.  What two saves of one file    *)
(* do to each other is the subject of ConfigStore.                         *)
(***************************************************************************)
EXTENDS Integers, FiniteSets

CONSTANTS Clients,   \* table terminals
          Main,      \* the thread of main and ui_run_pos
          Nobody,
          MAX_FD,    \* bound: descriptor numbers above the standard streams
          MAX_CONNECTS, MAX_LINES   \* bounds: connections, requests

Files == {"tables.conf", "tables.conf.tmp", "menu.csv.tmp", "orders.log"}
Numbers == 1 .. MAX_FD
Destroyed == "destroyed"

ASSUME ShutdownAssumption ==
    /\ IsFiniteSet(Clients)
    /\ Main \notin Clients /\ Nobody \notin Clients \cup {Main}
    /\ Destroyed \notin Clients \cup {Main, Nobody}
    /\ Clients \cap (Files \cup {"free", "listener"}) = {}
    /\ MAX_FD \in Nat /\ MAX_CONNECTS \in Nat /\ MAX_LINES \in Nat
    /\ MAX_FD >= 2 * Cardinality(Clients) + 2

VARIABLES
    alive,       \* no SIGPIPE so far
    stop,        \* ctx->shutting_down
    listen_fd,   \* ctx->listen_fd, 0 for -1
    open,        \* what each descriptor number stands for
    peer,        \* each client's side of its connection
    fd,          \* the number each session has for its socket, 0 if none
    slots,       \* the clients that are in ctx->clients
    session,     \* where each session thread is
    file,        \* the number of the file each session has open, 0 if none
    lock,        \* who holds ctx->lock
    accepting,   \* the accept thread runs
    main,        \* where the main thread is
    fdw,         \* the number of the file that main has open
    text,        \* whose text each file holds since it was last truncated
    saved,       \* history: the files main has replaced
    connects, lines, \* bounds
    late,        \* history: a session handled a request while, or after,
                 \* server_shutdown closed the sockets
    left         \* history: a client has left while its session ran

threads == <<session, file, lock, accepting, main, fdw>>
vars == <<alive, stop, listen_fd, open, peer, fd, slots, threads, text, saved,
          connects, lines, late, left>>

SessionSteps == {"none", "hello", "register", "loop", "reading", "order",
                 "order log", "order logging", "save", "saving", "announce",
                 "staff", "staff log", "staff logging", "menu", "reply", "leave",
                 "close"}

MainSteps == {"screen", "sync", "close listener", "join", "lock", "slots",
              "close slot", "open old", "read old", "open conf", "write conf",
              "rename conf", "open menu", "write menu", "rename menu",
              "destroy", "return", "done"}

\* A session that is handling a request.
Handling == {"order", "order log", "order logging", "save", "saving", "announce",
             "staff", "staff log", "staff logging", "menu", "reply"}

\* server_shutdown from the moment it has the lock.
Closing == {"slots", "close slot", "open old", "read old", "open conf", "write conf",
            "rename conf", "open menu", "write menu", "rename menu", "destroy",
            "return", "done"}

Init ==
    /\ alive = TRUE
    /\ stop = FALSE
    /\ listen_fd = 1
    /\ open = [n \in Numbers |-> IF n = 1 THEN "listener" ELSE "free"]
    /\ peer = [c \in Clients |-> "away"]
    /\ fd = [c \in Clients |-> 0]
    /\ slots = {}
    /\ session = [c \in Clients |-> "none"]
    /\ file = [c \in Clients |-> 0]
    /\ lock = Nobody
    /\ accepting = TRUE
    /\ main = "screen"
    /\ fdw = 0
    /\ text = [f \in Files |-> {}]
    /\ saved = {}
    /\ connects = 0
    /\ lines = 0
    /\ late = FALSE
    /\ left = FALSE

-----------------------------------------------------------------------------
(* Descriptors *)

\* open and accept give out the lowest number that is free.
Lowest == CHOOSE n \in Numbers :
              open[n] = "free" /\ \A m \in Numbers : open[m] = "free" => n <= m

Breaks(n) == open[n] \in Clients /\ peer[open[n]] \in {"broken", "shut"}

\* write_all to the numbers ns.  A socket whose peer has left takes one write
\* and is broken by the answer; a file takes any text.
Write(ns, words) ==
    /\ alive' = \A n \in ns : ~ Breaks(n)
    /\ peer' = [c \in Clients |->
                   IF peer[c] = "gone" /\ \E n \in ns : open[n] = c
                   THEN "broken" ELSE peer[c]]
    /\ text' = [f \in Files |-> IF \E n \in ns : open[n] = f
                                THEN text[f] \cup {words} ELSE text[f]]

Unwritten == UNCHANGED <<alive, peer, text>>

\* ctx->lock lets a thread pass.  Once it is destroyed pthread_mutex_lock
\* returns EINVAL, which no caller looks at.
LockIsFree == lock \in {Nobody, Destroyed}

\* broadcast_raw: one line to every slot in use.
SlotNumbers == {fd[c] : c \in slots}

-----------------------------------------------------------------------------
(* Session threads *)

\* A step of one session thread from one place to another.
Session(c, from, to) ==
    /\ session[c] = from
    /\ session' = [session EXCEPT ![c] = to]
    /\ UNCHANGED <<stop, listen_fd, accepting, main, fdw, saved, connects, left>>

\* server_accept_loop gives a connection its thread; it looks at shutting_down
\* between two accepts, so that one more may come through.
Accept(c) ==
    /\ accepting
    /\ listen_fd # 0
    /\ session[c] = "none"
    /\ connects < MAX_CONNECTS
    /\ connects' = connects + 1
    /\ session' = [session EXCEPT ![c] = "hello"]
    /\ fd' = [fd EXCEPT ![c] = Lowest]
    /\ open' = [open EXCEPT ![Lowest] = c]
    /\ peer' = [peer EXCEPT ![c] = "up"]
    /\ accepting' = ~ stop
    /\ UNCHANGED <<alive, stop, listen_fd, slots, file, lock, main, fdw, text,
                   saved, lines, left>>

\* A client quits or dies: its side is closed.
ClientLeaves(c) ==
    /\ peer[c] = "up"
    /\ peer' = [peer EXCEPT ![c] = "gone"]
    /\ left' = TRUE
    /\ UNCHANGED <<alive, stop, listen_fd, open, fd, slots, threads, text, saved,
                   connects, lines>>

\* What a read finds once there is no line: end of file, or a number that is
\* no longer this socket.  Lines of a file in its place are no requests.
Ended(c) == open[fd[c]] # c \/ peer[c] # "up"

\* HELLO is answered without the lock.
Hello(c) ==
    /\ Session(c, "hello", "register")
    /\ ~ Ended(c)
    /\ Write({fd[c]}, "line")
    /\ UNCHANGED <<open, fd, slots, file, lock, lines>>

\* A fault: the thread returns without closing its socket.
NoHelloFault(c) ==
    /\ Session(c, "hello", "none")
    /\ Ended(c)
    /\ Unwritten
    /\ UNCHANGED <<open, fd, slots, file, lock, lines>>

NoHello(c) ==
    /\ Session(c, "hello", "close")
    /\ Ended(c)
    /\ Unwritten
    /\ UNCHANGED <<open, fd, slots, file, lock, lines>>

\* server_register_client and send_snapshot_locked.
Register(c) ==
    /\ Session(c, "register", "loop")
    /\ LockIsFree
    /\ slots' = slots \cup {c}
    /\ Write({fd[c]}, "line")
    /\ UNCHANGED <<open, fd, file, lock, lines>>

\* while (!ctx->shutting_down && ...
Loop(c) ==
    /\ Session(c, "loop", IF stop THEN "leave" ELSE "reading")
    /\ Unwritten
    /\ UNCHANGED <<open, fd, slots, file, lock, lines>>

\* ... sock_read_line(...) > 0): ORDER_CREATE, CALL_STAFF, or a request that
\* opens no file.
Request(c) ==
    /\ \E what \in {"order", "staff", "menu"} : Session(c, "reading", what)
    /\ ~ Ended(c)
    /\ lines < MAX_LINES
    /\ lines' = lines + 1
    /\ Unwritten
    /\ UNCHANGED <<open, fd, slots, file, lock>>

ReadEnds(c) ==
    /\ Session(c, "reading", "leave")
    /\ Ended(c)
    /\ Unwritten
    /\ UNCHANGED <<open, fd, slots, file, lock, lines>>

\* handle_order_create_client takes the lock and keeps it up to its broadcast.
OrderLocks(c) ==
    /\ Session(c, "order", "order log")
    /\ LockIsFree
    /\ lock' = IF lock = Nobody THEN c ELSE lock
    /\ Unwritten
    /\ UNCHANGED <<open, fd, slots, file, lines>>

\* open(2) by a session; rewrite_config_lines truncates what it opens.
Opens(c, name) ==
    /\ file' = [file EXCEPT ![c] = Lowest]
    /\ open' = [open EXCEPT ![Lowest] = name]
    /\ text' = IF name = "tables.conf.tmp" THEN [text EXCEPT ![name] = {}] ELSE text
    /\ UNCHANGED <<alive, peer>>

\* write and close of the file that a session has opened.
Finishes(c, words) ==
    /\ Write({file[c]}, words)
    /\ open' = [open EXCEPT ![file[c]] = "free"]
    /\ file' = [file EXCEPT ![c] = 0]

\* append_orders_meta, under the lock for an order and after it for a call.
LogOpens(c) ==
    /\ \/ Session(c, "order log", "order logging")
       \/ Session(c, "staff log", "staff logging")
    /\ Opens(c, "orders.log")
    /\ UNCHANGED <<fd, slots, lock, lines>>

LogEnds(c) ==
    /\ \/ Session(c, "order logging", "save")
       \/ Session(c, "staff logging", "reply")
    /\ Finishes(c, "log")
    /\ UNCHANGED <<fd, slots, lock, lines>>

\* server_save_config by the session; its rename puts nothing but its own
\* text in place.
SaveOpens(c) ==
    /\ Session(c, "save", "saving")
    /\ Opens(c, "tables.conf.tmp")
    /\ UNCHANGED <<fd, slots, lock, lines>>

SaveEnds(c) ==
    /\ Session(c, "saving", "announce")
    /\ Finishes(c, "config")
    /\ UNCHANGED <<fd, slots, lock, lines>>

\* The broadcast of the new order, and the unlock.
Announce(c) ==
    /\ Session(c, "announce", "reply")
    /\ Write(SlotNumbers, "line")
    /\ lock' = IF lock = c THEN Nobody ELSE lock
    /\ UNCHANGED <<open, fd, slots, file, lines>>

\* handle_call_staff announces the call under the lock, then writes its log.
StaffCalls(c) ==
    /\ Session(c, "staff", "staff log")
    /\ LockIsFree
    /\ Write(SlotNumbers, "line")
    /\ UNCHANGED <<open, fd, slots, file, lock, lines>>

\* handle_menu_request and all else that only takes the lock for a while.
MenuReads(c) ==
    /\ Session(c, "menu", "reply")
    /\ LockIsFree
    /\ Unwritten
    /\ UNCHANGED <<open, fd, slots, file, lock, lines>>

\* Every reply is written after the unlock, to the number of the socket.
Reply(c) ==
    /\ Session(c, "reply", "loop")
    /\ Write({fd[c]}, "line")
    /\ UNCHANGED <<open, fd, slots, file, lock, lines>>

\* A fault: the socket is closed first.
LeaveFault(c) ==
    /\ Session(c, "leave", "close")
    /\ open' = [open EXCEPT ![fd[c]] = "free"]
    /\ Unwritten
    /\ UNCHANGED <<fd, slots, file, lock, lines>>

\* server_unregister_fd, under the lock, before the socket is closed.
Leave(c) ==
    /\ Session(c, "leave", "close")
    /\ LockIsFree
    /\ slots' = {d \in slots : fd[d] # fd[c]}
    /\ Unwritten
    /\ UNCHANGED <<open, fd, file, lock, lines>>

\* shutdown and close of the number, and the end of the thread.
Close(c) ==
    /\ Session(c, "close", "none")
    /\ open' = [open EXCEPT ![fd[c]] = "free"]
    /\ peer' = [d \in Clients |->
                   IF d = c /\ open[fd[c]] = c THEN "away" ELSE peer[d]]
    /\ fd' = [fd EXCEPT ![c] = 0]
    /\ UNCHANGED <<alive, slots, file, lock, text, lines>>

\* What a session thread does without waiting for its client.
Runs(c) ==
    \/ NoHello(c) \/ Register(c) \/ Loop(c) \/ ReadEnds(c)
    \/ OrderLocks(c) \/ LogOpens(c) \/ LogEnds(c) \/ SaveOpens(c) \/ SaveEnds(c) \/ Announce(c)
    \/ StaffCalls(c) \/ MenuReads(c) \/ Reply(c) \/ Leave(c) \/ Close(c)

-----------------------------------------------------------------------------
(* The main thread *)

\* A step of the main thread from one place to another.
Step(from, to) ==
    /\ main = from
    /\ main' = to
    /\ UNCHANGED <<accepting, fd, session, file, connects, lines, left>>

\* The POS screen announces a payment or a change of the menu.
Broadcast ==
    /\ Step("screen", "screen")
    /\ LockIsFree
    /\ Write(SlotNumbers, "line")
    /\ UNCHANGED <<stop, listen_fd, open, slots, lock, fdw, saved>>

\* q, or the loop of ui_run_pos sees shutting_down.
ScreenEnds ==
    /\ Step("screen", "sync")
    /\ stop' = TRUE
    /\ Unwritten
    /\ UNCHANGED <<listen_fd, open, slots, lock, fdw, saved>>

\* sigint_handler, on the main thread, at any moment and any number of times:
\* the accept thread wakes up.
SigInt ==
    /\ stop' = TRUE
    /\ listen_fd' = 0
    /\ open' = IF listen_fd # 0 THEN [open EXCEPT ![listen_fd] = "free"] ELSE open
    /\ Unwritten
    /\ UNCHANGED <<fd, slots, threads, saved, connects, lines, left>>

\* ui_run_pos saves the plan and the config at its end (LayoutEditor and
\* ConfigStore); it takes the lock for a moment.
Sync ==
    /\ Step("sync", "close listener")
    /\ LockIsFree
    /\ Unwritten
    /\ UNCHANGED <<stop, listen_fd, open, slots, lock, fdw, saved>>

\* A fault: the listening socket is closed last.
CloseListenerFault ==
    /\ Step("close listener", "join")
    /\ stop' = TRUE
    /\ Unwritten
    /\ UNCHANGED <<listen_fd, open, slots, lock, fdw, saved>>

CloseListener ==
    /\ Step("close listener", "join")
    /\ stop' = TRUE
    /\ listen_fd' = 0
    /\ open' = IF listen_fd # 0 THEN [open EXCEPT ![listen_fd] = "free"] ELSE open
    /\ Unwritten
    /\ UNCHANGED <<slots, lock, fdw, saved>>

\* A fault: accept is not woken, it still waits on a socket that is closed.
AcceptEndsFault ==
    /\ accepting
    /\ stop
    /\ open[1] = "listener"
    /\ accepting' = FALSE
    /\ UNCHANGED <<alive, stop, listen_fd, open, peer, fd, slots, session, file,
                   lock, main, fdw, text, saved, connects, lines, left>>

\* The accept thread ends: its accept failed, since the listening socket was
\* shut down.
AcceptEnds ==
    /\ accepting
    /\ listen_fd = 0
    /\ accepting' = FALSE
    /\ UNCHANGED <<alive, stop, listen_fd, open, peer, fd, slots, session, file,
                   lock, main, fdw, text, saved, connects, lines, left>>

Join ==
    /\ ~ accepting
    /\ Step("join", "lock")
    /\ Unwritten
    /\ UNCHANGED <<stop, listen_fd, open, slots, lock, fdw, saved>>

Lock ==
    /\ Step("lock", "slots")
    /\ LockIsFree
    /\ lock' = Main
    /\ Unwritten
    /\ UNCHANGED <<stop, listen_fd, open, slots, fdw, saved>>

\* shutdown(clients[i].fd, SHUT_RDWR) ...
ShutSlot ==
    /\ Step("slots", "close slot")
    /\ \E c \in slots :
           /\ fdw' = fd[c]
           /\ peer' = [d \in Clients |-> IF open[fd[c]] = d THEN "shut" ELSE peer[d]]
    /\ UNCHANGED <<alive, stop, listen_fd, open, slots, lock, text, saved>>

\* ... and close.
CloseSlot ==
    /\ Step("close slot", "slots")
    /\ open' = [open EXCEPT ![fdw] = "free"]
    /\ slots' = {c \in slots : fd[c] # fdw}
    /\ fdw' = 0
    /\ Unwritten
    /\ UNCHANGED <<stop, listen_fd, lock, saved>>

SlotsClosed ==
    /\ Step("slots", "open old")
    /\ slots = {}
    /\ lock' = Nobody
    /\ Unwritten
    /\ UNCHANGED <<stop, listen_fd, open, slots, fdw, saved>>

\* storage_save_config and menu_save_file open a file; a .tmp is truncated.
OpensFile(name, from, to) ==
    /\ Step(from, to)
    /\ open' = [open EXCEPT ![Lowest] = name]
    /\ text' = IF name = "tables.conf" THEN text ELSE [text EXCEPT ![name] = {}]
    /\ fdw' = Lowest
    /\ UNCHANGED <<alive, stop, listen_fd, peer, slots, lock, saved>>

MainOpens ==
    \/ OpensFile("tables.conf", "open old", "read old")
    \/ OpensFile("tables.conf.tmp", "open conf", "write conf")
    \/ OpensFile("menu.csv.tmp", "open menu", "write menu")

\* The old tables.conf is read and closed; a failing read ends the save.
ReadOld ==
    /\ Step("read old", IF open[fdw] = "tables.conf" THEN "open conf"
                        ELSE "open menu")
    /\ open' = [open EXCEPT ![fdw] = "free"]
    /\ fdw' = 0
    /\ Unwritten
    /\ UNCHANGED <<stop, listen_fd, slots, lock, saved>>

\* write, fsync and close; a failing write ends the save.
WritesFile(words, from, to, otherwise) ==
    /\ Step(from, IF open[fdw] = "free" THEN otherwise ELSE to)
    /\ Write({fdw}, words)
    /\ open' = [open EXCEPT ![fdw] = "free"]
    /\ fdw' = 0
    /\ UNCHANGED <<stop, listen_fd, slots, lock, saved>>

MainWrites ==
    \/ WritesFile("config", "write conf", "rename conf", "open menu")
    \/ WritesFile("menu", "write menu", "rename menu", "destroy")

\* rename: the file counts as saved if its text is main's.
RenamesFile(name, words, from, to) ==
    /\ Step(from, to)
    /\ saved' = IF text[name] = {words} THEN saved \cup {words} ELSE saved
    /\ Unwritten
    /\ UNCHANGED <<stop, listen_fd, open, slots, lock, fdw>>

MainRenames ==
    \/ RenamesFile("tables.conf.tmp", "config", "rename conf", "open menu")
    \/ RenamesFile("menu.csv.tmp", "menu", "rename menu", "destroy")

\* pthread_mutex_destroy refuses a mutex that is held.
Destroy ==
    /\ Step("destroy", "return")
    /\ lock' = IF lock = Nobody THEN Destroyed ELSE lock
    /\ Unwritten
    /\ UNCHANGED <<stop, listen_fd, open, slots, fdw, saved>>

\* main returns: the process ends, whatever its threads were doing.
Return ==
    /\ Step("return", "done")
    /\ Unwritten
    /\ UNCHANGED <<stop, listen_fd, open, slots, lock, fdw, saved>>

Ends ==
    \/ Sync \/ CloseListener \/ Join \/ Lock \/ ShutSlot \/ CloseSlot
    \/ SlotsClosed \/ MainOpens \/ ReadOld \/ MainWrites \/ MainRenames
    \/ Destroy \/ Return

Lives ==
    \/ \E c \in Clients : Accept(c) \/ ClientLeaves(c) \/ Hello(c) \/ Request(c)
    \/ \E c \in Clients : Runs(c)
    \/ Broadcast \/ ScreenEnds \/ SigInt \/ AcceptEnds \/ Ends

Late == late' = (late \/ (main' \in Closing /\ \E c \in Clients : session'[c] \in Handling))

\* The process runs until main has returned or a SIGPIPE has ended it.
Running == alive /\ main # "done"

Next ==
    \/ Running /\ Lives /\ Late
    \/ ~ Running /\ UNCHANGED vars

Spec == Init /\ [][Next]_vars

\* Every thread runs on: a session handles the request it has read, the POS
\* thread ends once its screen has.  Nothing is assumed of clients or of who
\* gets the lock next.
FairSpec ==
    /\ Spec
    /\ WF_vars(Running /\ Ends /\ Late)
    /\ WF_vars(Running /\ ScreenEnds /\ stop /\ Late)
    /\ WF_vars(Running /\ AcceptEnds /\ Late)
    /\ \A c \in Clients : WF_vars(Running /\ Runs(c) /\ Late)

-----------------------------------------------------------------------------
(* Properties *)

Words == {"line", "log", "config", "menu"}

TypeOK ==
    /\ alive \in BOOLEAN /\ stop \in BOOLEAN
    /\ listen_fd \in {0, 1}
    /\ open \in [Numbers -> {"free", "listener"} \cup Files \cup Clients]
    /\ peer \in [Clients -> {"away", "up", "gone", "broken", "shut"}]
    /\ fd \in [Clients -> {0} \cup Numbers]
    /\ slots \subseteq Clients
    /\ session \in [Clients -> SessionSteps]
    /\ \A c \in Clients : fd[c] = 0 <=> session[c] = "none"
    /\ file \in [Clients -> {0} \cup Numbers]
    /\ lock \in {Nobody, Destroyed, Main} \cup Clients
    /\ accepting \in BOOLEAN
    /\ main \in MainSteps
    /\ fdw \in {0} \cup Numbers
    /\ text \in [Files -> SUBSET Words]
    /\ saved \subseteq Words
    /\ connects \in 0 .. MAX_CONNECTS /\ lines \in 0 .. MAX_LINES
    /\ late \in BOOLEAN /\ left \in BOOLEAN

\* Whoever is in ctx->clients is there with the number of its own socket: a
\* broadcast never goes to a file or to somebody else, although numbers are
\* given out again as soon as they are closed.
SlotsAreSockets == \A c \in slots : open[fd[c]] = c

Own(f) == IF f = "orders.log" THEN {"log"}
          ELSE IF f = "menu.csv.tmp" THEN {"menu"} ELSE {"config"}

\* If no session was handling a request when its socket was closed, and no
\* client had left, the process is not killed, no file has got text of
\* another, and once main has returned both files are saved: main's files get
\* the number of the listening socket, which is why the close that every
\* session makes too late never hits them.
QuietEndIsClean ==
    ~ late /\ ~ left =>
        /\ alive
        /\ \A f \in Files : text[f] \subseteq Own(f)
        /\ main = "done" => saved = {"config", "menu"}

\* Once told to end the process ends: nobody waits for ever for the accept
\* thread, for the lock or for a session.
ShutdownEnds == stop ~> ~ Running

(* What the documentation says and the program does not do *)

\* README.md: on SIGINT sockets and configuration are put in order.  Here it
\* is asked only of runs in which no client has left.
EndIsSafe == ~ left /\ stop => alive /\ (main = "done" => "config" \in saved)
=============================================================================
