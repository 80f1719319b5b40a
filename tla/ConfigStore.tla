---------------------------- MODULE ConfigStore -----------------------------
(***************************************************************************)
(* How next_order_id survives the process: storage.c rewrites              *)
(* data/tables.conf through data/tables.conf.tmp and rename, on behalf of  *)
(* two threads at once.  The session thread that creates an order saves    *)
(* while it holds ctx->lock; the POS screen saves whenever it starts, ends *)
(* or changes something, without the lock.  The process may die at any     *)
(* moment and is started again on what the disk holds.                     *)
(*                                                                         *)
(* The start is the exception to tmp and rename: where stat finds no file, *)
(* write_entire_file truncates tables.conf in place and looks at no result.*)
(* Where the load fails, main still calls server_shutdown, which saves the *)
(* next_order_id=1 that server_init left.                                  *)
(*                                                                         *)
(* Of a file only its next_order_id counts here: a number, Empty (opened   *)
(* with O_TRUNC and not written yet) or Absent.  A write that fails leaves *)
(* nothing: the text is far smaller than a block.                          *)
(***************************************************************************)
EXTENDS Integers

CONSTANTS Session,   \* whichever session thread holds ctx->lock
          Screen,    \* the POS screen, and server_shutdown after it
          MAX_ID     \* bound: no order id above this one is created

ASSUME ConfigAssumption == Session # Screen /\ MAX_ID \in Nat \ {0}

Savers == {Session, Screen}
Empty  == 0
Absent == -1

VARIABLES
    phase,          \* how far the process is, from start to end
    next_order_id,  \* ctx->cfg.next_order_id
    conf,           \* what tables.conf holds
    tmp,            \* what tables.conf.tmp holds
    step,           \* where each saver is in rewrite_config_lines
    outbuf,         \* the number each saver has formatted
    fdw,            \* the file each saver's fdw is open on
    told,           \* history: ids that clients were told, in all runs
    overlapped,     \* history: two saves were under way at once
    failed          \* history: a call of a session's save or of a start's
                    \* stat or load of an existing file failed

vars == <<phase, next_order_id, conf, tmp, step, outbuf, fdw, told,
          overlapped, failed>>

\* No save; called; formatted; tmp is open; tmp is written and closed; and
\* for the session, back in handle_order_create_client.
Steps  == {"idle", "called", "formatted", "opened", "written", "returned"}
InSave == {"called", "formatted", "opened", "written"}

\* Not running; before stat; before the default file is opened; opened with
\* O_TRUNC; before the load; the threads run; a start failed, before and in
\* server_shutdown's save.
Phases == {"down", "stat", "default", "truncated", "load", "serving",
           "ending", "ended"}

Init ==
    /\ phase = "down"
    /\ next_order_id = 1
    /\ conf = Absent
    /\ tmp = Absent
    /\ step = [s \in Savers |-> "idle"]
    /\ outbuf = [s \in Savers |-> 1]
    /\ fdw = [s \in Savers |-> "none"]
    /\ told = {}
    /\ overlapped = FALSE
    /\ failed = FALSE

\* One step of main before there are other threads.
Start(from, to) ==
    /\ phase = from
    /\ phase' = to
    /\ UNCHANGED <<tmp, step, outbuf, fdw, told, overlapped>>

server_init ==
    /\ Start("down", "stat")
    /\ next_order_id' = 1
    /\ UNCHANGED <<conf, failed>>

\* The file is there: no default is written.
StatSucceeds ==
    /\ conf # Absent
    /\ Start("stat", "load")
    /\ UNCHANGED <<next_order_id, conf, failed>>

\* There is no file, or stat fails on the one there is: the same to the code.
StatFails ==
    /\ Start("stat", "default")
    /\ failed' = (failed \/ conf # Absent)
    /\ UNCHANGED <<next_order_id, conf>>

\* write_entire_file opens tables.conf itself with O_CREAT | O_TRUNC.
OpenDefault ==
    /\ Start("default", "truncated")
    /\ conf' = Empty
    /\ UNCHANGED <<next_order_id, failed>>

OpenDefaultFails ==
    /\ Start("default", "load")
    /\ UNCHANGED <<next_order_id, conf, failed>>

\* The result of the write is not looked at.
WriteDefault ==
    /\ Start("truncated", "load")
    /\ conf' \in {1, Empty}
    /\ UNCHANGED <<next_order_id, failed>>

\* open, stat, malloc or read fails, the first at once where there is no
\* file: the counter stays what server_init made it.
LoadFails ==
    /\ Start("load", "ending")
    /\ failed' = (failed \/ conf # Absent)
    /\ UNCHANGED <<next_order_id, conf>>

\* The counter is read, an empty file for 1.  Main goes on to serve, or to
\* its end when menu.csv cannot be read or the accept thread not be made.
storage_load_config ==
    /\ conf # Absent
    /\ \E to \in {"serving", "ending"} : Start("load", to)
    /\ next_order_id' = IF conf = Empty THEN 1 ELSE conf
    /\ UNCHANGED <<conf, failed>>

main ==
    \/ server_init \/ StatSucceeds \/ StatFails
    \/ OpenDefault \/ OpenDefaultFails \/ WriteDefault
    \/ LoadFails \/ storage_load_config

\* Killed at any point, or the end of main: whatever the threads were doing
\* stops.
ProcessEnds ==
    /\ phase # "down"
    /\ phase' = "down"
    /\ step' = [s \in Savers |-> "idle"]
    /\ fdw' = [s \in Savers |-> "none"]
    /\ UNCHANGED <<next_order_id, conf, tmp, outbuf, told, overlapped, failed>>

\* server_save_config is called.
Enter(s) ==
    /\ step[s] = "idle"
    /\ step' = [step EXCEPT ![s] = "called"]
    /\ overlapped' = (overlapped \/ \E o \in Savers \ {s} : step[o] \in InSave)
    /\ UNCHANGED <<conf, tmp, outbuf, fdw, told, failed>>

\* handle_order_create_client up to its save: the order is in the table and
\* the counter is ahead of it.
handle_order_create_client ==
    /\ phase = "serving"
    /\ next_order_id <= MAX_ID
    /\ next_order_id' = next_order_id + 1
    /\ Enter(Session)
    /\ UNCHANGED phase

\* ui_run_pos at its start and end, sold-out key, saved layout; after them
\* server_shutdown of a process that served.
server_save_config ==
    /\ phase = "serving"
    /\ Enter(Screen)
    /\ UNCHANGED <<phase, next_order_id>>

\* The one save of a process whose start failed.
server_shutdown ==
    /\ phase = "ending"
    /\ phase' = "ended"
    /\ Enter(Screen)
    /\ UNCHANGED next_order_id

\* One step of rewrite_config_lines by a living process.
Advance(s, from, to) ==
    /\ step[s] = from
    /\ step' = [step EXCEPT ![s] = to]
    /\ UNCHANGED <<phase, next_order_id, told, overlapped>>

Back(s) == IF s = Session THEN "returned" ELSE "idle"

\* A call fails and the save is given up; its caller looks at no result.
GiveUp(s, from) ==
    /\ Advance(s, from, Back(s))
    /\ fdw' = [fdw EXCEPT ![s] = "none"]
    /\ failed' = (failed \/ s = Session)
    /\ UNCHANGED <<conf, tmp, outbuf>>

\* A fault: the session saves before it counts up.
FormatFault(s) ==
    /\ Advance(s, "called", "formatted")
    /\ outbuf' = [outbuf EXCEPT ![s] = IF s = Session THEN next_order_id - 1
                                       ELSE next_order_id]
    /\ UNCHANGED <<conf, tmp, fdw, failed>>

\* The old file is read, the new text is made with the counter as it is now.
Format(s) ==
    /\ Advance(s, "called", "formatted")
    /\ outbuf' = [outbuf EXCEPT ![s] = next_order_id]
    /\ UNCHANGED <<conf, tmp, fdw, failed>>

\* open(tmppath, O_CREAT | O_TRUNC | O_WRONLY): both savers share the name.
OpenTmp(s) ==
    /\ Advance(s, "formatted", "opened")
    /\ tmp' = Empty
    /\ fdw' = [fdw EXCEPT ![s] = "tmp"]
    /\ UNCHANGED <<conf, outbuf, failed>>

\* write goes to the file that was opened, whatever its name is by now.
WriteTmp(s) ==
    /\ Advance(s, "opened", "written")
    /\ tmp'  = IF fdw[s] = "tmp"  THEN outbuf[s] ELSE tmp
    /\ conf' = IF fdw[s] = "conf" THEN outbuf[s] ELSE conf
    /\ fdw' = [fdw EXCEPT ![s] = "none"]
    /\ UNCHANGED <<outbuf, failed>>

\* Where a file that is open ends up when tmp takes the name of conf.
Moved(file) == CASE file = "tmp"  -> "conf"
                 [] file = "conf" -> "unlinked"
                 [] OTHER         -> file

RenameTmp(s) ==
    /\ tmp # Absent
    /\ Advance(s, "written", Back(s))
    /\ conf' = tmp
    /\ tmp' = Absent
    /\ fdw' = [o \in Savers |-> Moved(fdw[o])]
    /\ UNCHANGED <<outbuf, failed>>

\* A fault: the old file is unlinked before the rename.
RenameNothingFault(s) ==
    /\ tmp = Absent
    /\ Advance(s, "written", Back(s))
    /\ conf' = Absent
    /\ UNCHANGED <<tmp, outbuf, fdw, failed>>

\* The other saver has renamed the file: ENOENT.
RenameNothing(s) ==
    /\ tmp = Absent
    /\ Advance(s, "written", Back(s))
    /\ UNCHANGED <<conf, tmp, outbuf, fdw, failed>>

\* A fault: the result of write is not looked at.
FailingWriteFault(s) ==
    /\ Advance(s, "opened", "written")
    /\ fdw' = [fdw EXCEPT ![s] = "none"]
    /\ failed' = (failed \/ s = Session)
    /\ UNCHANGED <<conf, tmp, outbuf>>

\* A short write: the save ends before its rename.
FailingWrite(s) == GiveUp(s, "opened")

rewrite_config_lines(s) ==
    \/ Format(s) \/ OpenTmp(s) \/ WriteTmp(s) \/ RenameTmp(s) \/ RenameNothing(s)
    \/ FailingWrite(s)
    \/ \E from \in {"called", "formatted", "written"} : GiveUp(s, from)

\* The broadcast and the ORDER_CREATED reply of the order just created.
Acknowledge ==
    /\ step[Session] = "returned"
    /\ step' = [step EXCEPT ![Session] = "idle"]
    /\ told' = told \cup {next_order_id - 1}
    /\ UNCHANGED <<phase, next_order_id, conf, tmp, outbuf, fdw, overlapped, failed>>

Next ==
    \/ main
    \/ ProcessEnds
    \/ handle_order_create_client
    \/ server_save_config
    \/ server_shutdown
    \/ \E s \in Savers : rewrite_config_lines(s)
    \/ Acknowledge

Spec == Init /\ [][Next]_vars

-----------------------------------------------------------------------------
(* Properties *)

TypeOK ==
    /\ phase \in Phases
    /\ next_order_id \in 1 .. (MAX_ID + 1)
    /\ conf \in {Absent, Empty} \cup 1 .. (MAX_ID + 1)
    /\ phase \in {"truncated", "serving"} => conf # Absent
    /\ tmp \in {Absent, Empty} \cup 1 .. (MAX_ID + 1)
    /\ step \in [Savers -> Steps]
    /\ step[Screen] # "returned"
    /\ outbuf \in [Savers -> 1 .. (MAX_ID + 1)]
    /\ fdw \in [Savers -> {"none", "tmp", "conf", "unlinked"}]
    /\ told \subseteq 1 .. MAX_ID
    /\ overlapped \in BOOLEAN
    /\ failed \in BOOLEAN

\* A save replaces tables.conf in one step: whichever call of it fails and
\* wherever the process dies, it never leaves the file empty or missing,
\* unless two saves ran at once and shared the name tmp.  The one other step
\* that empties the file is write_entire_file's at a start.
ReplaceIsAtomic ==
    [][conf' \in {Absent, Empty} /\ conf' # conf
           => overlapped \/ OpenDefault]_vars

\* An id that a client was told is not given to another order after any
\* number of restarts: the file is ahead of it before the reply goes out,
\* whatever saves of the screen and writes of the default file fail.  It can
\* be lost only if saves overlapped, a session's save failed, or a start
\* could not stat or load the file that was there.
ToldIsDurable ==
    ~ overlapped /\ ~ failed => \A id \in told : id < conf

(* What the documentation says and the program does not do *)

\* data/tables.conf: next_order_id persists counters across restarts.  Here
\* it is asked only of runs in which every system call succeeds.
CountersPersist ==
    [][handle_order_create_client /\ ~ failed => next_order_id \notin told]_vars
=============================================================================
