----------------------------- MODULE OrderRules -----------------------------
(***************************************************************************)
(* The pure rules of an order's life: the statuses of common.h, the moves  *)
(* that server.c lets a kitchen, a table and the POS make, and which       *)
(* orders a snapshot shows.  Everything that talks about orders extends    *)
(* this module.                                                            *)
(***************************************************************************)

\* OrderStatus of common.h.
Status == {"WAITING", "COOKING", "DONE", "PAID", "CANCELLED"}

\* The pairs valid_kitchen_transition answers 1 for.
KitchenMoves == { <<"WAITING", "COOKING">>, <<"COOKING", "DONE">>,
                  <<"WAITING", "DONE">>,    <<"DONE", "COOKING">>,
                  <<"COOKING", "WAITING">> }

valid_kitchen_transition(cur, nw) == <<cur, nw>> \in KitchenMoves

\* server_cancel_order refuses anything else with "cannot cancel after
\* cooking started".
Cancellable(st) == st = "WAITING"

\* A fault: paying what is paid already.
PayableFault(st) == st \in {"DONE", "PAID"}

\* server_pay_order refuses anything else with "not DONE".
Payable(st) == st = "DONE"

\* send_snapshot_locked and the kitchen board leave these orders out.
Closed(st) == st \in {"PAID", "CANCELLED"}

\* Every status an order can have right after `from' (used by properties).
LegalMove(from, to) ==
    \/ valid_kitchen_transition(from, to)
    \/ Cancellable(from) /\ to = "CANCELLED"
    \/ Payable(from) /\ to = "PAID"
=============================================================================
