----------------------------- MODULE OrderLife ------------------------------
(***************************************************************************)
(* What the order server promises, without threads, connections or locks:  *)
(* an order is opened once, moves by the rules, is closed for good by a    *)
(* cancellation or a payment, and a paid order is entered in the sales     *)
(* ledger at most once, or its entry is lost for good.                     *)
(***************************************************************************)
EXTENDS Integers, OrderRules

CONSTANT Ids

VARIABLES life,     \* life[id]: the order's status, "none" before it exists
          ledger    \* ledger[id]: "open", or how the SALE line ended

vars == <<life, ledger>>

Init == /\ life   = [id \in Ids |-> "none"]
        /\ ledger = [id \in Ids |-> "open"]

\* Ids are handed out in increasing order.
Open(id) ==
    /\ life[id] = "none"
    /\ \A older \in Ids : older < id => life[older] # "none"
    /\ life' = [life EXCEPT ![id] = "WAITING"]
    /\ UNCHANGED ledger

Move(id, st) ==
    /\ LegalMove(life[id], st)
    /\ life' = [life EXCEPT ![id] = st]
    /\ UNCHANGED ledger

Record(id) ==
    /\ life[id] = "PAID"
    /\ ledger[id] = "open"
    /\ \E entry \in {"sold", "lost"} : ledger' = [ledger EXCEPT ![id] = entry]
    /\ UNCHANGED life

Next == \E id \in Ids :
            \/ Open(id)
            \/ \E st \in Status : Move(id, st)
            \/ Record(id)

SafeSpec == Init /\ [][Next]_vars

\* A payment does not stay half way: its ledger entry is decided.
Spec == SafeSpec /\ \A id \in Ids : WF_vars(Record(id))
=============================================================================
