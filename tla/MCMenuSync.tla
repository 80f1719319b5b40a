----------------------------- MODULE MCMenuSync -----------------------------
(* Values of MenuSync's constants for TLC. *)
EXTENDS MenuSync

CONSTANTS t1, t2

Item(id, text) == [id |-> id, text |-> text, sold_out |-> FALSE]

MCDefault == <<Item(1, "plain")>>

\* Empty, one item, and as many as a table can still read.
MCInitFiles == {<< >>, <<Item(1, "plain")>>, <<Item(2, "plain"), Item(1, Comma)>>}
=============================================================================
