---------------------------- MODULE MCPosScreen -----------------------------
(* Table 1 is in the corner, table 2 two cells away.                        *)
EXTENDS PosScreen

Apart == [t \in Tables |-> [row |-> 0, col |-> 2 * (t - 1)]]
=============================================================================
