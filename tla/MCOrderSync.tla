---------------------------- MODULE MCOrderSync -----------------------------
(* Values for the constants of OrderSync: a table or two, a kitchen.        *)
EXTENDS OrderSync, TLC

CONSTANTS t1, t2, k1

MCTableOf == t1 :> 1
MCTwoTables == (t1 :> 1) @@ (t2 :> 2)
=============================================================================
