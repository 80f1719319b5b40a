--------------------------- MODULE MCOrderServer ----------------------------
(* Values for the constants of OrderServer: a table and two kitchens.      *)
EXTENDS OrderServer, TLC

CONSTANTS t1, k1, k2

MCTableOf == t1 :> 1
=============================================================================
