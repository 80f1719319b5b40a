-------------------------- MODULE MCLayoutEditor ---------------------------
(* Values for the constants of LayoutEditor: a grid of two by two, room     *)
(* for three tables, and a file that is missing, damaged or already full.   *)
EXTENDS LayoutEditor

Table(id, row, col) ==
    [id |-> id, zone |-> "outside", cell |-> [row |-> row, col |-> col],
     label |-> "plain"]

MCDefaultTables == <<Table(1, 0, 0)>>

MCInitialFiles ==
    {[rows |-> 0, cols |-> 2, tables |-> <<Table(2, 1, 1)>>],
     [rows |-> 2, cols |-> 2,
      tables |-> <<Table(1, 0, 1), Table(3, 1, 0), Table(2, 1, 1)>>]}

MCSizes == {<<1, 2>>, <<2, 1>>, <<2, 2>>, <<0, 1>>}
=============================================================================
