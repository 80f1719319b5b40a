------------------------ MODULE LayoutEditorProofs --------------------------
(***************************************************************************)
(* Proofs about LayoutEditor: tables keep apart, are counted, and are only *)
(* touched by a key with the cursor on them, for any grid, any room for    *)
(* tables, any plan found in the file and any number of edits.             *)
(***************************************************************************)
EXTENDS LayoutEditor, TLAPS, WellFoundedInduction, SequenceTheorems

\* What is in the file keeps apart as well as what is on the screen.
FileSetApart ==
    /\ IdsApart(file.tables)
    /\ shifted \/ CellsApart(file.tables)

Inv == TypeOK /\ TablesSetApart /\ TablesAreCounted /\ FileSetApart

\* Unless a terminal has written over it, the file holds the plan that was
\* saved or loaded last, and is missing only where that is the default plan.
KeptIsInFile ==
    ~ doubt => kept = IF file = Missing THEN layout_init_default ELSE file

-----------------------------------------------------------------------------
(* Least and greatest of a set of numbers, and what follows for the two     *)
(* searches of the module.                                                  *)

\* A set of natural numbers has a least one.
LEMMA HasLeast ==
    ASSUME NEW S \in SUBSET Nat, S # {}
    PROVE  \E n \in S : \A k \in S : n <= k
<1> DEFINE R == OpToRel(<, Nat)
<1>1. IsWellFoundedOn(R, Nat)
  BY NatLessThanWellFounded
<1>2. PICK n \in S : \A k \in S : ~ (<<k, n>> \in R)
  <2> HIDE DEF R
  <2> QED BY <1>1, WFMin
<1>3. \A k \in S : ~ (k < n)
  BY <1>2 DEF OpToRel
<1> QED
  BY <1>3

\* A set of natural numbers up to M has a greatest one.
LEMMA HasGreatest ==
    ASSUME NEW M \in Nat, NEW S \in SUBSET (0 .. M), S # {}
    PROVE  \E n \in S : \A k \in S : k <= n
<1> DEFINE T == {t \in Nat : M - t \in S}
<1>1. \A k \in S : M - k \in T
  <2> TAKE k \in S
  <2>1. M - k \in Nat /\ M - (M - k) = k
    OBVIOUS
  <2> QED BY <2>1
<1>2. PICK x \in T : \A t \in T : x <= t
  <2>1. T \in SUBSET Nat /\ T # {}
    BY <1>1
  <2> HIDE DEF T
  <2> QED BY <2>1, HasLeast
<1>3. M - x \in S /\ x \in Nat
  OBVIOUS
<1>4. ASSUME NEW k \in S PROVE k <= M - x
  <2>1. x <= M - k
    BY <1>1, <1>2
  <2> QED BY <1>3, <2>1
<1> QED
  BY <1>3, <1>4

\* What the places of the array hold.
LEMMA Fields ==
    ASSUME NEW ts \in Seq(Tables)
    PROVE  /\ Len(ts) \in Nat /\ DOMAIN ts = 1 .. Len(ts)
           /\ \A i \in DOMAIN ts : /\ ts[i] \in Tables
                                  /\ ts[i].id \in 1 .. MAX_ID
                                  /\ ts[i].id \in Nat
                                  /\ ts[i].cell \in Cells
<1>1. Len(ts) \in Nat /\ DOMAIN ts = 1 .. Len(ts)
  BY LenProperties
<1>2. \A i \in DOMAIN ts : ts[i] \in Tables
  BY <1>1, ElementOfSeq
<1>3. \A t \in Tables : t.id \in 1 .. MAX_ID /\ t.id \in Nat /\ t.cell \in Cells
  BY SizesAssumption DEF Tables
<1> QED
  BY <1>1, <1>2, <1>3

\* layout_find_at finds a table in the cell if there is one.
LEMMA FindIndex ==
    ASSUME NEW ts \in Seq(Tables), NEW cell
    PROVE  /\ find_index(ts, cell) \in 0 .. Len(ts)
           /\ find_index(ts, cell) # 0 => ts[find_index(ts, cell)].cell = cell
           /\ find_index(ts, cell) = 0 => \A i \in DOMAIN ts : ts[i].cell # cell
<1> DEFINE there == {i \in DOMAIN ts : ts[i].cell = cell}
<1>1. there \in SUBSET Nat /\ there \subseteq 1 .. Len(ts) /\ DOMAIN ts = 1 .. Len(ts)
  OBVIOUS
<1>2. CASE there = {}
  BY <1>1, <1>2 DEF find_index
<1>3. CASE there # {}
  <2>1. find_index(ts, cell) \in there
    <3>1. \E i \in there : \A j \in there : i <= j
      <4> HIDE DEF there
      <4> QED BY <1>1, <1>3, HasLeast
    <3> QED BY <1>3, <3>1 DEF find_index
  <2> QED BY <1>1, <2>1
<1> QED
  BY <1>2, <1>3

\* layout_max_table_id is a number, and no id is above it.
LEMMA MaxTableId ==
    ASSUME NEW ts \in Seq(Tables)
    PROVE  /\ layout_max_table_id(ts) \in 0 .. MAX_ID
           /\ \A i \in DOMAIN ts : ts[i].id <= layout_max_table_id(ts)
<1> DEFINE ids == {0} \cup {ts[i].id : i \in DOMAIN ts}
<1>1. ids \in SUBSET (0 .. MAX_ID) /\ ids # {}
  <2>1. \A i \in DOMAIN ts : ts[i].id \in 0 .. MAX_ID
    BY Fields, SizesAssumption
  <2>2. 0 \in 0 .. MAX_ID
    BY SizesAssumption
  <2> QED BY <2>1, <2>2
<1>2. \E n \in ids : \A k \in ids : k <= n
  <2> HIDE DEF ids
  <2> QED BY <1>1, HasGreatest, SizesAssumption
<1>3. layout_max_table_id(ts) \in ids /\ \A k \in ids : k <= layout_max_table_id(ts)
  <2>1. layout_max_table_id(ts) = CHOOSE n \in ids : \A i \in DOMAIN ts : ts[i].id <= n
    BY DEF layout_max_table_id
  <2>2. \E n \in ids : \A i \in DOMAIN ts : ts[i].id <= n
    BY <1>2
  <2>3. layout_max_table_id(ts) \in ids /\ \A i \in DOMAIN ts : ts[i].id <= layout_max_table_id(ts)
    <3> HIDE DEF ids
    <3> QED BY <2>1, <2>2
  <2> QED BY <2>3, <1>1, SizesAssumption
<1> QED
  BY <1>1, <1>3

\* ui_pos_sync_max_tables counts every table of the plan.
LEMMA SyncedCounts ==
    ASSUME NEW n \in Nat, NEW ts \in Seq(Tables)
    PROVE  /\ Synced(n, ts) \in Nat
           /\ n <= Synced(n, ts)
           /\ \A i \in DOMAIN ts : ts[i].id <= Synced(n, ts)
<1>1. \A i \in DOMAIN ts : ts[i].id \in Nat
  BY Fields
<1>2. layout_max_table_id(ts) \in Nat
  BY MaxTableId, SizesAssumption
<1>3. \A i \in DOMAIN ts : ts[i].id <= layout_max_table_id(ts)
  BY MaxTableId
<1>4. CASE layout_max_table_id(ts) > n
  BY <1>1, <1>2, <1>3, <1>4 DEF Synced
<1>5. CASE ~ (layout_max_table_id(ts) > n)
  BY <1>1, <1>2, <1>3, <1>5 DEF Synced
<1> QED
  BY <1>4, <1>5

-----------------------------------------------------------------------------
(* What each change makes of a plan *)

\* A plan with a grid that fits the screen and tables that fit the array.
Fits(p) == /\ p \in Plans
           /\ p.rows \in 1 .. MAX_GRID_ROWS /\ p.cols \in 1 .. MAX_GRID_COLS
           /\ Len(p.tables) <= MAX_LAYOUT_TABLES

\* A function on 1 .. n is a sequence of length n.
LEMMA MadeSeq ==
    ASSUME NEW S, NEW n \in Nat, NEW f \in [1 .. n -> S]
    PROVE  f \in Seq(S) /\ Len(f) = n
<1>1. f \in Seq(S)
  BY SeqDef
<1>2. DOMAIN f = 1 .. n /\ DOMAIN f = 1 .. Len(f) /\ Len(f) \in Nat
  BY <1>1, LenProperties
<1> QED
  BY <1>1, <1>2

\* layout_init_default is a plan that fits, with tables apart.
LEMMA DefaultPlan ==
    /\ Fits(layout_init_default)
    /\ IdsApart(layout_init_default.tables) /\ CellsApart(layout_init_default.tables)
    /\ layout_init_default.tables = DefaultTables
BY SizesAssumption, DefaultAssumption
   DEF Fits, Plans, layout_init_default

\* layout_load gives a plan that fits; it keeps ids, and so keeps them apart,
\* and keeps cells apart unless a label is read back as a place.
LEMMA LoadedPlan ==
    ASSUME NEW text \in Plans
    PROVE  /\ Fits(layout_load(text))
           /\ IdsApart(text.tables) => IdsApart(layout_load(text).tables)
           /\ /\ CellsApart(text.tables)
              /\ \A i \in DOMAIN text.tables :
                     ReadBack(text.tables[i]).cell = text.tables[i].cell
              => CellsApart(layout_load(text).tables)
<1>1. CASE text.tables = << >>
  BY <1>1, DefaultPlan DEF layout_load
<1>2. CASE text.tables # << >>
  <2> DEFINE n == Least(Len(text.tables), MAX_LAYOUT_TABLES)
             ts == [i \in 1 .. n |-> ReadBack(text.tables[i])]
  <2>1. text.tables \in Seq(Tables)
    BY DEF Plans
  <2>2. n \in Nat /\ n <= Len(text.tables) /\ n <= MAX_LAYOUT_TABLES
    BY <2>1, Fields, SizesAssumption DEF Least
  <2>3. \A i \in 1 .. n : i \in DOMAIN text.tables
    BY <2>1, <2>2, Fields
  <2>4. \A t \in Tables : ReadBack(t) \in Tables /\ ReadBack(t).id = t.id
    <3> TAKE t \in Tables
    <3>1. [row |-> 0, col |-> 0] \in Cells
      BY SizesAssumption DEF Cells, Rows, Cols
    <3>2. CASE t.label = "fields"
      <4>1. [[t EXCEPT !.cell = [row |-> 0, col |-> 0]] EXCEPT !.label = "plain"] \in Tables
        BY <3>1 DEF Tables, Labels
      <4> QED BY <3>2, <4>1 DEF ReadBack, Tables
    <3>3. CASE t.label # "fields"
      BY <3>3 DEF ReadBack
    <3> QED BY <3>2, <3>3
  <2>5. \A i \in 1 .. n : /\ ReadBack(text.tables[i]) \in Tables
                          /\ ReadBack(text.tables[i]).id = text.tables[i].id
    BY <2>1, <2>3, <2>4, Fields
  <2>6. ts \in [1 .. n -> Tables]
    BY <2>5
  <2>7. ts \in Seq(Tables) /\ Len(ts) = n /\ DOMAIN ts = 1 .. n
    <3> HIDE DEF n, ts
    <3> QED BY <2>2, <2>6, MadeSeq
  <2>8. layout_load(text) = [rows |-> IF text.rows \in 1 .. MAX_GRID_ROWS THEN text.rows ELSE FallbackRows,
                             cols |-> IF text.cols \in 1 .. MAX_GRID_COLS THEN text.cols ELSE FallbackCols,
                             tables |-> ts]
    BY <1>2 DEF layout_load
  <2>9. layout_load(text).tables = ts
    BY <2>8
  <2>10. Fits(layout_load(text))
    <3> HIDE DEF n, ts
    <3> QED BY <2>2, <2>7, <2>8, SizesAssumption DEF Fits, Plans
  <2>11. IdsApart(text.tables) => IdsApart(ts)
    BY <2>3, <2>5, <2>7 DEF IdsApart
  <2>12. /\ CellsApart(text.tables)
         /\ \A i \in DOMAIN text.tables :
                ReadBack(text.tables[i]).cell = text.tables[i].cell
         => CellsApart(ts)
    BY <2>3, <2>7 DEF CellsApart
  <2> QED
    BY <2>9, <2>10, <2>11, <2>12
<1> QED
  BY <1>1, <1>2

\* ui_pos_layout_remove_at takes away the k-th table and no other.
LEMMA Removed ==
    ASSUME NEW ts \in Seq(Tables), NEW k \in 1 .. Len(ts)
    PROVE  LET r == ui_pos_layout_remove_at(ts, k)
           IN  /\ r \in Seq(Tables) /\ Len(r) = Len(ts) - 1 /\ DOMAIN r = 1 .. Len(ts) - 1
               /\ \A i \in DOMAIN r : \E j \in DOMAIN ts : r[i] = ts[j]
               /\ \A j \in DOMAIN ts : j # k => \E i \in DOMAIN r : r[i] = ts[j]
               /\ IdsApart(ts) => IdsApart(r)
               /\ CellsApart(ts) => CellsApart(r)
<1> DEFINE r == ui_pos_layout_remove_at(ts, k)
           old(i) == IF i < k THEN i ELSE i + 1
<1>1. Len(ts) \in Nat /\ DOMAIN ts = 1 .. Len(ts) /\ Len(ts) - 1 \in Nat
  BY Fields
<1>2. \A i \in 1 .. Len(ts) - 1 : old(i) \in 1 .. Len(ts) /\ old(i) # k
  BY <1>1
<1>3. r = [i \in 1 .. Len(ts) - 1 |-> ts[old(i)]]
  BY <1>1 DEF ui_pos_layout_remove_at
<1>4. r \in [1 .. Len(ts) - 1 -> Tables]
  BY <1>1, <1>2, <1>3, Fields
<1>5. r \in Seq(Tables) /\ Len(r) = Len(ts) - 1 /\ DOMAIN r = 1 .. Len(ts) - 1
  BY <1>1, <1>4, MadeSeq
<1>6. \A i \in DOMAIN r : old(i) \in DOMAIN ts /\ r[i] = ts[old(i)]
  BY <1>1, <1>2, <1>3, <1>5
<1>7. ASSUME NEW j \in DOMAIN ts, j # k PROVE \E i \in DOMAIN r : r[i] = ts[j]
  <2>1. CASE j < k
    <3>1. j \in DOMAIN r /\ old(j) = j
      BY <1>1, <1>5, <2>1
    <3> QED BY <1>6, <3>1
  <2>2. CASE ~ (j < k)
    <3>1. j - 1 \in DOMAIN r /\ old(j - 1) = j
      BY <1>1, <1>5, <1>7, <2>2
    <3> QED BY <1>6, <3>1
  <2> QED BY <2>1, <2>2
<1>8. \A i, j \in DOMAIN r : old(i) = old(j) => i = j
  BY <1>1, <1>5
<1>9. IdsApart(ts) => IdsApart(r)
  <2> HIDE DEF r, old
  <2> QED BY <1>6, <1>8 DEF IdsApart
<1>10. CellsApart(ts) => CellsApart(r)
  <2> HIDE DEF r, old
  <2> QED BY <1>6, <1>8 DEF CellsApart
<1> QED
  BY <1>5, <1>6, <1>7, <1>9, <1>10

\* A table with a new id on a free cell.
LEMMA Appended ==
    ASSUME NEW ts \in Seq(Tables), NEW t \in Tables
    PROVE  LET r == Append(ts, t)
           IN  /\ r \in Seq(Tables) /\ Len(r) = Len(ts) + 1
               /\ \A i \in DOMAIN ts : i \in DOMAIN r /\ r[i] = ts[i]
               /\ \A i \in DOMAIN r : r[i] = t \/ \E j \in DOMAIN ts : r[i] = ts[j]
               /\ IdsApart(ts) /\ (\A i \in DOMAIN ts : ts[i].id # t.id) => IdsApart(r)
               /\ CellsApart(ts) /\ (\A i \in DOMAIN ts : ts[i].cell # t.cell) => CellsApart(r)
<1> DEFINE r == Append(ts, t)
<1>1. /\ r \in Seq(Tables) /\ Len(r) = Len(ts) + 1
      /\ \A i \in 1 .. Len(ts) : r[i] = ts[i]
      /\ r[Len(ts) + 1] = t
  BY AppendProperties
<1>2. Len(ts) \in Nat /\ DOMAIN ts = 1 .. Len(ts) /\ DOMAIN r = 1 .. Len(ts) + 1
  BY <1>1, Fields
<1>3. \A i \in DOMAIN r : (i \in DOMAIN ts /\ r[i] = ts[i]) \/ (i = Len(ts) + 1 /\ r[i] = t)
  BY <1>1, <1>2
<1>4. \A i \in DOMAIN ts : i \in DOMAIN r /\ r[i] = ts[i]
  BY <1>1, <1>2
<1> HIDE DEF r
<1>5. IdsApart(ts) /\ (\A i \in DOMAIN ts : ts[i].id # t.id) => IdsApart(r)
  BY <1>3 DEF IdsApart
<1>6. CellsApart(ts) /\ (\A i \in DOMAIN ts : ts[i].cell # t.cell) => CellsApart(r)
  BY <1>3 DEF CellsApart
<1>7. \A i \in DOMAIN r : r[i] = t \/ \E j \in DOMAIN ts : r[i] = ts[j]
  BY <1>3
<1> QED
  BY <1>1, <1>4, <1>5, <1>6, <1>7 DEF r

\* Zone or label of the k-th table: ids, cells and the other tables stay.
LEMMA Relabelled ==
    ASSUME NEW ts \in Seq(Tables), NEW k \in 1 .. Len(ts), NEW t \in Tables,
           t.id = ts[k].id, t.cell = ts[k].cell
    PROVE  LET r == [ts EXCEPT ![k] = t]
           IN  /\ r \in Seq(Tables) /\ Len(r) = Len(ts) /\ DOMAIN r = DOMAIN ts
               /\ \A i \in DOMAIN ts : r[i].id = ts[i].id /\ r[i].cell = ts[i].cell
               /\ \A i \in DOMAIN ts : i # k => r[i] = ts[i]
               /\ IdsApart(ts) => IdsApart(r)
               /\ CellsApart(ts) => CellsApart(r)
<1> DEFINE r == [ts EXCEPT ![k] = t]
<1>1. /\ r \in Seq(Tables) /\ Len(r) = Len(ts)
      /\ \A i \in 1 .. Len(ts) : r[i] = IF i = k THEN t ELSE ts[i]
  BY ExceptSeq
<1>2. DOMAIN ts = 1 .. Len(ts) /\ DOMAIN r = 1 .. Len(ts)
  BY <1>1, Fields
<1>3. \A i \in DOMAIN ts : r[i].id = ts[i].id /\ r[i].cell = ts[i].cell
  BY <1>1, <1>2
<1> HIDE DEF r
<1>4. (IdsApart(ts) => IdsApart(r)) /\ (CellsApart(ts) => CellsApart(r))
  BY <1>2, <1>3 DEF IdsApart, CellsApart
<1> QED
  BY <1>1, <1>2, <1>3, <1>4 DEF r

-----------------------------------------------------------------------------
(* Every step keeps the types *)

\* A cursor moved back into a smaller grid is one of its cells (ui.c 2007-2012).
LEMMA ClampedCell ==
    ASSUME cursor \in Cells, NEW rows \in 1 .. MAX_GRID_ROWS, NEW cols \in 1 .. MAX_GRID_COLS
    PROVE  /\ Clamped(rows, cols) \in Cells
           /\ Clamped(rows, cols).row < rows /\ Clamped(rows, cols).col < cols
<1>1. cursor.row \in 0 .. MAX_GRID_ROWS - 1 /\ cursor.col \in 0 .. MAX_GRID_COLS - 1
  BY DEF Cells, Rows, Cols
<1>2. /\ Least(cursor.row, rows - 1) \in 0 .. MAX_GRID_ROWS - 1
      /\ Least(cursor.row, rows - 1) < rows
      /\ Least(cursor.col, cols - 1) \in 0 .. MAX_GRID_COLS - 1
      /\ Least(cursor.col, cols - 1) < cols
  BY <1>1, SizesAssumption DEF Least
<1> QED
  BY <1>2 DEF Clamped, Cells, Rows, Cols

\* The table that key a adds, and its id, which no table on the plan has.
LEMMA Added ==
    ASSUME TypeOK, NextId <= MAX_ID
    PROVE  LET new == [id |-> NextId, zone |-> "outside", cell |-> cursor, label |-> "plain"]
           IN  new \in Tables /\ \A i \in DOMAIN layout.tables : layout.tables[i].id # new.id
<1> DEFINE top == layout_max_table_id(layout.tables)
           ids == {top} \cup {vacated[i] : i \in DOMAIN vacated \cap {1}}
<1>1. layout.tables \in Seq(Tables) /\ vacated \in Seq(1 .. MAX_ID) /\ cursor \in Cells
  BY DEF TypeOK, Plans
<1>2. top \in 0 .. MAX_ID /\ \A i \in DOMAIN layout.tables : layout.tables[i].id <= top
  BY <1>1, MaxTableId
<1>3. \A i \in DOMAIN vacated : vacated[i] \in 0 .. MAX_ID
  <2>1. \A i \in DOMAIN vacated : vacated[i] \in 1 .. MAX_ID
    BY <1>1, ElementOfSeq, LenProperties
  <2> QED BY <2>1, SizesAssumption
<1>4. ids \in SUBSET (0 .. MAX_ID) /\ ids # {} /\ top \in ids
  <2> HIDE DEF top
  <2> QED BY <1>2, <1>3
<1>5. \E n \in ids : \A k \in ids : k <= n
  <2> HIDE DEF ids
  <2> QED BY <1>4, HasGreatest, SizesAssumption
<1>6. PICK n \in ids : NextId = 1 + n /\ \A k \in ids : k <= n
  <2> DEFINE best == CHOOSE n \in ids : \A k \in ids : k <= n
  <2>1. NextId = 1 + best
    BY DEF NextId
  <2>2. best \in ids /\ \A k \in ids : k <= best
    <3> HIDE DEF ids
    <3> QED BY <1>5
  <2> HIDE DEF ids, best
  <2> QED BY <2>1, <2>2
<1> HIDE DEF top, ids
<1>7. NextId \in 1 .. MAX_ID /\ top < NextId
  BY <1>2, <1>4, <1>6, SizesAssumption
<1>8. \A i \in DOMAIN layout.tables : layout.tables[i].id # NextId
  BY <1>1, <1>2, <1>7, Fields
<1> QED
  BY <1>1, <1>7, <1>8 DEF Tables, Zones, Labels

\* What is under the cursor is a table of the plan, or none.
LEMMA SelectedTable ==
    ASSUME TypeOK
    PROVE  /\ Selected \in 0 .. Len(layout.tables) /\ Selected \in 0 .. MAX_LAYOUT_TABLES
           /\ Selected # 0 => /\ Selected \in 1 .. Len(layout.tables)
                              /\ Selected \in DOMAIN layout.tables
                              /\ layout.tables[Selected].cell = cursor
<1>1. layout.tables \in Seq(Tables)
  BY DEF TypeOK, Plans
<1>2. vacated \in Seq(1 .. MAX_ID)
  BY DEF TypeOK
<1>3. Len(layout.tables) \in Nat /\ DOMAIN layout.tables = 1 .. Len(layout.tables) /\ Len(vacated) \in Nat
  BY <1>1, <1>2, Fields, LenProperties
<1>4. Len(layout.tables) <= MAX_LAYOUT_TABLES
  BY <1>3, SizesAssumption DEF TypeOK
<1>5. /\ Selected \in 0 .. Len(layout.tables)
      /\ Selected # 0 => layout.tables[Selected].cell = cursor
  BY <1>1, FindIndex DEF Selected
<1> QED
  BY <1>3, <1>4, <1>5, SizesAssumption

\* Enter never moves a table: the cell under the cursor is taken by the very
\* table that is selected.
LEMMA EnterMovesNothing ==
    TypeOK /\ KeyEnter => layout' = layout
BY DEF KeyEnter, Selected

\* Keys z and l put another table description in the place of the selected
\* one, with its id and cell.
LEMMA RelabelOne ==
    ASSUME TypeOK, KeyZoneOrLabel
    PROVE  \E t \in Tables :
               /\ layout' = [layout EXCEPT !.tables = [layout.tables EXCEPT ![Selected] = t]]
               /\ t.id = layout.tables[Selected].id
               /\ t.cell = layout.tables[Selected].cell
<1> DEFINE ts == layout.tables
<1>1. ts \in Seq(Tables) /\ layout \in Plans
  BY DEF TypeOK, Plans
<1>2. Selected \in DOMAIN ts
  BY SelectedTable DEF KeyZoneOrLabel
<1>3. ts[Selected] \in Tables
  BY <1>1, <1>2, Fields
<1>4. CASE \E z \in Zones : layout' = [layout EXCEPT !.tables[Selected].zone = z]
  <2>1. PICK z \in Zones : layout' = [layout EXCEPT !.tables[Selected].zone = z]
    BY <1>4
  <2> DEFINE t == [ts[Selected] EXCEPT !.zone = z]
  <2>2. t \in Tables /\ t.id = ts[Selected].id /\ t.cell = ts[Selected].cell
    BY <1>3 DEF Tables
  <2>3. layout' = [layout EXCEPT !.tables = [ts EXCEPT ![Selected] = t]]
    BY <2>1
  <2> QED BY <2>2, <2>3
<1>5. CASE \E text \in Labels : layout' = [layout EXCEPT !.tables[Selected].label = text]
  <2>1. PICK text \in Labels : layout' = [layout EXCEPT !.tables[Selected].label = text]
    BY <1>5
  <2> DEFINE t == [ts[Selected] EXCEPT !.label = text]
  <2>2. t \in Tables /\ t.id = ts[Selected].id /\ t.cell = ts[Selected].cell
    BY <1>3 DEF Tables
  <2>3. layout' = [layout EXCEPT !.tables = [ts EXCEPT ![Selected] = t]]
    BY <2>1
  <2> QED BY <2>2, <2>3
<1> QED
  BY <1>4, <1>5 DEF KeyZoneOrLabel

\* A step keeps the types.  Only starting, the grid size and the keys a, d, z
\* and l touch the plan.
LEMMA TypeStep == TypeOK /\ [Next]_vars => TypeOK'
<1> SUFFICES ASSUME TypeOK, [Next]_vars PROVE TypeOK'
  OBVIOUS
<1> USE DEF TypeOK, InGrid
<1>0. layout.tables \in Seq(Tables) /\ vacated \in Seq(1 .. MAX_ID)
      /\ Len(layout.tables) \in Nat /\ Len(vacated) \in Nat
  BY Fields, LenProperties DEF Plans
<1>1. ASSUME NEW written \in BOOLEAN, NEW read \in BOOLEAN, Start(written, read) PROVE TypeOK'
  <2>1. file' \in Plans
    BY <1>1, DefaultPlan DEF Start, Fits
  <2>2. Fits(layout')
    BY <1>1, <2>1, DefaultPlan, LoadedPlan DEF Start
  <2>3. vacated' = << >> /\ Len(vacated') = 0 /\ vacated' \in Seq(1 .. MAX_ID)
    BY <1>1 DEF Start
  <2>4. LoadedMax \in Nat
    BY SizesAssumption DEF LoadedMax
  <2>5. max_tables' \in Nat /\ saved_max' \in Nat
    BY ZenonT(40), <1>1, <2>2, <2>4, SyncedCounts DEF Start, SyncedAtStart, SaveMax, Fits, Plans
  <2>6. cursor' \in Cells /\ InGrid(cursor)'
    <3>1. cursor' = [row |-> 0, col |-> 0]
      BY <1>1, Zenon DEF Start
    <3>2. layout'.rows > 0 /\ layout'.cols > 0
      BY <2>2, SizesAssumption DEF Fits
    <3>3. [row |-> 0, col |-> 0] \in Cells
      BY SizesAssumption DEF Cells, Rows, Cols
    <3> QED BY <3>1, <3>2, <3>3
  <2>7. Len(layout'.tables) + Len(vacated') <= MAX_LAYOUT_TABLES
    <3>1. Len(layout'.tables) \in Nat
      BY <2>2, Fields DEF Fits, Plans
    <3> QED BY <2>2, <2>3, <3>1, SizesAssumption DEF Fits
  <2>8. /\ layout' \in Plans
        /\ layout'.rows \in 1 .. MAX_GRID_ROWS /\ layout'.cols \in 1 .. MAX_GRID_COLS
    BY <2>2 DEF Fits
  <2>9. shifted' \in BOOLEAN
    BY <1>1, Zenon DEF Start
  <2>10. /\ up' \in BOOLEAN /\ tab' \in {"home", "layout", "other"} /\ move_mode' \in BOOLEAN
         /\ terminal' = terminal /\ edits' = edits /\ kept' = kept /\ doubt' = doubt
    BY <1>1, Zenon DEF Start
  <2>11. edit' \in 0 .. MAX_LAYOUT_TABLES
    <3>1. edit' = 0
      BY <1>1, Zenon DEF Start
    <3> QED BY <3>1, SizesAssumption
  <2> QED BY <2>1, <2>3, <2>5, <2>6, <2>7, <2>8, <2>9, <2>10, <2>11
<1>2. ASSUME Ends PROVE /\ up' \in BOOLEAN /\ layout' \in Plans
                        /\ layout'.rows \in 1 .. MAX_GRID_ROWS /\ layout'.cols \in 1 .. MAX_GRID_COLS
                        /\ vacated' \in Seq(1 .. MAX_ID)
                        /\ Len(layout'.tables) + Len(vacated') <= MAX_LAYOUT_TABLES
                        /\ cursor' \in Cells /\ InGrid(cursor)'
                        /\ tab' \in {"home", "layout", "other"}
                        /\ edit' \in 0 .. MAX_LAYOUT_TABLES /\ move_mode' \in BOOLEAN
                        /\ terminal' = terminal /\ edits' = edits /\ doubt' = doubt /\ shifted' = shifted
  <2>1. Fits(layout') /\ vacated' = << >> /\ cursor' = [row |-> 0, col |-> 0]
    BY <1>2, DefaultPlan DEF Ends
  <2>2. Len(layout'.tables) \in Nat
    BY <2>1, Fields DEF Fits, Plans
  <2>3. Len(layout'.tables) + Len(vacated') <= MAX_LAYOUT_TABLES /\ vacated' \in Seq(1 .. MAX_ID)
    BY <2>1, <2>2, SizesAssumption DEF Fits
  <2>4. cursor' \in Cells /\ InGrid(cursor)'
    BY <2>1, SizesAssumption DEF Cells, Rows, Cols, Fits
  <2>5. /\ up' \in BOOLEAN /\ tab' \in {"home", "layout", "other"} /\ move_mode' \in BOOLEAN
        /\ terminal' = terminal /\ edits' = edits /\ doubt' = doubt /\ shifted' = shifted
    BY <1>2, Zenon DEF Ends
  <2>6. edit' \in 0 .. MAX_LAYOUT_TABLES
    <3>1. edit' = 0
      BY <1>2, Zenon DEF Ends
    <3> QED BY <3>1, SizesAssumption
  <2>7. /\ layout' \in Plans
        /\ layout'.rows \in 1 .. MAX_GRID_ROWS /\ layout'.cols \in 1 .. MAX_GRID_COLS
    BY <2>1 DEF Fits
  <2> QED BY <2>1, <2>3, <2>4, <2>5, <2>6, <2>7
<1>3. CASE Exit
  <2>1. file' \in Plans /\ kept' \in Plans
    BY <1>3 DEF Exit, layout_save
  <2>2. max_tables' \in Nat /\ saved_max' \in Nat
    BY <1>0, <1>3, SyncedCounts DEF Exit, SaveMax
  <2>3. Ends
    BY <1>3 DEF Exit
  <2> QED BY <1>2, <2>1, <2>2, <2>3
<1>4. CASE Crash
  <2>1. Ends /\ UNCHANGED <<file, kept, max_tables, saved_max>>
    BY <1>4 DEF Crash, config
  <2> QED BY <1>2, <2>1
<1>5. CASE OthersSaveConfig
  BY <1>5 DEF OthersSaveConfig, SaveMax, screen
<1>20. CASE StartFails
  <2>1. max_tables' \in Nat /\ saved_max' \in Nat
    BY <1>20, SizesAssumption DEF StartFails, LoadedMax, SaveMax
  <2> QED BY <1>20, <2>1 DEF StartFails, screen
<1>6. CASE TerminalLooks
  BY <1>6 DEF TerminalLooks, screen, config
<1>7. CASE TerminalWrites
  BY <1>7, DefaultPlan DEF TerminalWrites, screen, config, Fits
<1>8. CASE Arrow
  <2>1. find_index(layout.tables, cursor') \in 0 .. Len(layout.tables)
    BY <1>0, FindIndex
  <2>2. edit' \in 0 .. MAX_LAYOUT_TABLES
    BY <1>0, <1>8, <2>1, SizesAssumption DEF Arrow
  <2> QED BY <1>8, <2>2 DEF Arrow, config
<1>9. CASE ShowTab
  <2>1. find_index(layout.tables, cursor) \in 0 .. Len(layout.tables)
    BY <1>0, FindIndex
  <2>2. edit' \in 0 .. MAX_LAYOUT_TABLES
    BY <1>0, <1>9, <2>1, SizesAssumption DEF ShowTab
  <2> QED BY <1>9, <2>2 DEF ShowTab, config
<1>10. CASE EnterAtHome
  BY <1>10 DEF EnterAtHome, config
<1>11. Edit => edits' \in 0 .. MAX_EDITS
  BY SizesAssumption DEF Edit
<1>12. CASE KeyGridSize
  <2>1. PICK size \in Sizes :
            /\ size \in (1 .. MAX_GRID_ROWS) \X (1 .. MAX_GRID_COLS)
            /\ layout' = [layout EXCEPT !.rows = size[1], !.cols = size[2]]
            /\ cursor' = Clamped(size[1], size[2])
    BY <1>12 DEF KeyGridSize
  <2>2. size[1] \in 1 .. MAX_GRID_ROWS /\ size[2] \in 1 .. MAX_GRID_COLS
    BY <2>1
  <2>3. /\ layout' \in Plans /\ layout'.tables = layout.tables
        /\ layout'.rows = size[1] /\ layout'.cols = size[2]
    BY <2>1, <2>2, SizesAssumption DEF Plans
  <2>4. cursor' \in Cells /\ InGrid(cursor)'
    BY <2>1, <2>2, <2>3, ClampedCell
  <2>5. edit' \in 0 .. MAX_LAYOUT_TABLES
    BY <1>12, SelectedTable DEF KeyGridSize
  <2> QED BY <1>11, <1>12, <2>2, <2>3, <2>4, <2>5 DEF KeyGridSize, Edit, LayoutKey
<1>13. CASE KeyAdd
  <2> DEFINE new == [id |-> NextId, zone |-> "outside", cell |-> cursor, label |-> "plain"]
  <2>1. new \in Tables
    BY <1>13, Added DEF KeyAdd
  <2>2. layout' = [layout EXCEPT !.tables = Append(@, new)]
    BY <1>13 DEF KeyAdd
  <2>room. Len(layout.tables) < MAX_LAYOUT_TABLES /\ edit' = Len(layout'.tables)
    BY <1>13 DEF KeyAdd
  <2>3. /\ Append(layout.tables, new) \in Seq(Tables)
        /\ Len(Append(layout.tables, new)) = Len(layout.tables) + 1
    BY <1>0, <2>1, AppendProperties
  <2>4. /\ layout' \in Plans /\ layout'.tables = Append(layout.tables, new)
        /\ layout'.rows = layout.rows /\ layout'.cols = layout.cols
    BY <2>2, <2>3 DEF Plans
  <2>5. /\ vacated' \in Seq(1 .. MAX_ID) /\ Len(vacated') \in Nat
        /\ Len(vacated') = Len(vacated) - 1 \/ Len(vacated') = 0
    <3>1. CASE vacated = << >>
      BY <1>13, <3>1 DEF KeyAdd
    <3>2. CASE vacated # << >>
      <4>1. vacated' = Tail(vacated)
        BY <1>13, <3>2 DEF KeyAdd
      <4> QED BY <1>0, <3>2, <4>1, HeadTailProperties, LenProperties
    <3> QED BY <3>1, <3>2
  <2>6. Len(layout'.tables) + Len(vacated') <= MAX_LAYOUT_TABLES
    <3>1. Len(layout'.tables) = Len(layout.tables) + 1
      BY <2>3, <2>4
    <3> QED BY <1>0, <2>5, <2>room, <3>1, SizesAssumption
  <2>7. edit' \in 0 .. MAX_LAYOUT_TABLES
    <3>1. edit' = Len(layout.tables) + 1
      BY <2>3, <2>4, <2>room
    <3> QED BY <1>0, <2>room, <3>1, SizesAssumption
  <2>8. max_tables' \in Nat
    BY <1>13, <2>3, <2>4, SyncedCounts DEF KeyAdd
  <2> QED BY <1>11, <1>13, <2>4, <2>5, <2>6, <2>7, <2>8 DEF KeyAdd, Edit, LayoutKey
<1>14. CASE KeyDelete
  <2> DEFINE r == ui_pos_layout_remove_at(layout.tables, Selected)
             gone == layout.tables[Len(layout.tables)].id
  <2>1. Selected \in 1 .. Len(layout.tables)
    BY <1>14, SelectedTable DEF KeyDelete
  <2>2. r \in Seq(Tables) /\ Len(r) = Len(layout.tables) - 1
    BY <1>0, <2>1, Removed
  <2>3. /\ layout' \in Plans /\ layout'.tables = r
        /\ layout'.rows = layout.rows /\ layout'.cols = layout.cols
    <3> HIDE DEF r
    <3>1. layout' = [layout EXCEPT !.tables = r]
      BY <1>14 DEF KeyDelete, r
    <3> QED BY <2>2, <3>1 DEF Plans
  <2>4. gone \in 1 .. MAX_ID
    BY <1>0, <2>1, Fields
  <2>5. vacated' \in Seq(1 .. MAX_ID) /\ Len(vacated') = Len(vacated) + 1
    <3>1. <<gone>> \in Seq(1 .. MAX_ID) /\ Len(<<gone>>) = 1
      <4> HIDE DEF gone
      <4> QED BY <2>4
    <3>2. vacated' = <<gone>> \o vacated
      BY <1>14 DEF KeyDelete
    <3> HIDE DEF gone
    <3> QED BY <1>0, <3>1, <3>2, ConcatProperties
  <2>6. Len(layout'.tables) + Len(vacated') <= MAX_LAYOUT_TABLES
    BY <1>0, <2>2, <2>3, <2>5, SizesAssumption
  <2> QED BY <1>11, <1>14, <2>3, <2>5, <2>6, SizesAssumption DEF KeyDelete, Edit, LayoutKey
<1>15. CASE KeyZoneOrLabel
  <2>1. PICK t \in Tables : /\ layout' = [layout EXCEPT !.tables = [layout.tables EXCEPT ![Selected] = t]]
                            /\ t.id = layout.tables[Selected].id
                            /\ t.cell = layout.tables[Selected].cell
    BY <1>15, RelabelOne
  <2>2. Selected \in 1 .. Len(layout.tables)
    BY <1>15, SelectedTable DEF KeyZoneOrLabel
  <2>3. /\ [layout.tables EXCEPT ![Selected] = t] \in Seq(Tables)
        /\ Len([layout.tables EXCEPT ![Selected] = t]) = Len(layout.tables)
    BY <1>0, <2>2, ExceptSeq
  <2>4. /\ layout' \in Plans /\ Len(layout'.tables) = Len(layout.tables)
        /\ layout'.rows = layout.rows /\ layout'.cols = layout.cols
    BY <2>1, <2>3 DEF Plans
  <2>5. edit' \in 0 .. MAX_LAYOUT_TABLES
    BY <1>15, SelectedTable DEF KeyZoneOrLabel
  <2> QED BY <1>11, <1>15, <2>4, <2>5 DEF KeyZoneOrLabel, Edit, LayoutKey
<1>16. CASE KeyMove
  <2>1. edit' \in 0 .. MAX_LAYOUT_TABLES
    BY <1>16, SelectedTable DEF KeyMove
  <2> QED BY <1>16, <2>1 DEF KeyMove, LayoutKey, config
<1>17. CASE KeyEnter
  <2>1. edit' \in 0 .. MAX_LAYOUT_TABLES /\ layout' = layout
    BY <1>17, SelectedTable, EnterMovesNothing DEF KeyEnter
  <2> QED BY <1>17, <2>1 DEF KeyEnter, LayoutKey, config
<1>18. CASE KeySave
  <2>1. edit' \in 0 .. MAX_LAYOUT_TABLES
    BY <1>18, SelectedTable DEF KeySave
  <2>2. max_tables' \in Nat
    BY <1>0, <1>18, SyncedCounts DEF KeySave
  <2>3. file' \in Plans /\ kept' \in Plans /\ saved_max' \in Nat
    BY <1>18, <2>2 DEF KeySave, SaveMax
  <2> QED BY <1>18, <2>1, <2>2, <2>3 DEF KeySave, LayoutKey
<1>19. CASE UNCHANGED vars
  BY <1>19 DEF vars, screen, config
<1> QED
  BY <1>1, <1>3, <1>4, <1>5, <1>6, <1>7, <1>8, <1>9, <1>10, <1>12, <1>13, <1>14, <1>15,
     <1>16, <1>17, <1>18, <1>19, <1>20 DEF Next

-----------------------------------------------------------------------------
(* Every step keeps tables apart and counted *)

\* Steps that change neither plan nor file, whatever else they do.
LEMMA QuietStep ==
    ASSUME Inv, UNCHANGED <<layout, file, shifted>>,
           ~ up' \/ (up' = up /\ max_tables' \in Nat /\ max_tables <= max_tables')
    PROVE  (TablesSetApart /\ TablesAreCounted /\ FileSetApart)'
<1>1. layout.tables \in Seq(Tables) /\ max_tables \in Nat
  BY DEF Inv, TypeOK, Plans
<1>2. \A i \in DOMAIN layout.tables : layout.tables[i].id \in Nat
  BY <1>1, Fields
<1>3. TablesAreCounted'
  <2>1. CASE ~ up'
    BY <2>1 DEF TablesAreCounted
  <2>2. CASE up'
    <3>1. /\ \A i \in DOMAIN layout.tables : layout.tables[i].id <= max_tables
          /\ layout' = layout /\ max_tables' \in Nat /\ max_tables <= max_tables'
      BY <2>2 DEF Inv, TablesAreCounted
    <3>2. \A i \in DOMAIN layout.tables : layout.tables[i].id <= max_tables'
      BY <1>1, <1>2, <3>1
    <3> QED BY <3>1, <3>2 DEF TablesAreCounted
  <2> QED BY <2>1, <2>2
<1>4. (TablesSetApart /\ FileSetApart)'
  BY DEF Inv, TablesSetApart, FileSetApart, IdsApart, CellsApart
<1> QED
  BY <1>3, <1>4

\* Keys that replace the array of placements by one that is apart and counted.
LEMMA EditStep ==
    ASSUME Inv, Edit, IdsApart(layout'.tables),
           CellsApart(layout.tables) => CellsApart(layout'.tables),
           \A i \in DOMAIN layout'.tables : layout'.tables[i].id <= max_tables'
    PROVE  (TablesSetApart /\ TablesAreCounted /\ FileSetApart)'
<1>1. UNCHANGED <<file, shifted>>
  BY DEF Edit, LayoutKey
<1>2. TablesSetApart'
  BY <1>1 DEF Inv, TablesSetApart
<1>3. FileSetApart'
  BY <1>1 DEF Inv, FileSetApart
<1>4. TablesAreCounted'
  BY DEF TablesAreCounted
<1> QED
  BY <1>2, <1>3, <1>4

\* No step puts two tables together or one out of the count: an edit keeps both
\* by its own lemma, a load because a saved plan has them apart.
LEMMA ApartStep ==
    Inv /\ [Next]_vars => (TablesSetApart /\ TablesAreCounted /\ FileSetApart)'
<1> SUFFICES ASSUME Inv, [Next]_vars
             PROVE  (TablesSetApart /\ TablesAreCounted /\ FileSetApart)'
  OBVIOUS
<1>0. /\ TypeOK
      /\ layout.tables \in Seq(Tables) /\ file \in Plans /\ max_tables \in Nat
      /\ Len(layout.tables) \in Nat
  BY Fields DEF Inv, TypeOK, Plans
<1>c. up => \A i \in DOMAIN layout.tables : layout.tables[i].id <= max_tables
  BY DEF Inv, TablesAreCounted
<1>1. ASSUME NEW written \in BOOLEAN, NEW read \in BOOLEAN, Start(written, read)
      PROVE  (TablesSetApart /\ TablesAreCounted /\ FileSetApart)'
  <2>1. /\ file' = IF file = Missing /\ written THEN layout_init_default ELSE file
        /\ layout' = IF file' # Missing /\ read THEN layout_load(file') ELSE layout_init_default
        /\ max_tables' = Synced(LoadedMax, layout'.tables)
    BY <1>1, Zenon DEF Start, SyncedAtStart
  <2>2. shifted' = (shifted \/ (read /\ \E i \in DOMAIN file.tables :
                      ReadBack(file.tables[i]).cell # file.tables[i].cell))
    BY <1>1, Zenon DEF Start
  <2>3. layout'.tables \in Seq(Tables)
    BY <1>0, <2>1, DefaultPlan, LoadedPlan DEF Fits, Plans
  <2>4. TablesAreCounted'
    <3>1. LoadedMax \in Nat
      BY <1>0, SizesAssumption DEF LoadedMax, TypeOK
    <3> QED BY <2>1, <2>3, <3>1, SyncedCounts DEF TablesAreCounted
  <2>5. shifted => shifted'
    BY <2>2
  <2>6. FileSetApart'
    <3>1. CASE file = Missing /\ written
      BY <2>1, <3>1, DefaultPlan DEF FileSetApart
    <3>2. CASE ~ (file = Missing /\ written)
      BY <2>1, <2>5, <3>2 DEF Inv, FileSetApart
    <3> QED BY <3>1, <3>2
  <2>7. CASE ~ (file' # Missing /\ read)
    BY <2>1, <2>4, <2>6, <2>7, DefaultPlan DEF TablesSetApart
  <2>8. CASE file' # Missing /\ read
    <3>1. layout' = layout_load(file') /\ file' \in Plans
      BY <1>0, <2>1, <2>8, DefaultPlan DEF Fits
    <3>2. IdsApart(layout'.tables)
      BY <2>6, <3>1, LoadedPlan DEF FileSetApart
    <3>3. ~ shifted' => \A i \in DOMAIN file'.tables :
                            ReadBack(file'.tables[i]).cell = file'.tables[i].cell
      <4>1. CASE file' = file
        BY <2>2, <2>8, <4>1
      <4>2. CASE file' = layout_init_default
        BY <4>2, DefaultPlan, DefaultAssumption DEF ReadBack
      <4> QED BY <2>1, <4>1, <4>2
    <3>4. shifted' \/ CellsApart(layout'.tables)
      BY <2>6, <3>1, <3>3, LoadedPlan DEF FileSetApart
    <3> QED BY <2>4, <2>6, <3>2, <3>4 DEF TablesSetApart
  <2> QED BY <2>7, <2>8
<1>2. ASSUME Ends PROVE (TablesSetApart /\ TablesAreCounted)' /\ shifted' = shifted
  <2>1. layout' = layout_init_default /\ ~ up' /\ shifted' = shifted
    BY <1>2 DEF Ends
  <2> QED BY <2>1, DefaultPlan DEF TablesSetApart, TablesAreCounted
<1>3. CASE Exit
  <2>1. Ends /\ (file' = layout \/ file' = file)
    BY <1>3 DEF Exit, layout_save
  <2>2. FileSetApart'
    BY <1>2, <2>1 DEF Inv, FileSetApart, TablesSetApart
  <2> QED BY <1>2, <2>1, <2>2
<1>4. CASE Crash
  <2>1. Ends /\ file' = file
    BY <1>4 DEF Crash
  <2>2. FileSetApart'
    BY <1>2, <2>1 DEF Inv, FileSetApart
  <2> QED BY <1>2, <2>1, <2>2
<1>5. CASE OthersSaveConfig
  BY <1>0, <1>5, QuietStep DEF OthersSaveConfig
<1>20. CASE StartFails
  BY <1>20, QuietStep DEF StartFails
<1>6. CASE TerminalLooks
  BY <1>0, <1>6, QuietStep DEF TerminalLooks, config
<1>7. CASE TerminalWrites
  <2>1. file' = layout_init_default /\ UNCHANGED <<layout, up, max_tables, shifted>>
    BY <1>7 DEF TerminalWrites, config
  <2> QED BY <2>1, DefaultPlan DEF Inv, TablesSetApart, TablesAreCounted, FileSetApart
<1>8. CASE Arrow
  BY <1>0, <1>8, QuietStep DEF Arrow, config
<1>9. CASE ShowTab
  BY <1>0, <1>9, QuietStep DEF ShowTab, config
<1>10. CASE EnterAtHome
  BY <1>0, <1>10, QuietStep DEF EnterAtHome, config
<1>11. Edit => up
  BY DEF Edit, LayoutKey
<1>12. CASE KeyGridSize
  <2>1. layout'.tables = layout.tables /\ max_tables' = max_tables /\ Edit
    BY <1>12 DEF KeyGridSize
  <2> QED BY <1>c, <1>11, <2>1, EditStep DEF Inv, TablesSetApart
<1>13. CASE KeyAdd
  <2> DEFINE new == [id |-> NextId, zone |-> "outside", cell |-> cursor, label |-> "plain"]
             r == Append(layout.tables, new)
  <2>1. /\ Edit /\ NextId <= MAX_ID /\ find_index(layout.tables, cursor) = 0
        /\ max_tables' = Synced(max_tables, layout'.tables)
    BY <1>13 DEF KeyAdd
  <2>2. layout'.tables = r
    BY <1>13 DEF KeyAdd
  <2>3. new \in Tables /\ \A i \in DOMAIN layout.tables : layout.tables[i].id # new.id
    BY <1>0, <2>1, Added
  <2>4. \A i \in DOMAIN layout.tables : layout.tables[i].cell # new.cell
    BY <1>0, <2>1, FindIndex
  <2>5. r \in Seq(Tables) /\ IdsApart(r) /\ (CellsApart(layout.tables) => CellsApart(r))
    <3> HIDE DEF new
    <3> QED BY <1>0, <2>3, <2>4, Appended DEF Inv, TablesSetApart
  <2> HIDE DEF r
  <2>6. \A i \in DOMAIN layout'.tables : layout'.tables[i].id <= max_tables'
    BY <1>0, <2>1, <2>2, <2>5, SyncedCounts
  <2> QED BY <2>1, <2>2, <2>5, <2>6, EditStep
<1>14. CASE KeyDelete
  <2> DEFINE r == ui_pos_layout_remove_at(layout.tables, Selected)
  <2>1. /\ Edit /\ max_tables' = max_tables
        /\ layout'.tables = r /\ Selected \in 1 .. Len(layout.tables)
    BY <1>0, <1>14, SelectedTable DEF KeyDelete
  <2>2. /\ \A i \in DOMAIN r : \E j \in DOMAIN layout.tables : r[i] = layout.tables[j]
        /\ IdsApart(r) /\ (CellsApart(layout.tables) => CellsApart(r))
    BY <1>0, <2>1, Removed DEF Inv, TablesSetApart
  <2> HIDE DEF r
  <2> QED BY <1>c, <1>11, <2>1, <2>2, EditStep
<1>15. CASE KeyZoneOrLabel
  <2>1. PICK t \in Tables : /\ layout' = [layout EXCEPT !.tables = [layout.tables EXCEPT ![Selected] = t]]
                            /\ t.id = layout.tables[Selected].id
                            /\ t.cell = layout.tables[Selected].cell
    BY <1>0, <1>15, RelabelOne
  <2> DEFINE r == [layout.tables EXCEPT ![Selected] = t]
  <2>2. /\ Edit /\ max_tables' = max_tables /\ Selected \in 1 .. Len(layout.tables)
    BY <1>0, <1>15, SelectedTable DEF KeyZoneOrLabel
  <2>3. layout'.tables = r
    BY <1>0, <2>1 DEF TypeOK, Plans
  <2>4. /\ DOMAIN r = DOMAIN layout.tables
        /\ \A i \in DOMAIN layout.tables : r[i].id = layout.tables[i].id
        /\ IdsApart(r) /\ (CellsApart(layout.tables) => CellsApart(r))
    BY <1>0, <2>1, <2>2, Relabelled DEF Inv, TablesSetApart
  <2> HIDE DEF r
  <2> QED BY <1>c, <1>11, <2>2, <2>3, <2>4, EditStep
<1>16. CASE KeyMove
  BY <1>0, <1>16, QuietStep DEF KeyMove, LayoutKey, config
<1>17. CASE KeyEnter
  <2>1. UNCHANGED <<layout, file, shifted, up, max_tables>>
    BY <1>0, <1>17, EnterMovesNothing DEF KeyEnter, LayoutKey, config
  <2> QED BY <1>0, <2>1, QuietStep
<1>18. CASE KeySave
  <2>1. /\ UNCHANGED <<layout, up, shifted>> /\ (file' = layout \/ file' = file)
        /\ max_tables' = Synced(max_tables, layout.tables)
    BY <1>18 DEF KeySave, LayoutKey
  <2>2. \A i \in DOMAIN layout.tables : layout.tables[i].id <= max_tables'
    BY <1>0, <2>1, SyncedCounts
  <2> QED BY <2>1, <2>2 DEF Inv, TablesSetApart, TablesAreCounted, FileSetApart
<1>19. CASE UNCHANGED vars
  BY <1>0, <1>19, QuietStep DEF vars, config
<1> QED
  BY <1>1, <1>3, <1>4, <1>5, <1>6, <1>7, <1>8, <1>9, <1>10, <1>12, <1>13, <1>14, <1>15,
     <1>16, <1>17, <1>18, <1>19, <1>20 DEF Next

\* The invariant holds before the program has started for the first time.
LEMMA InvInit == Init => Inv
<1> SUFFICES ASSUME Init PROVE Inv
  OBVIOUS
<1>1. /\ Fits(layout) /\ layout = layout_init_default
      /\ IdsApart(layout.tables) /\ CellsApart(layout.tables)
  BY DefaultPlan DEF Init
<1>2. Missing \in Plans /\ IdsApart(Missing.tables) /\ CellsApart(Missing.tables)
  BY DEF Missing, Plans, IdsApart, CellsApart
<1>3. file \in Plans /\ IdsApart(file.tables) /\ CellsApart(file.tables)
  BY <1>2, FilesAssumption DEF Init
<1>4. kept \in Plans
  BY <1>1, <1>3 DEF Init, Fits
<1>5. Len(layout.tables) + Len(vacated) <= MAX_LAYOUT_TABLES /\ vacated \in Seq(1 .. MAX_ID)
  <2>1. Len(layout.tables) \in Nat /\ vacated = << >>
    BY <1>1, Fields DEF Fits, Plans, Init
  <2> QED BY <1>1, <2>1, SizesAssumption DEF Fits
<1>6. cursor \in Cells /\ InGrid(cursor)
  BY <1>1, SizesAssumption DEF Init, Fits, Cells, Rows, Cols, InGrid
<1>7. /\ edit \in 0 .. MAX_LAYOUT_TABLES /\ edits \in 0 .. MAX_EDITS
      /\ max_tables \in Nat /\ saved_max \in Nat
  BY SizesAssumption DEF Init
<1>8. /\ up \in BOOLEAN /\ move_mode \in BOOLEAN /\ doubt \in BOOLEAN /\ shifted \in BOOLEAN
      /\ tab \in {"home", "layout", "other"} /\ terminal \in {"away", "writing"}
  BY Zenon DEF Init
<1>9. TypeOK
  BY <1>1, <1>3, <1>4, <1>5, <1>6, <1>7, <1>8 DEF TypeOK, Fits
<1> QED
  BY <1>1, <1>3, <1>9 DEF Init, Inv, TablesSetApart, TablesAreCounted, FileSetApart

\* The invariant is inductive.
LEMMA InvStep == Inv /\ [Next]_vars => Inv'
BY TypeStep, ApartStep DEF Inv

-----------------------------------------------------------------------------
(* What a key can do to tables that are not under the cursor *)

\* While the POS screen runs on, the plan is left alone or edited.
LEMMA PlanSteps ==
    ASSUME Inv, [Next]_vars, up, up'
    PROVE  layout' = layout \/ KeyGridSize \/ KeyAdd \/ KeyDelete \/ KeyZoneOrLabel
<1>1. \A written, read \in BOOLEAN : ~ Start(written, read)
  BY DEF Start
<1>2. ~ StartFails /\ ~ Exit /\ ~ Crash
  BY DEF StartFails, Exit, Crash, Ends
<1>3. OthersSaveConfig \/ TerminalLooks \/ TerminalWrites => layout' = layout
  BY DEF OthersSaveConfig, TerminalLooks, TerminalWrites
<1>4. Arrow \/ ShowTab \/ EnterAtHome => layout' = layout
  BY DEF Arrow, ShowTab, EnterAtHome
<1>5. KeyMove \/ KeySave => layout' = layout
  BY DEF KeyMove, KeySave
<1>6. KeyEnter => layout' = layout
  BY EnterMovesNothing DEF Inv
<1>7. UNCHANGED vars => layout' = layout
  BY DEF vars
<1> QED
  BY <1>1, <1>2, <1>3, <1>4, <1>5, <1>6, <1>7 DEF Next

\* What each edit leaves of the plan.  A table after it was there before,
\* with its id and cell, or is the new one under the cursor; a table before it
\* is still there or was under the cursor.
LEMMA EditKeeps ==
    ASSUME Inv, KeyGridSize \/ KeyAdd \/ KeyDelete \/ KeyZoneOrLabel
    PROVE  /\ \A i \in DOMAIN layout.tables :
                  \/ layout.tables[i].cell = cursor
                  \/ \E j \in DOMAIN layout'.tables : layout'.tables[j] = layout.tables[i]
           /\ \A j \in DOMAIN layout'.tables :
                  \/ layout'.tables[j].cell = cursor
                  \/ \E i \in DOMAIN layout.tables :
                         /\ layout'.tables[j].id = layout.tables[i].id
                         /\ layout'.tables[j].cell = layout.tables[i].cell
<1>0. TypeOK /\ layout.tables \in Seq(Tables)
  BY DEF Inv, TypeOK, Plans
<1>1. CASE KeyGridSize
  <2>1. PICK size \in Sizes : layout' = [layout EXCEPT !.rows = size[1], !.cols = size[2]]
    BY <1>1 DEF KeyGridSize
  <2>2. layout'.tables = layout.tables
    BY <1>0, <2>1 DEF TypeOK, Plans
  <2> QED BY <2>2
<1>2. CASE KeyAdd
  <2> DEFINE new == [id |-> NextId, zone |-> "outside", cell |-> cursor, label |-> "plain"]
             r == Append(layout.tables, new)
  <2>1. layout'.tables = r /\ NextId <= MAX_ID
    BY <1>2 DEF KeyAdd
  <2>2. new \in Tables /\ new.cell = cursor
    BY <1>0, <2>1, Added
  <2>3. /\ \A i \in DOMAIN layout.tables : i \in DOMAIN r /\ r[i] = layout.tables[i]
        /\ \A i \in DOMAIN r : r[i] = new \/ \E j \in DOMAIN layout.tables : r[i] = layout.tables[j]
    <3> HIDE DEF new
    <3> QED BY <1>0, <2>2, Appended
  <2> HIDE DEF r, new
  <2> QED BY <2>1, <2>2, <2>3
<1>3. CASE KeyDelete
  <2> DEFINE r == ui_pos_layout_remove_at(layout.tables, Selected)
  <2>1. /\ layout'.tables = r /\ Selected \in 1 .. Len(layout.tables)
        /\ layout.tables[Selected].cell = cursor
    BY <1>0, <1>3, SelectedTable DEF KeyDelete
  <2>2. /\ \A i \in DOMAIN r : \E j \in DOMAIN layout.tables : r[i] = layout.tables[j]
        /\ \A j \in DOMAIN layout.tables : j # Selected => \E i \in DOMAIN r : r[i] = layout.tables[j]
    BY <1>0, <2>1, Removed
  <2> HIDE DEF r
  <2> QED BY <2>1, <2>2
<1>4. CASE KeyZoneOrLabel
  <2>1. PICK t \in Tables : /\ layout' = [layout EXCEPT !.tables = [layout.tables EXCEPT ![Selected] = t]]
                            /\ t.id = layout.tables[Selected].id
                            /\ t.cell = layout.tables[Selected].cell
    BY <1>0, <1>4, RelabelOne
  <2> DEFINE r == [layout.tables EXCEPT ![Selected] = t]
  <2>2. Selected \in 1 .. Len(layout.tables) /\ layout.tables[Selected].cell = cursor
    BY <1>0, <1>4, SelectedTable DEF KeyZoneOrLabel
  <2>3. layout'.tables = r
    BY <1>0, <2>1 DEF TypeOK, Plans
  <2>4. /\ DOMAIN r = DOMAIN layout.tables
        /\ \A i \in DOMAIN layout.tables : r[i].id = layout.tables[i].id /\ r[i].cell = layout.tables[i].cell
        /\ \A i \in DOMAIN layout.tables : i # Selected => r[i] = layout.tables[i]
    BY <1>0, <2>1, <2>2, Relabelled
  <2> HIDE DEF r
  <2> QED BY <2>2, <2>3, <2>4
<1> QED
  BY <1>1, <1>2, <1>3, <1>4

\* A table that a step takes away or changes is under the cursor.
LEMMA CursorStep ==
    ASSUME Inv, [Next]_vars, up, up', NEW t \in Placed
    PROVE  t \in Placed' \/ t.cell = cursor
<1>1. CASE layout' = layout
  BY <1>1 DEF Placed
<1>2. CASE KeyGridSize \/ KeyAdd \/ KeyDelete \/ KeyZoneOrLabel
  BY <1>2, EditKeeps DEF Placed
<1> QED
  BY <1>1, <1>2, PlanSteps

\* A step that keeps the size of the grid hides no table.
LEMMA ReachStep ==
    ASSUME Inv, [Next]_vars, up, up',
           layout'.rows = layout.rows, layout'.cols = layout.cols
    PROVE  OutOfReach' \subseteq OutOfReach
<1>1. CASE layout' = layout
  BY <1>1 DEF OutOfReach, Placed, InGrid
<1>2. CASE KeyGridSize \/ KeyAdd \/ KeyDelete \/ KeyZoneOrLabel
  <2>1. ASSUME NEW id \in OutOfReach' PROVE id \in OutOfReach
    <3>1. PICK j \in DOMAIN layout'.tables :
              /\ id = layout'.tables[j].id
              /\ ~ InGrid(layout'.tables[j].cell)
      BY <2>1 DEF OutOfReach, Placed, InGrid
    <3>2. layout'.tables[j].cell # cursor
      BY <3>1 DEF Inv, TypeOK
    <3>3. PICK i \in DOMAIN layout.tables :
              /\ layout'.tables[j].id = layout.tables[i].id
              /\ layout'.tables[j].cell = layout.tables[i].cell
      BY <1>2, <3>2, EditKeeps
    <3> QED BY <3>1, <3>3 DEF OutOfReach, Placed
  <2> QED BY <2>1
<1> QED
  BY <1>1, <1>2, PlanSteps

\* The invariant holds of every behaviour.
LEMMA Invariance == Spec => []Inv
BY InvInit, InvStep, PTL DEF Spec

\* A file that holds a plan is not a missing one.
LEMMA PlansAreNotMissing ==
    /\ layout_init_default # Missing
    /\ TypeOK => layout # Missing
<1>1. layout_init_default.rows # 0
  BY SizesAssumption DEF layout_init_default
<1>2. TypeOK => layout.rows # 0
  BY DEF TypeOK
<1>3. Missing.rows = 0
  BY DEF Missing
<1> QED
  BY <1>1, <1>2, <1>3

\* A save replaces the file by the plan that is remembered as saved; only a
\* terminal writes a file that the POS does not know of.
LEMMA KeptStep ==
    ASSUME TypeOK, KeptIsInFile, [Next]_vars
    PROVE  KeptIsInFile'
<1>1. CASE UNCHANGED <<file, kept, doubt>>
  BY <1>1 DEF KeptIsInFile
<1>2. CASE file' = layout /\ kept' = layout
  BY <1>2, PlansAreNotMissing DEF KeptIsInFile
<1>3. ASSUME NEW written \in BOOLEAN, NEW read \in BOOLEAN, Start(written, read)
      PROVE  KeptIsInFile'
  <2>1. /\ file' = IF file = Missing /\ written THEN layout_init_default ELSE file
        /\ kept' = kept /\ doubt' = doubt
    BY <1>3 DEF Start
  <2> QED BY <2>1, PlansAreNotMissing DEF KeptIsInFile
<1>4. CASE TerminalWrites
  <2>1. /\ file' = layout_init_default /\ kept' = kept
        /\ doubt' = (doubt \/ file # Missing)
    BY <1>4 DEF TerminalWrites
  <2> QED BY <2>1, PlansAreNotMissing DEF KeptIsInFile
<1>5. CASE Exit
  <2>1. (file' = layout /\ kept' = layout) \/ UNCHANGED <<file, kept, doubt>>
    BY <1>5 DEF Exit, Ends, layout_save
  <2> QED BY <1>1, <1>2, <2>1
<1>6. CASE KeySave
  <2>1. (file' = layout /\ kept' = layout) \/ UNCHANGED <<file, kept, doubt>>
    BY <1>6 DEF KeySave, LayoutKey
  <2> QED BY <1>1, <1>2, <2>1
<1>7. CASE \/ StartFails \/ Crash \/ OthersSaveConfig \/ TerminalLooks
           \/ Arrow \/ ShowTab \/ EnterAtHome
  BY <1>1, <1>7 DEF StartFails, Crash, Ends, OthersSaveConfig, TerminalLooks, Arrow, ShowTab, EnterAtHome
<1>8. CASE KeyGridSize \/ KeyAdd \/ KeyDelete \/ KeyZoneOrLabel \/ KeyMove \/ KeyEnter
  BY <1>1, <1>8 DEF KeyGridSize, KeyAdd, KeyDelete, KeyZoneOrLabel, KeyMove, KeyEnter,
                    Edit, LayoutKey
<1>9. CASE UNCHANGED vars
  BY <1>1, <1>9 DEF vars
<1> QED
  BY <1>3, <1>4, <1>5, <1>6, <1>7, <1>8, <1>9 DEF Next

\* layout_load gives back the plan in the file: its grid, and every table that
\* finds a place, in its cell unless the label reads as another.
LEMMA LoadedIsSame ==
    ASSUME NEW text \in Plans, text.tables # << >>
    PROVE  SamePlan(layout_load(text), text)
<1> DEFINE n == Least(Len(text.tables), MAX_LAYOUT_TABLES)
           ts == [i \in 1 .. n |-> ReadBack(text.tables[i])]
<1>1. layout_load(text) = [rows |-> IF text.rows \in 1 .. MAX_GRID_ROWS THEN text.rows ELSE FallbackRows,
                           cols |-> IF text.cols \in 1 .. MAX_GRID_COLS THEN text.cols ELSE FallbackCols,
                           tables |-> ts]
  BY DEF layout_load
<1>2. text.tables \in Seq(Tables)
  BY DEF Plans
<1>3. /\ DOMAIN ts = 1 .. n
      /\ 1 .. n = DOMAIN text.tables \cap (1 .. MAX_LAYOUT_TABLES)
  BY <1>2, Fields, SizesAssumption DEF Least
<1>4. \A t \in Tables : /\ ReadBack(t).id = t.id /\ ReadBack(t).zone = t.zone
                        /\ t.label = "plain" => ReadBack(t).cell = t.cell
  BY DEF ReadBack, Tables
<1>5. \A i \in DOMAIN ts : ts[i] = ReadBack(text.tables[i]) /\ text.tables[i] \in Tables
  BY <1>2, <1>3, Fields
<1>6. \A i \in DOMAIN ts :
          /\ ts[i].id = text.tables[i].id /\ ts[i].zone = text.tables[i].zone
          /\ text.tables[i].label = "plain" => ts[i].cell = text.tables[i].cell
  BY <1>4, <1>5
<1> HIDE DEF ts, n
<1> QED
  BY <1>1, <1>3, <1>6 DEF SamePlan

\* A start that can read and write shows the plan that was saved last.
LEMMA RestartStep ==
    ASSUME TypeOK, KeptIsInFile, Start(TRUE, TRUE), ~ doubt, kept.tables # << >>
    PROVE  SamePlan(layout', kept)
<1>1. file' = kept /\ layout' = layout_load(file')
  <2>1. /\ file' = IF file = Missing THEN layout_init_default ELSE file
        /\ file' # Missing => layout' = layout_load(file')
    BY DEF Start
  <2>2. kept = IF file = Missing THEN layout_init_default ELSE file
    BY DEF KeptIsInFile
  <2> QED BY <2>1, <2>2, PlansAreNotMissing
<1>2. kept \in Plans
  BY DEF TypeOK
<1> QED
  BY <1>1, <1>2, LoadedIsSame

\* The plan in the file is known in every behaviour.
LEMMA KeptInvariance == Spec => []KeptIsInFile
<1>1. Init => KeptIsInFile
  BY DEF Init, KeptIsInFile
<1>2. TypeOK /\ KeptIsInFile /\ [Next]_vars => KeptIsInFile'
  BY KeptStep
<1>3. Inv => TypeOK
  BY DEF Inv
<1> QED
  BY <1>1, <1>2, <1>3, Invariance, PTL DEF Spec

-----------------------------------------------------------------------------
(* Theorems *)

\* Types, with a cursor that never leaves the grid and an array that never
\* overflows (ui.c 1990-2090, layout.c 112-230).
THEOREM LayoutTypeCorrect == Spec => []TypeOK
<1>1. Inv => TypeOK
  BY DEF Inv
<1> QED
  BY <1>1, Invariance, PTL

\* No two tables share an id, and none a cell unless a label was read back as
\* a place (layout_max_table_id and layout_find_at of layout.c).
THEOREM SetApart == Spec => []TablesSetApart
<1>1. Inv => TablesSetApart
  BY DEF Inv
<1> QED
  BY <1>1, Invariance, PTL

\* The number of tables covers every table on the plan (ui_pos_sync_max_tables).
THEOREM Counted == Spec => []TablesAreCounted
<1>1. Inv => TablesAreCounted
  BY DEF Inv
<1> QED
  BY <1>1, Invariance, PTL

\* A key takes away or changes no table but the one under the cursor (ui.c
\* 1990-2090).
THEOREM CursorKeys == Spec => KeysActAtTheCursor
<1>1. Inv /\ [Next]_vars =>
          [up /\ up' => \A t \in Placed : t \in Placed' \/ t.cell = cursor]_vars
  BY CursorStep
<1> QED
  BY <1>1, Invariance, PTL DEF Spec, KeysActAtTheCursor

\* No key but g puts a table out of the cursor's reach (ui.c 2004-2020).
THEOREM ReachKept == Spec => OnlyResizingHides
<1>1. Inv /\ [Next]_vars =>
          [up /\ up' /\ layout'.rows = layout.rows /\ layout'.cols = layout.cols
               => OutOfReach' \subseteq OutOfReach]_vars
  BY ReachStep
<1> QED
  BY <1>1, Invariance, PTL DEF Spec, OnlyResizingHides

\* A start shows the plan that was saved or loaded last, unless a terminal has
\* written over it (layout_load and layout_save, layout.c 101-266).
THEOREM RestartShows == Spec => RestartShowsThePlan
<1>1. TypeOK /\ KeptIsInFile /\ [Next]_vars =>
          [Start(TRUE, TRUE) /\ ~ doubt /\ kept.tables # << >>
               => SamePlan(layout', kept)]_vars
  BY RestartStep
<1>2. Inv => TypeOK
  BY DEF Inv
<1> QED
  BY <1>1, <1>2, Invariance, KeptInvariance, PTL DEF Spec, RestartShowsThePlan
=============================================================================
