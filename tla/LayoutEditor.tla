---------------------------- MODULE LayoutEditor ----------------------------
(***************************************************************************)
(* The seating plan of the restaurant: the tables that the layout tab of   *)
(* ui_run_pos places on a grid, the cursor it shares with the home tab,    *)
(* data/layout.conf (layout.c) and the number of tables that tables.conf   *)
(* keeps.                                                                  *)
(*                                                                         *)
(* Only the POS thread edits the plan.  A table terminal that finds no     *)
(* layout.conf writes the default plan, some time after it looked.  A file *)
(* is replaced through layout.conf.tmp and rename: a save happens whole or *)
(* not at all.  Of a label only this is kept: whether it holds text that   *)
(* reads as a field of its line (" row=0 col=0").  The field "active" of a *)
(* placement is never cleared by the program and is left out.              *)
(***************************************************************************)
EXTENDS Integers, Sequences

CONSTANTS MAX_LAYOUT_TABLES,  \* places in the array, and MAX_TABLES
          MAX_GRID_ROWS, MAX_GRID_COLS,
          FallbackRows, FallbackCols,   \* for a grid size that is damaged
          DefaultRows, DefaultCols, DefaultTables,
          DEFAULT_MAX_TABLES, \* where tables.conf has no usable number
          InitialFiles,       \* what layout.conf may hold at first
          Sizes,              \* bound: the grid sizes an operator types
          MAX_ID, MAX_EDITS   \* bounds: table ids, edits of the plan

Rows == 0 .. MAX_GRID_ROWS - 1
Cols == 0 .. MAX_GRID_COLS - 1
Cells == [row : Rows, col : Cols]
Zones == {"outside", "inside"}
Labels == {"plain", "fields"}
Tables == [id : 1 .. MAX_ID, zone : Zones, cell : Cells, label : Labels]
Plans == [rows : Int, cols : Int, tables : Seq(Tables)]

ASSUME SizesAssumption ==
    /\ MAX_LAYOUT_TABLES \in Nat \ {0}
    /\ MAX_GRID_ROWS \in Nat \ {0} /\ MAX_GRID_COLS \in Nat \ {0}
    /\ FallbackRows \in 1 .. MAX_GRID_ROWS /\ FallbackCols \in 1 .. MAX_GRID_COLS
    /\ DefaultRows \in 1 .. MAX_GRID_ROWS /\ DefaultCols \in 1 .. MAX_GRID_COLS
    /\ DEFAULT_MAX_TABLES \in Nat /\ MAX_ID \in Nat /\ MAX_EDITS \in Nat
    /\ Sizes \subseteq Int \X Int

\* No two tables have an id in common.
IdsApart(ts) == \A i, j \in DOMAIN ts : ts[i].id = ts[j].id => i = j

\* No two tables stand in one cell.
CellsApart(ts) == \A i, j \in DOMAIN ts : ts[i].cell = ts[j].cell => i = j

ASSUME DefaultAssumption ==
    /\ DefaultTables \in Seq(Tables)
    /\ Len(DefaultTables) \in 1 .. MAX_LAYOUT_TABLES
    /\ IdsApart(DefaultTables) /\ CellsApart(DefaultTables)
    /\ \A i \in DOMAIN DefaultTables : DefaultTables[i].label = "plain"

Missing == [rows |-> 0, cols |-> 0, tables |-> << >>]

ASSUME FilesAssumption ==
    \A f \in InitialFiles : /\ f \in Plans
                            /\ IdsApart(f.tables) /\ CellsApart(f.tables)

VARIABLES
    up,          \* the POS screen runs
    layout,      \* the plan in memory: grid size and placements
    vacated,     \* the ids that deleted tables left in the places above
                 \* layout.count, nearest first
    file,        \* the text of layout.conf, or Missing
    cursor,      \* grid_row and grid_col
    tab,         \* home, layout, or one of the others
    edit,        \* layout_edit_idx: 0 stands for -1
    move_mode,   \* layout_move_mode
    max_tables,  \* ctx->cfg.max_tables
    saved_max,   \* the number of tables in tables.conf
    terminal,    \* a table terminal that has found no layout.conf
    edits,       \* edits so far: bounds the model
    kept,        \* history: the plan that the POS saved or loaded last
    doubt,       \* history: the terminal has written over a saved plan
    shifted      \* history: a label was read back as a place

screen == <<cursor, tab, edit, move_mode>>
config == <<max_tables, saved_max>>
vars == <<up, layout, vacated, file, screen, config, terminal, edits, kept, doubt, shifted>>

layout_init_default ==
    [rows |-> DefaultRows, cols |-> DefaultCols, tables |-> DefaultTables]

-----------------------------------------------------------------------------
(* The array of placements *)

\* layout_find_at and ui_pos_layout_find_index: the first table in the cell,
\* 0 if there is none.
find_index(ts, cell) ==
    LET there == {i \in DOMAIN ts : ts[i].cell = cell}
    IN  IF there = {} THEN 0
        ELSE CHOOSE i \in there : \A j \in there : i <= j

\* A fault: the number of tables is taken for the largest id.
layout_max_table_idFault(ts) == Len(ts)

\* At least 0, at least every id, and one of them.
layout_max_table_id(ts) ==
    CHOOSE n \in {0} \cup {ts[i].id : i \in DOMAIN ts} :
        \A i \in DOMAIN ts : ts[i].id <= n

\* A fault: the rest of the array is not moved up.
ui_pos_layout_remove_atFault(ts, k) == [i \in 1 .. Len(ts) - 1 |-> ts[i]]

ui_pos_layout_remove_at(ts, k) ==
    [i \in 1 .. Len(ts) - 1 |-> IF i < k THEN ts[i] ELSE ts[i + 1]]

\* ui_pos_sync_max_tables, under ctx->lock: the number only ever grows.
Synced(n, ts) ==
    IF layout_max_table_id(ts) > n THEN layout_max_table_id(ts) ELSE n

-----------------------------------------------------------------------------
(* layout.conf *)

\* A line read back.  Fields are looked for after every blank, so one that
\* is part of the label counts, and what follows the blank is cut off.
ReadBack(t) ==
    IF t.label = "fields"
    THEN [t EXCEPT !.cell = [row |-> 0, col |-> 0], !.label = "plain"]
    ELSE t

Least(a, b) == IF a < b THEN a ELSE b

\* A fault: a full array is taken for one line too many.
layout_loadFault(text) ==
    [rows |-> text.rows, cols |-> text.cols,
     tables |-> [i \in 1 .. Least(Len(text.tables), MAX_LAYOUT_TABLES - 1)
                    |-> ReadBack(text.tables[i])]]

\* Lines that find no place are skipped, a damaged grid size is replaced, and
\* a plan without tables is taken for none at all.
layout_load(text) ==
    IF text.tables = << >> THEN layout_init_default
    ELSE [rows |-> IF text.rows \in 1 .. MAX_GRID_ROWS THEN text.rows
                   ELSE FallbackRows,
          cols |-> IF text.cols \in 1 .. MAX_GRID_COLS THEN text.cols
                   ELSE FallbackCols,
          tables |-> [i \in 1 .. Least(Len(text.tables), MAX_LAYOUT_TABLES)
                        |-> ReadBack(text.tables[i])]]

\* layout_save: the file afterwards, if no call fails.
layout_save ==
    \/ file' = layout /\ kept' = layout
    \/ UNCHANGED <<file, kept>>

\* server_save_config, whose result nobody looks at.
SaveMax == saved_max' \in {saved_max, max_tables'}

\* storage_load_config: a number out of range is damage.
LoadedMax ==
    IF saved_max \in 1 .. MAX_LAYOUT_TABLES THEN saved_max ELSE DEFAULT_MAX_TABLES

-----------------------------------------------------------------------------
(* The POS screen starts and ends *)

Init ==
    /\ up = FALSE
    /\ layout = layout_init_default
    /\ vacated = << >>
    /\ file \in InitialFiles \cup {Missing}
    /\ cursor = [row |-> 0, col |-> 0]
    /\ tab = "home"
    /\ edit = 0
    /\ move_mode = FALSE
    /\ max_tables = DEFAULT_MAX_TABLES
    /\ saved_max = DEFAULT_MAX_TABLES
    /\ terminal = "away"
    /\ edits = 0
    /\ kept = IF file = Missing THEN layout_init_default ELSE file
    /\ doubt = FALSE
    /\ shifted = FALSE

\* A fault: the number that was saved is trusted.
SyncedAtStartFault(ts) == LoadedMax

SyncedAtStart(ts) == Synced(LoadedMax, ts)

\* server_load_persistent, then ui_run_pos up to its loop: ensure_layout_file
\* may write the default plan, the file may be unreadable.
Start(written, read) ==
    /\ ~ up
    /\ up' = TRUE
    /\ file' = IF file = Missing /\ written THEN layout_init_default ELSE file
    /\ layout' = IF file' # Missing /\ read THEN layout_load(file')
                 ELSE layout_init_default
    /\ vacated' = << >>
    /\ shifted' = (shifted \/ (read /\ \E i \in DOMAIN file.tables :
                      ReadBack(file.tables[i]).cell # file.tables[i].cell))
    /\ cursor' = [row |-> 0, col |-> 0]
    /\ tab' = "home"
    /\ edit' = 0
    /\ move_mode' = FALSE
    /\ max_tables' = SyncedAtStart(layout'.tables)
    /\ SaveMax
    /\ UNCHANGED <<terminal, edits, kept, doubt>>

\* server_load_persistent fails: the config or the menu cannot be read, and
\* server_shutdown saves the number of server_init or the one just loaded.
StartFails ==
    /\ ~ up
    /\ max_tables' \in {DEFAULT_MAX_TABLES, LoadedMax}
    /\ SaveMax
    /\ UNCHANGED <<up, layout, vacated, file, screen, terminal, edits, kept, doubt, shifted>>

\* What the process held in memory is gone.
Ends ==
    /\ up
    /\ up' = FALSE
    /\ layout' = layout_init_default
    /\ vacated' = << >>
    /\ cursor' = [row |-> 0, col |-> 0]
    /\ tab' = "home"
    /\ edit' = 0
    /\ move_mode' = FALSE
    /\ UNCHANGED <<terminal, edits, doubt, shifted>>

\* q or SIGINT: the plan is saved, the config twice (ui_run_pos and
\* server_shutdown); no result is looked at.
Exit ==
    /\ Ends
    /\ layout_save
    /\ max_tables' = Synced(max_tables, layout.tables)
    /\ SaveMax

Crash == Ends /\ UNCHANGED <<file, kept, config>>

\* A session, or s on the menu tab, saves the config.
OthersSaveConfig ==
    /\ up
    /\ max_tables' = max_tables
    /\ SaveMax
    /\ UNCHANGED <<up, layout, vacated, file, screen, terminal, edits, kept, doubt, shifted>>

\* ui_run_table calls layout_load for its name: it finds no file ...
TerminalLooks ==
    /\ terminal = "away"
    /\ file = Missing
    /\ terminal' = "writing"
    /\ UNCHANGED <<up, layout, vacated, file, screen, config, edits, kept, doubt, shifted>>

\* ... and writes the default plan, whatever has been saved by now.
TerminalWrites ==
    /\ terminal = "writing"
    /\ terminal' = "away"
    /\ file' = layout_init_default
    /\ doubt' = (doubt \/ file # Missing)
    /\ UNCHANGED <<up, layout, vacated, screen, config, edits, kept, shifted>>

-----------------------------------------------------------------------------
(* Keys of the home and the layout tab *)

InGrid(cell) == cell.row < layout.rows /\ cell.col < layout.cols

Neighbours(a, b) ==
    \/ a.col = b.col /\ (a.row = b.row + 1 \/ b.row = a.row + 1)
    \/ a.row = b.row /\ (a.col = b.col + 1 \/ b.col = a.col + 1)

\* An arrow moves the cursor within the grid; the layout tab then selects the
\* table there.
Arrow ==
    /\ up
    /\ tab \in {"home", "layout"}
    /\ \E cell \in Cells :
           /\ Neighbours(cursor, cell)
           /\ InGrid(cell)
           /\ cursor' = cell
    /\ edit' = IF tab = "layout" THEN find_index(layout.tables, cursor') ELSE edit
    /\ UNCHANGED <<up, layout, vacated, file, tab, move_mode, config, terminal, edits, kept,
                   doubt, shifted>>

\* F1 to F5.  The layout tab handles the key that opens it as well, and any
\* key without a meaning there, in the same way.
ShowTab ==
    /\ up
    /\ tab' \in {"home", "layout", "other"}
    /\ edit' = IF tab' = "layout" THEN find_index(layout.tables, cursor) ELSE edit
    /\ UNCHANGED <<up, layout, vacated, file, cursor, move_mode, config, terminal, edits,
                   kept, doubt, shifted>>

\* Enter on a table of the home tab opens its payments.
EnterAtHome ==
    /\ up
    /\ tab = "home"
    /\ find_index(layout.tables, cursor) # 0
    /\ tab' = "other"
    /\ UNCHANGED <<up, layout, vacated, file, cursor, edit, move_mode, config, terminal,
                   edits, kept, doubt, shifted>>

\* A fault: the selection stays where it was when the cursor moves.
SelectedFault == IF edit \in DOMAIN layout.tables THEN edit ELSE 0

\* On the layout tab every key first selects the table under the cursor.
Selected == find_index(layout.tables, cursor)

\* A key of the layout tab.
LayoutKey ==
    /\ up
    /\ tab = "layout"
    /\ UNCHANGED <<up, tab, terminal, doubt, shifted>>

\* A key that edits the plan.
Edit ==
    /\ LayoutKey
    /\ edits < MAX_EDITS
    /\ edits' = edits + 1
    /\ UNCHANGED <<file, saved_max, kept>>

\* A fault: the cursor is left where it is.
ClampedFault(rows, cols) == cursor

\* The cursor after the grid has got a new size.
Clamped(rows, cols) ==
    [row |-> Least(cursor.row, rows - 1), col |-> Least(cursor.col, cols - 1)]

\* g: sizes out of range are ignored.  Tables outside the new grid stay.
KeyGridSize ==
    /\ Edit
    /\ \E size \in Sizes :
           /\ size \in (1 .. MAX_GRID_ROWS) \X (1 .. MAX_GRID_COLS)
           /\ layout' = [layout EXCEPT !.rows = size[1], !.cols = size[2]]
           /\ cursor' = Clamped(size[1], size[2])
    /\ edit' = Selected
    /\ UNCHANGED <<vacated, move_mode, max_tables>>

\* ui_pos_layout_alloc_slot, then layout_max_table_id: the place is counted
\* before it is cleared, so that a deleted table's id may count once more.
NextId ==
    LET ids == {layout_max_table_id(layout.tables)}
               \cup {vacated[i] : i \in DOMAIN vacated \cap {1}}
    IN  1 + CHOOSE n \in ids : \A k \in ids : k <= n

\* a: a table with the next id on an empty cell, if the array has room.
KeyAdd ==
    LET new == [id    |-> NextId,
                zone  |-> "outside", cell |-> cursor, label |-> "plain"]
    IN  /\ Edit
        /\ new.id <= MAX_ID
        /\ find_index(layout.tables, cursor) = 0
        /\ Len(layout.tables) < MAX_LAYOUT_TABLES
        /\ layout' = [layout EXCEPT !.tables = Append(@, new)]
        /\ vacated' = IF vacated = << >> THEN << >> ELSE Tail(vacated)
        /\ edit' = Len(layout'.tables)
        /\ max_tables' = Synced(max_tables, layout'.tables)
        /\ UNCHANGED <<cursor, move_mode>>

\* d: the selected table leaves the plan.
KeyDelete ==
    /\ Edit
    /\ Selected # 0
    /\ layout' = [layout EXCEPT !.tables = ui_pos_layout_remove_at(@, Selected)]
    /\ vacated' = <<layout.tables[Len(layout.tables)].id>> \o vacated
    /\ edit' = 0
    /\ UNCHANGED <<cursor, move_mode, max_tables>>

\* z and l change the zone and the label of the selected table.
KeyZoneOrLabel ==
    /\ Edit
    /\ Selected # 0
    /\ edit' = Selected
    /\ \/ \E z \in Zones :
              /\ z # layout.tables[Selected].zone
              /\ layout' = [layout EXCEPT !.tables[Selected].zone = z]
       \/ \E text \in Labels :
              layout' = [layout EXCEPT !.tables[Selected].label = text]
    /\ UNCHANGED <<vacated, cursor, move_mode, max_tables>>

\* m: on and off, with a table selected.
KeyMove ==
    /\ LayoutKey
    /\ Selected # 0
    /\ move_mode' = ~ move_mode
    /\ edit' = Selected
    /\ UNCHANGED <<layout, vacated, file, cursor, config, edits, kept>>

\* Enter in move mode: the selected table goes to the cursor if its cell is
\* free.
KeyEnter ==
    /\ LayoutKey
    /\ move_mode
    /\ Selected # 0
    /\ layout' = IF find_index(layout.tables, cursor) = 0
                 THEN [layout EXCEPT !.tables[Selected].cell = cursor]
                 ELSE layout
    /\ move_mode' = FALSE
    /\ edit' = Selected
    /\ UNCHANGED <<vacated, file, cursor, config, edits, kept>>

\* s: the config is saved only after the plan.
KeySave ==
    /\ LayoutKey
    /\ max_tables' = Synced(max_tables, layout.tables)
    /\ \/ file' = layout /\ kept' = layout /\ SaveMax
       \/ UNCHANGED <<file, kept, saved_max>>
    /\ edit' = Selected
    /\ UNCHANGED <<layout, vacated, cursor, move_mode, edits>>

Next ==
    \/ \E written, read \in BOOLEAN : Start(written, read)
    \/ StartFails \/ Exit \/ Crash \/ OthersSaveConfig \/ TerminalLooks \/ TerminalWrites
    \/ Arrow \/ ShowTab \/ EnterAtHome
    \/ KeyGridSize \/ KeyAdd \/ KeyDelete \/ KeyZoneOrLabel
    \/ KeyMove \/ KeyEnter \/ KeySave

Spec == Init /\ [][Next]_vars

-----------------------------------------------------------------------------
(* Properties *)

TypeOK ==
    /\ up \in BOOLEAN
    /\ layout \in Plans
    /\ layout.rows \in 1 .. MAX_GRID_ROWS /\ layout.cols \in 1 .. MAX_GRID_COLS
    /\ vacated \in Seq(1 .. MAX_ID)
    /\ Len(layout.tables) + Len(vacated) <= MAX_LAYOUT_TABLES
    /\ file \in Plans
    /\ cursor \in Cells
    /\ InGrid(cursor)
    /\ tab \in {"home", "layout", "other"}
    /\ edit \in 0 .. MAX_LAYOUT_TABLES
    /\ move_mode \in BOOLEAN
    /\ max_tables \in Nat /\ saved_max \in Nat
    /\ terminal \in {"away", "writing"}
    /\ edits \in 0 .. MAX_EDITS
    /\ kept \in Plans
    /\ doubt \in BOOLEAN /\ shifted \in BOOLEAN

\* Adding, deleting, resizing, saving and starting again never gives one id
\* to two tables or puts two tables into one cell, where the second could
\* never be selected or drawn; only a label that reads as a place can.
TablesSetApart ==
    /\ IdsApart(layout.tables)
    /\ shifted \/ CellsApart(layout.tables)

\* The POS counts every table it has placed, also one with an id that
\* tables.conf does not hold (the save failed) or lost (more than MAX_TABLES).
TablesAreCounted ==
    up => \A i \in DOMAIN layout.tables : layout.tables[i].id <= max_tables

Placed == {layout.tables[i] : i \in DOMAIN layout.tables}

\* A key changes, moves or removes no table but the one under the cursor: the
\* index it uses is never one from before the cursor moved or the array
\* closed up.
KeysActAtTheCursor ==
    [][up /\ up' => \A t \in Placed : t \in Placed' \/ t.cell = cursor]_vars

OutOfReach == {t.id : t \in {p \in Placed : ~ InGrid(p.cell)}}

\* Only a new grid size puts tables where no cursor can reach them; one that
\* is added later is within reach, the cursor having followed the grid.
OnlyResizingHides ==
    [][up /\ up' /\ layout'.rows = layout.rows /\ layout'.cols = layout.cols
          => OutOfReach' \subseteq OutOfReach]_vars

\* The plan shown after a start is the plan that was saved last: grid, ids,
\* zones and, but for labels that read as a place, cells; also with a full
\* array and with tables that the grid hides.  Excepted are a plan without
\* tables, one that a terminal has written over, and the lines of a file
\* written elsewhere that find no place in the array.
SamePlan(now, before) ==
    /\ now.rows = before.rows \/ before.rows \notin 1 .. MAX_GRID_ROWS
    /\ now.cols = before.cols \/ before.cols \notin 1 .. MAX_GRID_COLS
    /\ DOMAIN now.tables = DOMAIN before.tables \cap (1 .. MAX_LAYOUT_TABLES)
    /\ \A i \in DOMAIN now.tables :
           LET t == before.tables[i]
           IN  /\ now.tables[i].id = t.id /\ now.tables[i].zone = t.zone
               /\ t.label = "plain" => now.tables[i].cell = t.cell

RestartShowsThePlan ==
    [][Start(TRUE, TRUE) /\ ~ doubt /\ kept.tables # << >>
          => SamePlan(layout', kept)]_vars
=============================================================================
