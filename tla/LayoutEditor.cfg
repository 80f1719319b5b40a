CONSTANTS
    MAX_LAYOUT_TABLES = 3
    MAX_GRID_ROWS = 2
    MAX_GRID_COLS = 2
    FallbackRows = 2
    FallbackCols = 2
    DefaultRows = 2
    DefaultCols = 2
    DefaultTables <- MCDefaultTables
    DEFAULT_MAX_TABLES = 1
    InitialFiles <- MCInitialFiles
    Sizes <- MCSizes
    MAX_ID = 4
    MAX_EDITS = 3
SPECIFICATION Spec
INVARIANTS
    TypeOK
    TablesSetApart
    TablesAreCounted
PROPERTIES
    KeysActAtTheCursor
    OnlyResizingHides
    
