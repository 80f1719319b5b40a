CONSTANTS
    Tables = {1}
    Cell <- Apart
    GRID_ROWS = 1
    GRID_COLS = 1
    VIEW_ROWS = 1
    VIEW_COLS = 1
    MAX_ROWS = 1
    MAX_ORDERS = 1
    Sessions = {s1}
    Pos = Pos
    MaxNews = 2
SPECIFICATION Spec
INVARIANTS
    EnterPaysTheSelected
