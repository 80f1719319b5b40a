CONSTANTS
    Tables = {1, 2}
    Cell <- Apart
    GRID_ROWS = 1
    GRID_COLS = 3
    VIEW_ROWS = 1
    VIEW_COLS = 2
    MAX_ROWS = 1
    MAX_ORDERS = 2
    Sessions = {s1}
    Pos = Pos
    MaxNews = 4
SPECIFICATION Spec
INVARIANTS
    TypeOK
    StaleMeansNews
    SelectedIsHighlighted
    EnterPaysItsRow
    CallsAreShownUnlessRaced
