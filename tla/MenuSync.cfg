CONSTANTS
    t1 = t1
    t2 = t2
    Tables = {t1}
    Texts = {"plain"}
    MAX_ITEMS = 4
    LINE_CAP = 3
    READ_CAP = 2
    QCAP = 2
    WCAP = 1
    MAX_ID = 5
    MAX_EDITS = 2
    Default <- MCDefault
    InitFiles <- MCInitFiles
SPECIFICATION FairSpec
INVARIANTS
    TypeOK
    SettledTableShowsTheMenu
PROPERTIES
    RestartKeepsMenu
    MenuReachesTables
