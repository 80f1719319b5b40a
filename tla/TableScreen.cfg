CONSTANTS
    MenuIds = {1, 2, 3}
    Prices <- MCPrices
    MAX_ORDER_ITEMS = 2
    MAX_QTY = 2
    NotForSale = 0
    Catalogues <- MCCatalogues
    Categories = {"all", "meal", "drink"}
    All = "all"
    GRID_COLS = 2
    MAX_ROWS = 2
SPECIFICATION TableSpec
INVARIANTS
    TableTypeOK
    CartKeysActOnALine
PROPERTIES
    CartIsABag
    OrderIsWhatWasSent
    AddsACardShown
