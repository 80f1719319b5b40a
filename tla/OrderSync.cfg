CONSTANTS
    t1 = t1
    t2 = t2
    k1 = k1
    TableClients = {t1}
    KitchenClients = {k1}
    TableOf <- MCTableOf
    MAX_ORDERS = 1
    MAX_CLIENTS = 2
    FirstId = 1
    Pos = Pos
    Nobody = Nobody
    QCAP = 1
    WCAP = 1
    RCAP = 1
SPECIFICATION SyncSpec
INVARIANTS
    SyncTypeOK
    CaughtUpMirrorAgrees
PROPERTIES
    ScreenMovesLegally
