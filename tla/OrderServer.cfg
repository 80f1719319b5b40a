CONSTANTS
    t1 = t1
    k1 = k1
    k2 = k2
    TableClients = {t1}
    KitchenClients = {k1, k2}
    TableOf <- MCTableOf
    MAX_ORDERS = 2
    MAX_CLIENTS = 2
    FirstId = 1
    Pos = Pos
    Nobody = Nobody
SPECIFICATION FairSpec
INVARIANTS
    TypeOK
    IdsUnique
    SalesLedger
    PaidIsToldLast
    ToldIsCurrent
PROPERTIES
    ToldWithoutGaps
    ChangeIsAnnounced
    ImplementsOrderLife
