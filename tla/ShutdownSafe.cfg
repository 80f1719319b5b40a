CONSTANTS
    Clients = {c1, c2}
    Main = Main
    Nobody = Nobody
    MAX_FD = 6
    MAX_CONNECTS = 2
    MAX_LINES = 2
SPECIFICATION Spec
INVARIANTS
    EndIsSafe
