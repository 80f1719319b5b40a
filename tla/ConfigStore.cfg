CONSTANTS
    Session = Session
    Screen = Screen
    MAX_ID = 3
SPECIFICATION Spec
INVARIANTS
    TypeOK
    ToldIsDurable
PROPERTIES
    ReplaceIsAtomic
