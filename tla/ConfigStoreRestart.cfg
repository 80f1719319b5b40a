CONSTANTS
    Session = Session
    Screen = Screen
    MAX_ID = 3
SPECIFICATION Spec
PROPERTIES
    CountersPersist
