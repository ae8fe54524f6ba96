CONSTANTS
    x = x
    y = y
    Vars = {x, y}
    Graphs <- MCGraphs
SPECIFICATION Spec
INVARIANTS
    TypeOK
    NeverTooLive
    AllLiveFound
PROPERTY Terminates
CHECK_DEADLOCK FALSE
