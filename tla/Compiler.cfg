CONSTANTS
    x = x
    y = y
    z = z
    t0 = t0
    t1 = t1
    t2 = t2
    t3 = t3
    t4 = t4
    t5 = t5
    NoSymbol = NoSymbol
    Vars = {x, y, z, t0, t1, t2, t3, t4, t5}
    TempSymbols <- MCTemps
    Programs <- MCPrograms
    Constants <- MCConstants
    Inputs <- MCInputs
    MaxPredecessors = 16
    RegisterCount = 2
    IADDR_SIZE = 48
    DADDR_SIZE = 8
    WordBits = 8
    MaxTurns = 5
    MaxWord = 127
    MaxSteps = 60
SPECIFICATION Spec
INVARIANTS
    SpareAgrees
    RegistersNamed
    OutputRight
    EndsAlike
CHECK_DEADLOCK FALSE
