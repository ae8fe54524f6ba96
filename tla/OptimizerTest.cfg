CONSTANTS
    x = x
    y = y
    z = z
    t0 = t0
    t1 = t1
    t2 = t2
    t3 = t3
    t4 = t4
    t5 = t5
    t6 = t6
    t7 = t7
    t8 = t8
    t9 = t9
    NoSymbol = NoSymbol
    Vars = {x, y, z, t0, t1, t2, t3, t4, t5, t6, t7, t8, t9}
    TempSymbols <- MCTemps
    Programs <- TestPrograms
    Inputs <- MCInputs
    Levels = {1}
    SymbolOrders <- MCOrders
    MaxPredecessors = 16
    MaxWord = 127
    MaxSteps = 60
SPECIFICATION Spec
INVARIANT OutputKept
CHECK_DEADLOCK FALSE
