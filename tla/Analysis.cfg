CONSTANTS
    x = x
    y = y
    t0 = t0
    t1 = t1
    t2 = t2
    t3 = t3
    t4 = t4
    t5 = t5
    t6 = t6
    t7 = t7
    Vars = {x, y, t0, t1, t2, t3, t4, t5, t6, t7}
    TempSymbols <- MCTemps
    Programs <- MCPrograms
    MaxPredecessors = 16
SPECIFICATION AnalysisSpec
INVARIANTS
    LoopsHavePreHeaders
    LiveInCode
CHECK_DEADLOCK FALSE
