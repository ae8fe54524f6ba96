CONSTANTS
    k1 = k1
    k2 = k2
    k3 = k3
    k4 = k4
    v1 = v1
    v2 = v2
    Null = Null
    Keys = {k1, k2, k3, k4}
    Values = {v1, v2}
    Slots = 3
    Hash <- Collide
    Pool <- MCPool
SPECIFICATION Spec
INVARIANTS
    TypeOK
    NoDangling
    IterationComplete
PROPERTY ImplementsKeyMap
SYMMETRY Alike
CHECK_DEADLOCK FALSE
