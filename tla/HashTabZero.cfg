CONSTANTS
    k1 = k1
    k2 = k2
    k3 = k3
    k4 = k4
    v1 = v1
    v2 = v2
    Null = Null
    Keys = {k1, k2}
    Values = {v1, v2}
    Slots = 2
    Hash <- Zero
    Pool <- MCPool
SPECIFICATION Spec
INVARIANT FindsInserted
