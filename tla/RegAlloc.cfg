CONSTANTS
    v1 = v1
    v2 = v2
    v3 = v3
    v4 = v4
    v5 = v5
    Vars = {v1, v2, v3, v4, v5}
    RegisterCount = 3
    Programs <- MCPrograms
SPECIFICATION Spec
INVARIANTS
    TypeOK
    RegistersConserved
    NoSharing
    OneHome
    SpillOnlyUnderPressure
    LiveValuesKept
PROPERTIES
    Terminates
    ImplementsHomes
CHECK_DEADLOCK FALSE
