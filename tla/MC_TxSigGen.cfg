CONSTANTS
    AddrBits = 2
    Depth = 4
    Half = 2
    ResetLast = 1
    Watched = 1
    MaxCalls = 3
    Initial <- const_Initial
    Datasets <- const_Datasets
SPECIFICATION Spec
INVARIANTS
    TypeOK
    Programmed
PROPERTIES
    PlaysOnlyWave
    PlaysWholeWave
