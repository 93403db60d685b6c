CHECK_DEADLOCK FALSE
CONSTANTS
    MaxCalls = 4
    MinLo = 1
    MaxLo = 4
    BadRate = 9
    CalThreshold = 1
    AlcMod = 3
    NumProfiles = 2
    Freqs <- const_Freqs
    OnGrid <- const_OnGrid
    TableEnds <- const_TableEnds
    AlcWords <- const_AlcWords
SPECIFICATION Spec
INVARIANTS
    TypeOK
    TablesMatch
    LoProgrammed
    ReportsWhatPlays
    AlcCached
    AlcNearStored
    QuadFresh
PROPERTIES
    RecallChangesAlc
    TuneEnds
