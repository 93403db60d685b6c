CHECK_DEADLOCK FALSE
CONSTANTS
    CalBw = 2
    SetupBw = 2
    NumPhases = 3
    MaxCalls = 5
    Bandwidths <- const_Bandwidths
    Defaults <- const_Defaults
    Timeouts <- const_Timeouts
    Loops <- const_Loops
SPECIFICATION Spec
INVARIANTS
    TypeOK
    CalQuiet
    CalibRestores
    ModeHonoured
    Agree
    SearchFinds
