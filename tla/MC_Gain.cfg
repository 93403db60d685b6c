CHECK_DEADLOCK FALSE
CONSTANTS
    Size = 77
    SetupLo = 2400
    MaxCalls = 6
    Freqs = {800, 2400, 5500, 6001}
    Gains <- const_Gains
    Tables <- const_Tables
    RangeOf <- const_RangeOf
    Clocks <- const_Clocks
    SetupClocks <- const_SetupClocks
SPECIFICATION Spec
INVARIANTS
    GainHeld
    RegistersCurrent
