CONSTANTS
    NumDelays = 3
    Eyes <- MCWide
    Attens = {}
    MaxAtten = 3
    SetupAtten = 2
    Freqs = {30720}
    Configs <- MCByFour
    SetupChain <- MCSetupChain
    SetupDelay <- MCSetupDelay
    PathClks = {}
    Tones = {0, 2}
    AskedTones <- NoTones
    AskedModes = {}
    MaxCalls = 4
SPECIFICATION Spec
CHECK_DEADLOCK FALSE
PROPERTY RateObtained
    
